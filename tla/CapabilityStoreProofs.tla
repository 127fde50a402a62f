------------------------ MODULE CapabilityStoreProofs -----------------------
(***************************************************************************)
(* What nodes of different SDK versions load from the database they share, *)
(* for any set of nodes and any manifests: the way through a record gives  *)
(* back the descriptor that was validated, up to enum values the reader    *)
(* has no name for, and an SDK accepts what another one does unless it     *)
(* does not know a capability's type.                                      *)
(***************************************************************************)
EXTENDS CapabilityStore, TLAPS

-----------------------------------------------------------------------------
(* Enum values through the database.                                       *)

\* A newer SDK knows what an older one does.
LEMMA KnownValuesGrow ==
    /\ \A s \in Versions : KnownValues("older") \subseteq KnownValues(s)
    /\ \A s \in Versions : KnownValues(s) \subseteq KnownValues("newer")
    /\ \A s \in Versions : Unspecified \in KnownValues(s)
BY DEF KnownValues, Versions

\* A reader that knows as much as the writer.
KnowsAll(reader, w) == reader = "newer" \/ reader = w

LEMMA StoredEnums ==
    ASSUME NEW reader \in Versions, NEW w \in Versions, NEW values
    PROVE  LET stored == DecodeStored(reader, EncodeEnums(w, values))
           IN  /\ KnowsAll(reader, w) => stored = values
               /\ DecodeEnums("older", stored) = DecodeEnums("older", values)
<1> DEFINE stored == DecodeStored(reader, EncodeEnums(w, values))
<1>1. \A v \in values : <<IF v \in KnownValues(w) THEN "name" ELSE "number", v>>
                            \in EncodeEnums(w, values)
  BY DEF EncodeEnums
<1>2. \A v \in values : v \notin KnownValues(w) \/ v \in KnownValues(reader) => v \in stored
  <2> SUFFICES ASSUME NEW v \in values,
                      v \notin KnownValues(w) \/ v \in KnownValues(reader)
               PROVE  v \in stored
    OBVIOUS
  <2> DEFINE e == <<IF v \in KnownValues(w) THEN "name" ELSE "number", v>>
  <2>1. e \in EncodeEnums(w, values) /\ e[2] = v
    BY <1>1
  <2>2. e[1] = "number" \/ e[2] \in KnownValues(reader)
    OBVIOUS
  <2> HIDE DEF e
  <2> QED BY <2>1, <2>2 DEF DecodeStored
<1>3. stored \subseteq values
  BY DEF DecodeStored, EncodeEnums
<1>4. KnowsAll(reader, w) => stored = values
  BY <1>2, <1>3, KnownValuesGrow DEF KnowsAll
<1>5. DecodeEnums("older", stored) = DecodeEnums("older", values)
  BY <1>2, <1>3, KnownValuesGrow DEF DecodeEnums
<1> QED BY <1>4, <1>5

LEMMA StoredEnum ==
    ASSUME NEW reader \in Versions, NEW w \in Versions, NEW v
    PROVE  LET stored == DecodeStoredEnum(reader, EncodeEnums(w, {v}))
           IN  /\ KnowsAll(reader, w) => stored = v
               /\ DecodeEnum("older", stored) = DecodeEnum("older", v)
<1> DEFINE decoded == DecodeStored(reader, EncodeEnums(w, {v}))
<1>1. /\ KnowsAll(reader, w) => decoded = {v}
      /\ DecodeEnums("older", decoded) = DecodeEnums("older", {v})
  BY StoredEnums
<1>2. decoded \in {{}, {v}}
  BY DEF DecodeStored, EncodeEnums
<1>3. DecodeStoredEnum(reader, EncodeEnums(w, {v})) = IF decoded = {} THEN Unspecified ELSE v
  BY <1>2 DEF DecodeStoredEnum
<1>4. decoded = {} => v \notin KnownValues("older")
  BY <1>1 DEF DecodeEnums
<1> HIDE DEF decoded
<1> QED BY <1>1, <1>2, <1>3, <1>4, KnownValuesGrow DEF DecodeEnum, Versions

-----------------------------------------------------------------------------
(* Messages and descriptors through the database.                          *)

LEMMA StoredSetting ==
    ASSUME NEW reader \in Versions, NEW w \in Versions, NEW s \in SettingMessages
    PROVE  LET stored == DecodeStoredSetting(reader, EncodeSetting(w, s))
           IN  /\ KnowsAll(reader, w) => stored = s
               /\ DecodeSetting("older", stored) = DecodeSetting("older", s)
BY StoredEnum DEF SettingMessages, DecodeStoredSetting, EncodeSetting, DecodeSetting

LEMMA StoredField ==
    ASSUME NEW reader \in Versions, NEW w \in Versions, NEW f \in FieldMessages
    PROVE  LET stored == DecodeStoredField(reader, EncodeField(w, f))
           IN  /\ KnowsAll(reader, w) => stored = f
               /\ DecodeField("older", stored) = DecodeField("older", f)
BY StoredEnum DEF FieldMessages, DecodeStoredField, EncodeField, DecodeField

LEMMA StoredForm ==
    ASSUME NEW reader \in Versions, NEW w \in Versions, NEW form, IsForm(form)
    PROVE  LET stored == DecodeStoredForm(reader, EncodeForm(w, form))
           IN  /\ KnowsAll(reader, w) => stored = form
               /\ DecodeForm("older", stored) = DecodeForm("older", form)
<1> DEFINE stored == DecodeStoredForm(reader, EncodeForm(w, form))
           fields == [i \in DOMAIN form.fields |->
                        DecodeStoredField(reader, EncodeField(w, form.fields[i]))]
<1>1. /\ \A i \in DOMAIN form.fields : form.fields[i] \in FieldMessages
      /\ form.fields = [i \in DOMAIN form.fields |-> form.fields[i]]
  BY DEF IsForm
<1>2. stored = [form EXCEPT !.fields = fields]
  BY DEF IsForm, EncodeForm, DecodeStoredForm
<1>3. KnowsAll(reader, w) => fields = form.fields
  BY <1>1, StoredField
<1>4. [i \in DOMAIN fields |-> DecodeField("older", fields[i])]
        = [i \in DOMAIN form.fields |-> DecodeField("older", form.fields[i])]
  BY <1>1, StoredField
<1> HIDE DEF fields
<1>5. KnowsAll(reader, w) => stored = form
  BY <1>2, <1>3 DEF IsForm
<1>6. DecodeForm("older", stored) = DecodeForm("older", form)
  BY <1>2, <1>4 DEF IsForm, DecodeForm
<1> QED BY <1>5, <1>6

LEMMA StoredWatch ==
    ASSUME NEW reader \in Versions, NEW w \in Versions, NEW watch \in WatchMessages
    PROVE  LET stored == DecodeStoredWatch(reader, EncodeWatch(w, watch))
           IN  /\ KnowsAll(reader, w) => stored = watch
               /\ DecodeWatch("older", stored) = DecodeWatch("older", watch)
<1> DEFINE stored == DecodeStoredWatch(reader, EncodeWatch(w, watch))
           enums(V) == DecodeStored(reader, EncodeEnums(w, V))
           settings == [i \in DOMAIN watch.settings |->
                          DecodeStoredSetting(reader, EncodeSetting(w, watch.settings[i]))]
<1>1. /\ \A i \in DOMAIN watch.settings : watch.settings[i] \in SettingMessages
      /\ watch.settings = [i \in DOMAIN watch.settings |-> watch.settings[i]]
  BY DEF WatchMessages
<1>2. stored = [watch EXCEPT !.methods = enums(watch.methods), !.media = enums(watch.media),
                             !.requiresWatched = enums(watch.requiresWatched),
                             !.settings = settings]
  BY DEF WatchMessages, EncodeWatch, DecodeStoredWatch
<1>3. KnowsAll(reader, w) => settings = watch.settings
  BY <1>1, StoredSetting
<1>4. [i \in DOMAIN settings |-> DecodeSetting("older", settings[i])]
        = [i \in DOMAIN watch.settings |-> DecodeSetting("older", watch.settings[i])]
  BY <1>1, StoredSetting
<1>5. \A V : /\ KnowsAll(reader, w) => enums(V) = V
             /\ DecodeEnums("older", enums(V)) = DecodeEnums("older", V)
  BY StoredEnums
<1> HIDE DEF settings, enums
<1>6. ASSUME KnowsAll(reader, w) PROVE stored = watch
  <2>1. stored = [watch EXCEPT !.methods = watch.methods, !.media = watch.media,
                               !.requiresWatched = watch.requiresWatched,
                               !.settings = watch.settings]
    <3>1. /\ enums(watch.methods) = watch.methods /\ enums(watch.media) = watch.media
          /\ enums(watch.requiresWatched) = watch.requiresWatched
      BY <1>5, <1>6
    <3> HIDE DEF stored
    <3> QED BY <1>2, <1>3, <1>6, <3>1
  <2> HIDE DEF stored
  <2> QED BY <2>1 DEF WatchMessages
<1>7. DecodeWatch("older", stored) = DecodeWatch("older", watch)
  BY <1>2, <1>4, <1>5 DEF WatchMessages, DecodeWatch
<1> QED BY <1>6, <1>7

\* A descriptor as a node loads it: the one that was stored, where the reader
\* knows what the writer did, and else the same to an older SDK's eyes.
LEMMA StoredDescriptor ==
    ASSUME NEW reader \in Versions, NEW w \in Versions, NEW d, IsDescriptor(d)
    PROVE  LET stored == DecodeCapability(reader, RecordOf(w, d))
           IN  /\ stored.type = d.type /\ stored.authModes = d.authModes
               /\ KnowsAll(reader, w) => stored = WithoutNetwork(d)
               /\ DecodeDescriptor("older", stored)
                    = DecodeDescriptor("older", WithoutNetwork(d))
<1> DEFINE stored == DecodeCapability(reader, RecordOf(w, d))
           watch == [i \in DOMAIN d.watch |->
                       DecodeStoredWatch(reader, EncodeWatch(w, d.watch[i]))]
           form == [i \in DOMAIN d.form |->
                      DecodeStoredForm(reader, EncodeForm(w, d.form[i]))]
<1>1. /\ \A i \in DOMAIN d.watch : d.watch[i] \in WatchMessages
      /\ d.watch = [i \in DOMAIN d.watch |-> d.watch[i]]
  BY DEF IsDescriptor
<1>2. /\ \A i \in DOMAIN d.form : IsForm(d.form[i])
      /\ d.form = [i \in DOMAIN d.form |-> d.form[i]]
  BY DEF IsDescriptor
<1>3. stored = [type |-> d.type, slug |-> d.slug, authModes |-> d.authModes,
                router |-> d.router, connectionTest |-> d.connectionTest,
                form |-> form, watch |-> watch, network |-> << >>]
  BY DEF RecordOf, DecodeCapability
<1>4. KnowsAll(reader, w) => watch = d.watch /\ form = d.form
  BY <1>1, <1>2, StoredWatch, StoredForm
<1>5. [i \in DOMAIN watch |-> DecodeWatch("older", watch[i])]
        = [i \in DOMAIN d.watch |-> DecodeWatch("older", d.watch[i])]
  BY <1>1, StoredWatch
<1>6. [i \in DOMAIN form |-> DecodeForm("older", form[i])]
        = [i \in DOMAIN d.form |-> DecodeForm("older", d.form[i])]
  BY <1>2, StoredForm
<1> HIDE DEF watch, form
<1>7. KnowsAll(reader, w) => stored = WithoutNetwork(d)
  BY <1>3, <1>4 DEF WithoutNetwork, IsDescriptor
<1>8. DecodeDescriptor("older", stored) = DecodeDescriptor("older", WithoutNetwork(d))
  <2> DEFINE e == WithoutNetwork(d)
             seenWatch == [i \in DOMAIN d.watch |-> DecodeWatch("older", d.watch[i])]
             seenForm == [i \in DOMAIN d.form |-> DecodeForm("older", d.form[i])]
  <2>1. /\ e \in [type : {d.type}, slug : {d.slug}, authModes : {d.authModes},
                  connectionTest : {d.connectionTest}, router : {d.router},
                  network : {<< >>}, watch : {d.watch}, form : {d.form}]
        /\ e.watch = d.watch /\ e.form = d.form
    BY DEF WithoutNetwork, IsDescriptor
  <2>2. DecodeDescriptor("older", e) = [e EXCEPT !.watch = seenWatch, !.form = seenForm]
    <3> HIDE DEF e
    <3> QED BY <2>1 DEF DecodeDescriptor
  <2>3. stored = [e EXCEPT !.watch = watch, !.form = form]
    <3>1. PICK r : r = [e EXCEPT !.watch = watch, !.form = form]
      OBVIOUS
    <3>2. r = [type |-> d.type, slug |-> d.slug, authModes |-> d.authModes,
               router |-> d.router, connectionTest |-> d.connectionTest,
               form |-> form, watch |-> watch, network |-> << >>]
      <4> HIDE DEF e
      <4> QED BY <2>1, <3>1
    <3> QED BY <1>3, <3>1, <3>2
  <2>4. stored.watch = watch /\ stored.form = form
    <3> HIDE DEF stored
    <3> QED BY <1>3
  <2>5. DecodeDescriptor("older", stored) =
          [stored EXCEPT !.watch = seenWatch, !.form = seenForm]
    <3> HIDE DEF stored
    <3> QED BY <2>4, <1>5, <1>6 DEF DecodeDescriptor
  <2> HIDE DEF e, stored, seenWatch, seenForm
  <2>6. DecodeDescriptor("older", stored) = DecodeDescriptor("older", e)
    BY <2>1, <2>2, <2>3, <2>5
  <2> QED BY <2>6 DEF e
<1> QED BY <1>3, <1>7, <1>8

\* What a node decodes from a file is a manifest again.
LEMMA DecodedManifest ==
    ASSUME NEW s \in Versions, NEW m, IsManifest(m)
    PROVE  IsManifest(Decode(s, m))
<1>1. \A V : DecodeEnums(s, V) \subseteq V
  BY DEF DecodeEnums
<1>2. \A v \in EnumValues : DecodeEnum(s, v) \in EnumValues
  BY DEF DecodeEnum, EnumValues
<1>3. \A x \in SettingMessages : DecodeSetting(s, x) \in SettingMessages
  BY <1>2 DEF SettingMessages, DecodeSetting
<1>4. \A x \in FieldMessages : DecodeField(s, x) \in FieldMessages
  BY <1>2 DEF FieldMessages, DecodeField
<1>5. ASSUME NEW x \in WatchMessages PROVE DecodeWatch(s, x) \in WatchMessages
  <2> DEFINE settings == [i \in DOMAIN x.settings |-> DecodeSetting(s, x.settings[i])]
  <2>1. settings \in Seq(SettingMessages)
    BY <1>3 DEF WatchMessages
  <2>2. DecodeWatch(s, x) = [x EXCEPT !.methods = DecodeEnums(s, x.methods),
                                      !.media = DecodeEnums(s, x.media),
                                      !.requiresWatched = DecodeEnums(s, x.requiresWatched),
                                      !.settings = settings]
    BY DEF DecodeWatch
  <2>3. /\ DecodeEnums(s, x.methods) \subseteq STRING
        /\ DecodeEnums(s, x.media) \subseteq STRING
        /\ DecodeEnums(s, x.requiresWatched) \subseteq STRING
    BY <1>1 DEF WatchMessages
  <2> HIDE DEF settings
  <2> QED BY <2>1, <2>2, <2>3 DEF WatchMessages
<1>6. ASSUME NEW x, IsForm(x) PROVE IsForm(DecodeForm(s, x))
  BY <1>4, <1>6 DEF IsForm, DecodeForm
<1>7. ASSUME NEW d, IsDescriptor(d) PROVE IsDescriptor(DecodeDescriptor(s, d))
  <2> DEFINE watch == [i \in DOMAIN d.watch |-> DecodeWatch(s, d.watch[i])]
             form == [i \in DOMAIN d.form |-> DecodeForm(s, d.form[i])]
  <2>1. watch \in Seq(WatchMessages)
    BY <1>5, <1>7 DEF IsDescriptor
  <2>2. form \in Seq(ToSet(form)) /\ \A i \in DOMAIN form : IsForm(form[i])
    BY <1>6, <1>7 DEF IsDescriptor, ToSet
  <2>3. DecodeDescriptor(s, d) = [d EXCEPT !.watch = watch, !.form = form]
    BY DEF DecodeDescriptor
  <2> HIDE DEF watch, form
  <2> QED BY <2>1, <2>2, <2>3, <1>7 DEF IsDescriptor
<1>8. \A i \in DOMAIN m : IsDescriptor(m[i])
  BY DEF IsManifest
<1> QED BY <1>7, <1>8 DEF IsManifest, Decode, ToSet

-----------------------------------------------------------------------------
(* The rules.                                                              *)

TypesKnown(s, m) == \A i \in DOMAIN m : m[i].type \in KnownTypes(s)

\* A newer SDK knows the types an older one does.
LEMMA KnownTypesGrow ==
    ASSUME NEW w \in Versions, NEW reader \in Versions, KnowsAll(reader, w)
    PROVE  KnownTypes(w) \subseteq KnownTypes(reader)
BY DEF KnownTypes, KnowsAll, Versions

\* An SDK that knows the types in a manifest accepts it, once decoded, if
\* another SDK does: the one other rule that looks at names counts a value
\* without a name as rateable, and the media type the newer SDK adds is.
LEMMA RulesAgree ==
    ASSUME NEW a \in Versions, NEW b \in Versions, NEW m, TypesKnown(b, m)
    PROVE  Validate(a, m) => Validate(b, m)
<1>1. \A media : SupportsRatedMediaType(a, media) => SupportsRatedMediaType(b, media)
  BY DEF SupportsRatedMediaType, KnownValues, Versions
<1>2. \A w : WatchSyncOK(a, w) => WatchSyncOK(b, w)
  BY <1>1 DEF WatchSyncOK
<1>3. \A d : WatchSyncCapabilityOK(a, d) => WatchSyncCapabilityOK(b, d)
  BY <1>2 DEF WatchSyncCapabilityOK
<1>4. \A d : d.type \in KnownTypes(b) /\ CapabilityOK(a, d) => CapabilityOK(b, d)
  BY <1>3 DEF CapabilityOK
<1> QED BY <1>4 DEF Validate, TypesKnown

-----------------------------------------------------------------------------
(* The inductive invariant: what is stored was validated, and what a node  *)
(* loaded is what its SDK makes of the records.                            *)

StoredInv ==
    /\ writer \in Versions \cup {None}
    /\ IsManifest(installed)
    /\ writer = None => installed = << >>
    /\ writer # None => Validate(writer, installed)
    /\ records = [i \in DOMAIN installed |-> RecordOf(writer, installed[i])]

ViewOf(n) == [i \in DOMAIN records |-> DecodeCapability(sdk[n], records[i])]

ViewInv ==
    /\ view = [n \in Nodes |-> view[n]]
    /\ \A n \in Nodes : view[n] = << >> \/ view[n] = ViewOf(n)

Inv ==
    /\ manifest \in Manifests
    /\ sdk \in [Nodes -> Versions]
    /\ refused \in [Nodes -> {None, "file", "plugin"}]
    /\ \A n \in Nodes : refused[n] = "plugin" => ~TypesKnown(sdk[n], manifest)
    /\ StoredInv
    /\ ViewInv

LEMMA InitInv == Init => Inv
<1> SUFFICES ASSUME Init PROVE Inv
  OBVIOUS
<1>1. IsManifest(<< >>)
  BY DEF IsManifest, ToSet
<1>2. StoredInv
  BY <1>1 DEF Init, StoredInv
<1>3. ViewInv
  BY DEF Init, ViewInv
<1> QED BY <1>2, <1>3 DEF Init, Inv, None

LEMMA InstallStep ==
    ASSUME Inv, NEW n \in Nodes, NEW path \in {"file", "plugin"}, NEW m,
           IsManifest(m), Install(n, path, m),
           path = "plugin" /\ ~Validate(sdk[n], m) => ~TypesKnown(sdk[n], manifest)
    PROVE  Inv'
<1>1. CASE Validate(sdk[n], m)
  <2>1. /\ installed' = m /\ writer' = sdk[n] /\ sdk' = sdk /\ manifest' = manifest
        /\ records' = [i \in DOMAIN m |-> RecordOf(sdk[n], m[i])]
        /\ view' = [k \in Nodes |-> << >>]
        /\ refused' = [refused EXCEPT ![n] = None]
    BY <1>1 DEF Install
  <2>2. sdk[n] \in Versions
    BY DEF Inv
  <2>3. StoredInv'
    BY <1>1, <2>1, <2>2 DEF StoredInv, Versions, None
  <2>4. ViewInv'
    BY <2>1 DEF ViewInv
  <2>5. \A k \in Nodes : refused'[k] = "plugin" => refused[k] = "plugin"
    BY <2>1 DEF Inv, None
  <2> QED BY <2>1, <2>3, <2>4, <2>5 DEF Inv, TypesKnown
<1>2. CASE ~Validate(sdk[n], m)
  <2>1. /\ UNCHANGED <<sdk, manifest, installed, writer, records, view>>
        /\ refused' = [refused EXCEPT ![n] = path]
    BY <1>2 DEF Install
  <2>2. StoredInv' /\ ViewInv'
    BY <2>1 DEF Inv, StoredInv, ViewInv, ViewOf
  <2>3. \A k \in Nodes : refused'[k] = "plugin" => ~TypesKnown(sdk[k], manifest)
    BY <1>2, <2>1 DEF Inv
  <2> QED BY <2>1, <2>2, <2>3 DEF Inv, TypesKnown
<1> QED BY <1>1, <1>2

LEMMA InvStep == Inv /\ [Next]_vars => Inv'
<1> SUFFICES ASSUME Inv, [Next]_vars PROVE Inv'
  OBVIOUS
<1>0. IsManifest(manifest)
  BY ManifestsAssumption DEF Inv
<1>1. ASSUME NEW n \in Nodes, InstallFromFile(n) PROVE Inv'
  <2>1. IsManifest(Decode(sdk[n], manifest))
    BY <1>0, DecodedManifest DEF Inv
  <2> QED BY <1>1, <2>1, InstallStep DEF InstallFromFile
<1>2. ASSUME NEW n \in Nodes, InstallFromPlugin(n) PROVE Inv'
  <2>1. Validate(sdk[n], manifest) \/ ~TypesKnown(sdk[n], manifest)
    BY <1>2, RulesAgree DEF InstallFromPlugin, Inv, Versions
  <2> QED BY <1>0, <1>2, <2>1, InstallStep DEF InstallFromPlugin
<1>3. ASSUME NEW n \in Nodes, Load(n) PROVE Inv'
  <2>1. /\ UNCHANGED <<sdk, manifest, refused, installed, writer, records>>
        /\ view' = [view EXCEPT ![n] = ViewOf(n)]
    BY <1>3 DEF Load, ViewOf
  <2>2. StoredInv'
    BY <2>1 DEF Inv, StoredInv
  <2>3. \A k \in Nodes : ViewOf(k)' = ViewOf(k)
    BY <2>1 DEF ViewOf
  <2>4. ViewInv'
    BY <2>1, <2>3 DEF Inv, ViewInv
  <2> QED BY <2>1, <2>2, <2>4 DEF Inv
<1>4. ASSUME NEW n \in Nodes, Upgrade(n) PROVE Inv'
  <2>1. /\ UNCHANGED <<manifest, installed, writer, records>>
        /\ sdk' = [sdk EXCEPT ![n] = "newer"]
        /\ view' = [view EXCEPT ![n] = << >>]
        /\ refused' = [refused EXCEPT ![n] = None]
    BY <1>4 DEF Upgrade
  <2>2. StoredInv'
    BY <2>1 DEF Inv, StoredInv
  <2>3. \A k \in Nodes \ {n} : ViewOf(k)' = ViewOf(k)
    BY <2>1 DEF ViewOf, Inv
  <2>4. ViewInv'
    BY <2>1, <2>3 DEF Inv, ViewInv
  <2>5. sdk' \in [Nodes -> Versions] /\ refused' \in [Nodes -> {None, "file", "plugin"}]
    BY <2>1 DEF Inv, Versions
  <2>6. \A k \in Nodes : refused'[k] = "plugin" =>
          refused[k] = "plugin" /\ sdk'[k] = sdk[k]
    BY <2>1 DEF Inv, None
  <2> QED BY <2>1, <2>2, <2>4, <2>5, <2>6 DEF Inv, TypesKnown
<1>5. CASE UNCHANGED vars
  BY <1>5 DEF vars, Inv, StoredInv, ViewInv, ViewOf
<1> QED BY <1>1, <1>2, <1>3, <1>4, <1>5 DEF Next

LEMMA Invariance == Spec => []Inv
BY InitInv, InvStep, PTL DEF Spec

\* The descriptors a node has loaded.
LEMMA ViewIsStored ==
    ASSUME Inv, NEW n \in Nodes, Loaded(n)
    PROVE  /\ writer \in Versions /\ sdk[n] \in Versions
           /\ Validate(writer, installed)
           /\ DOMAIN view[n] = DOMAIN installed
           /\ view[n] = [i \in DOMAIN installed |-> view[n][i]]
           /\ \A i \in DOMAIN installed :
                /\ IsDescriptor(installed[i])
                /\ view[n][i] = DecodeCapability(sdk[n], RecordOf(writer, installed[i]))
<1>1. view[n] = ViewOf(n) /\ view[n] # << >>
  BY DEF Loaded, Inv, ViewInv
<1>2. records = [i \in DOMAIN installed |-> RecordOf(writer, installed[i])]
  BY DEF Inv, StoredInv
<1>3. view[n] = [i \in DOMAIN installed |-> DecodeCapability(sdk[n], records[i])]
  BY <1>1, <1>2 DEF ViewOf
<1>4. installed # << >>
  BY <1>1, <1>3
<1> QED BY <1>2, <1>3, <1>4 DEF Inv, StoredInv, IsManifest

LEMMA LoadedDescriptor ==
    ASSUME Inv, NEW n \in Nodes, Loaded(n), NEW i \in DOMAIN installed
    PROVE  /\ view[n][i].type = installed[i].type
           /\ view[n][i].authModes = installed[i].authModes
           /\ KnowsAll(sdk[n], writer) => view[n][i] = WithoutNetwork(installed[i])
           /\ DecodeDescriptor("older", view[n][i])
                = DecodeDescriptor("older", WithoutNetwork(installed[i]))
<1> DEFINE d == installed[i]
           reader == sdk[n]
<1>1. /\ reader \in Versions /\ writer \in Versions /\ IsDescriptor(d)
      /\ view[n][i] = DecodeCapability(reader, RecordOf(writer, d))
  BY ViewIsStored
<1> HIDE DEF d, reader
<1>2. LET stored == DecodeCapability(reader, RecordOf(writer, d))
      IN  /\ stored.type = d.type /\ stored.authModes = d.authModes
          /\ KnowsAll(reader, writer) => stored = WithoutNetwork(d)
          /\ DecodeDescriptor("older", stored)
               = DecodeDescriptor("older", WithoutNetwork(d))
  BY <1>1, StoredDescriptor
<1> QED BY <1>1, <1>2 DEF d, reader

\* Lengths agree, and the other variables keep their types.
THEOREM TypeCorrect == Spec => []TypeOK
<1>1. Inv => TypeOK
  <2> SUFFICES ASSUME Inv PROVE TypeOK
    OBVIOUS
  <2>1. Len(installed) \in Nat /\ DOMAIN installed = 1..Len(installed)
    BY DEF Inv, StoredInv, IsManifest
  <2>2. Len(records) = Len(installed) /\ DOMAIN records = DOMAIN installed
    BY <2>1 DEF Inv, StoredInv
  <2>3. \A n \in Nodes : Len(view[n]) \in {0, Len(records)}
    BY <2>1, <2>2 DEF Inv, ViewInv, ViewOf
  <2> QED BY <2>2, <2>3 DEF Inv, StoredInv, TypeOK
<1> QED BY <1>1, Invariance, PTL

\* docs/user-guide.md:826-829, convert.go:13-16: whatever the versions of the
\* node that stored a manifest and of the one that loads it, the descriptors
\* arrive as they were validated; an older node misses only values it has no
\* name for, and network_access_provider is not stored.
THEOREM LoadsAsInstalled == Spec => []LoadedAsInstalled
<1>1. Inv => LoadedAsInstalled
  <2> SUFFICES ASSUME Inv, NEW n \in Nodes, Loaded(n), NEW i \in DOMAIN installed
               PROVE  IF sdk[n] = "newer" THEN view[n][i] = WithoutNetwork(installed[i])
                      ELSE DecodeDescriptor("older", view[n][i])
                             = DecodeDescriptor("older", WithoutNetwork(installed[i]))
    BY DEF LoadedAsInstalled
  <2> QED BY LoadedDescriptor DEF KnowsAll
<1> QED BY <1>1, Invariance, PTL

\* Validate stays true of what a node of the writer's or a newer SDK loads.
THEOREM ReloadsValid == Spec => []ReloadedStaysValid
<1>1. Inv => ReloadedStaysValid
  <2> SUFFICES ASSUME Inv, NEW n \in Nodes, Loaded(n), KnowsAll(sdk[n], writer),
                      \A i \in DOMAIN installed : installed[i].network = << >>
               PROVE  Validate(sdk[n], view[n])
    BY DEF ReloadedStaysValid, KnowsAll
  <2>1. \A i \in DOMAIN installed : view[n][i] = WithoutNetwork(installed[i])
    BY LoadedDescriptor
  <2>2. \A i \in DOMAIN installed : WithoutNetwork(installed[i]) = installed[i]
    BY ViewIsStored DEF WithoutNetwork, IsDescriptor
  <2>3. installed = [i \in DOMAIN installed |-> installed[i]]
    BY DEF Inv, StoredInv, IsManifest
  <2>4. view[n] = installed
    BY <2>1, <2>2, <2>3, ViewIsStored
  <2>5. Validate(writer, installed) /\ writer \in Versions /\ sdk[n] \in Versions
    BY ViewIsStored
  <2>6. TypesKnown(sdk[n], installed)
    BY <2>5, KnownTypesGrow DEF Validate, CapabilityOK, TypesKnown
  <2> QED BY <2>4, <2>5, <2>6, RulesAgree
<1> QED BY <1>1, Invariance, PTL

\* manifest.go:405-442: no node, of whatever version, ever loads an auth
\* provider that signs overlay peers in and takes passwords, or one without the
\* overlay capability beside it.
THEOREM NetworkAuthKeptApart == Spec => []NetworkAuthStaysApart
<1>1. Inv => NetworkAuthStaysApart
  <2> SUFFICES ASSUME Inv, NEW n \in Nodes, Loaded(n), NEW i \in DOMAIN installed,
                      UsesNetworkIdentity(view[n][i])
               PROVE  /\ ToSet(view[n][i].authModes) \cap {"password", "oauth2"} = {}
                      /\ \E j \in DOMAIN installed : view[n][j].type = NetworkAccess
    BY DEF NetworkAuthStaysApart
  <2>1. \A j \in DOMAIN installed : /\ view[n][j].type = installed[j].type
                                    /\ view[n][j].authModes = installed[j].authModes
    BY LoadedDescriptor
  <2>2. UsesNetworkIdentity(installed[i])
    BY <2>1 DEF UsesNetworkIdentity
  <2>3. AuthProviderCapabilityOK(installed[i]) /\ NetworkAuthPairingOK(installed)
    BY ViewIsStored DEF Validate, CapabilityOK
  <2>4. ToSet(installed[i].authModes) \cap {"password", "oauth2"} = {}
    BY <2>2, <2>3 DEF AuthProviderCapabilityOK, UsesNetworkIdentity
  <2>5. \E j \in DOMAIN installed : installed[j].type = NetworkAccess
    BY <2>2, <2>3 DEF NetworkAuthPairingOK
  <2> QED BY <2>1, <2>4, <2>5
<1> QED BY <1>1, Invariance, PTL

\* manifest.go:281-283: a node refuses a plugin that starts under a newer SDK only
\* for a capability type it does not know, whatever enum values it lists.
THEOREM RunningPluginsAccepted == Spec => []RunningPluginAccepted
<1>1. Inv => RunningPluginAccepted
  BY DEF Inv, RunningPluginAccepted, TypesKnown
<1> QED BY <1>1, Invariance, PTL
=============================================================================

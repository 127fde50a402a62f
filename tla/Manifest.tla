------------------------------ MODULE Manifest ------------------------------
(***************************************************************************)
(* What pkg/pluginsdk/manifest accepts of a manifest's capabilities, for   *)
(* an SDK of a given version: a newer one knows more enum values and more  *)
(* capability types, and decoding JSON drops the enum names an SDK does    *)
(* not know.                                                               *)
(*                                                                         *)
(* An optional message is a sequence of at most one element; a string's    *)
(* value is kept only where a rule depends on it.                          *)
(***************************************************************************)
EXTENDS Integers, Sequences, FiniteSets, SequencesExt

WatchSync == "watch_sync_provider.v1"
NetworkAccess == "network_access_provider.v1"
RequestRouter == "request_router.v1"
AuthProvider == "auth_provider.v1"

Versions == {"older", "newer"}
Unspecified == "UNSPECIFIED"

\* "event_consumer.v1" stands for the ten types without a rule of their own,
\* "future.v1" for a type that a newer SDK adds.
KnownTypes(sdk) ==
    {WatchSync, NetworkAccess, RequestRouter, AuthProvider, "event_consumer.v1"}
        \cup (IF sdk = "newer" THEN {"future.v1"} ELSE {})

\* Enum values an SDK has names for; "FUTURE" stands for a value a newer one
\* adds to any enum, and the others for themselves.
KnownValues(sdk) ==
    {Unspecified, "API_KEY", "MOVIE", "EPISODE", "SERIES",
     "BOOLEAN", "TEXT", "SELECT", "MULTI_SELECT"}
        \cup (IF sdk = "newer" THEN {"FUTURE"} ELSE {})

-----------------------------------------------------------------------------
(* The messages.  A field whose values no rule of another message reads    *)
(* (a form's sections and properties, the router's wording) may hold       *)
(* anything.                                                               *)

EnumValues == STRING \cup {Unspecified}

SettingMessages == [key : STRING, label : BOOLEAN, type : EnumValues, default : STRING]

WatchMessages ==
    [methods : SUBSET STRING, operations : SUBSET STRING, watchlistOrder : BOOLEAN,
     maxBatchSize : Int, media : SUBSET STRING, requiresWatched : SUBSET STRING,
     namespaces : SUBSET STRING, settings : Seq(SettingMessages)]

FieldMessages ==
    [key : STRING, control : EnumValues, dynamic : BOOLEAN, options : BOOLEAN,
     default : STRING, showWhen : SUBSET STRING, group : STRING]

IsForm(form) ==
    form \in [schema : STRING, fields : Seq(FieldMessages),
              sections : {form.sections}, properties : {form.properties}]

IsDescriptor(d) ==
    /\ d \in [type : STRING, slug : BOOLEAN, authModes : Seq(STRING),
              connectionTest : STRING, router : {d.router}, network : {d.network},
              watch : Seq(WatchMessages), form : Seq(ToSet(d.form))]
    /\ \A i \in DOMAIN d.form : IsForm(d.form[i])

IsManifest(manifest) ==
    /\ manifest \in Seq(ToSet(manifest))
    /\ \A i \in DOMAIN manifest : IsDescriptor(manifest[i])

-----------------------------------------------------------------------------
(* decode: a JSON file spells enum values by name.                         *)

DecodeEnums(sdk, values) == values \cap KnownValues(sdk)

\* A field that is not a list is left unset.
DecodeEnum(sdk, value) == IF value \in KnownValues(sdk) THEN value ELSE Unspecified

DecodeSetting(sdk, setting) == [setting EXCEPT !.type = DecodeEnum(sdk, @)]
DecodeField(sdk, field) == [field EXCEPT !.control = DecodeEnum(sdk, @)]

DecodeWatch(sdk, watch) ==
    [watch EXCEPT !.methods = DecodeEnums(sdk, @),
                  !.media = DecodeEnums(sdk, @),
                  !.requiresWatched = DecodeEnums(sdk, @),
                  !.settings = [i \in DOMAIN @ |-> DecodeSetting(sdk, @[i])]]

DecodeForm(sdk, form) ==
    [form EXCEPT !.fields = [i \in DOMAIN @ |-> DecodeField(sdk, @[i])]]

DecodeDescriptor(sdk, d) ==
    [d EXCEPT !.watch = [i \in DOMAIN @ |-> DecodeWatch(sdk, @[i])],
              !.form = [i \in DOMAIN @ |-> DecodeForm(sdk, @[i])]]

Decode(sdk, manifest) ==
    [i \in DOMAIN manifest |-> DecodeDescriptor(sdk, manifest[i])]

-----------------------------------------------------------------------------
(* Validate.                                                               *)

Ratings == {"importRatings", "exportRatings"}

\* Mutation: a value without a name does not count.
SupportsRatedMediaTypeNamed(sdk, media) ==
    media \cap (IF sdk = "newer" THEN {"MOVIE", "SERIES", "FUTURE"} ELSE {"MOVIE", "SERIES"}) # {}

\* watchSyncSupportsRatedMediaType: a value without a name counts.  (The
\* newer SDK rates the media type it adds.)
SupportsRatedMediaType(sdk, media) ==
    \E v \in media : v \in {"MOVIE", "SERIES", "FUTURE"} \/ v \notin KnownValues(sdk)

\* validateWatchSyncConnectionSettings: a type without a name is accepted.
ConnectionSettingsOK(settings) ==
    /\ \A i \in DOMAIN settings :
         /\ settings[i].key # "not a slug" /\ settings[i].label
         /\ settings[i].type = "BOOLEAN" => settings[i].default \in {"absent", "boolean"}
    /\ \A i, j \in DOMAIN settings : settings[i].key = settings[j].key => i = j

WatchSyncOK(sdk, w) ==
    /\ w.methods # {} /\ Unspecified \notin w.methods
    /\ w.operations # {}
    /\ w.watchlistOrder => "importWatchlist" \in w.operations
    /\ w.maxBatchSize \in 1..100
    /\ w.media # {} /\ Unspecified \notin w.media
    /\ w.operations \cap Ratings # {} => SupportsRatedMediaType(sdk, w.media)
    /\ "syncDropped" \in w.operations => "SERIES" \in w.media
    /\ w.requiresWatched # {} => "exportRatings" \in w.operations
    /\ w.requiresWatched \subseteq w.media
    /\ "not a slug" \notin w.namespaces
    /\ ConnectionSettingsOK(w.settings)

\* A descriptor of another type's message is refused.
WatchSyncCapabilityOK(sdk, d) ==
    IF d.type = WatchSync
      THEN d.slug /\ Len(d.watch) = 1 /\ WatchSyncOK(sdk, d.watch[1])
      ELSE d.watch = << >>

NetworkAccessCapabilityOK(d) ==
    IF d.type = NetworkAccess THEN d.network = <<"slug">> ELSE d.network = << >>

RequestRouterCapabilityOK(d) ==
    /\ d.type # RequestRouter => d.router = << >>
    /\ d.router \in {<< >>, <<"wording">>}

\* "Network" is a case variant of a mode the host knows, "future" a mode it
\* does not.
AuthProviderCapabilityOK(d) ==
    d.type = AuthProvider =>
        /\ ToSet(d.authModes) \cap {"", "Network"} = {}
        /\ IsInjective(d.authModes)
        /\ "network" \in ToSet(d.authModes) =>
             ToSet(d.authModes) \cap {"password", "oauth2"} = {}
        /\ d.connectionTest \in {"absent", "true", "false"}

UsesNetworkIdentity(d) ==
    d.type = AuthProvider /\ "network" \in ToSet(d.authModes)

\* Mutation: the capability that comes before counts.
NetworkAuthPairingOKBefore(manifest) ==
    \A i \in DOMAIN manifest : UsesNetworkIdentity(manifest[i]) =>
        manifest[1].type = NetworkAccess \/ i = 1

NetworkAuthPairingOK(manifest) ==
    (\E i \in DOMAIN manifest : UsesNetworkIdentity(manifest[i])) =>
        \E i \in DOMAIN manifest : manifest[i].type = NetworkAccess

\* validateConfigSchema: a form over the JSON schema's properties, which maps
\* each to its type.  Conditions may name a property that has no field, and a
\* section's keys may not.
FieldKeys(form) == {form.fields[i].key : i \in DOMAIN form.fields}
Known(form, keys) == keys \subseteq FieldKeys(form) \cup DOMAIN form.properties

FormFieldOK(form, field) ==
    /\ field.key # "" /\ field.key \in DOMAIN form.properties
    /\ field.control = "MULTI_SELECT" => form.properties[field.key] = "array"
    /\ field.control \in {"SELECT", "MULTI_SELECT"} => field.dynamic \/ field.options
    /\ form.properties[field.key] \in {"boolean", "number", "string"} =>
         field.default \in {"absent", form.properties[field.key]}
    /\ "" \notin field.showWhen /\ Known(form, field.showWhen)
    /\ field.group # "" => Known(form, {field.group})

FormOK(form) ==
    /\ form.schema = "object"
    /\ \A i \in DOMAIN form.fields : FormFieldOK(form, form.fields[i])
    /\ Cardinality(FieldKeys(form)) = Len(form.fields)
    /\ \A section \in form.sections :
         /\ section.fields \subseteq FieldKeys(form)
         /\ "" \notin section.showWhen /\ Known(form, section.showWhen)

\* An unknown type is refused, not ignored.
CapabilityOK(sdk, d) ==
    /\ d.type \in KnownTypes(sdk)
    /\ WatchSyncCapabilityOK(sdk, d)
    /\ NetworkAccessCapabilityOK(d)
    /\ RequestRouterCapabilityOK(d)
    /\ AuthProviderCapabilityOK(d)
    /\ \A i \in DOMAIN d.form : FormOK(d.form[i])

Validate(sdk, manifest) ==
    /\ \A i \in DOMAIN manifest : CapabilityOK(sdk, manifest[i])
    /\ NetworkAuthPairingOK(manifest)
=============================================================================

--------------------------- MODULE CapabilityStore --------------------------
(***************************************************************************)
(* Hosts of a mixed-version cluster share a database of capabilities       *)
(* (pkg/pluginsdk/convert): one reads a plugin's manifest, from its file   *)
(* or from the running plugin, validates it and stores a record of each    *)
(* capability; every other loads the records, before or after its upgrade  *)
(* to a newer SDK.                                                         *)
(***************************************************************************)
EXTENDS Manifest

CONSTANTS
    Nodes,          \* hosts
    Manifests       \* what authors write, with the newer SDK's names

ASSUME ManifestsAssumption == \A m \in Manifests : IsManifest(m)

None == "none"

VARIABLES
    sdk,            \* each node's SDK version
    manifest,       \* of the plugin
    refused,        \* the path on which each node last refused it, or None
    installed,      \* the descriptors validated at the install
    writer,         \* the SDK version of the node that stored the records
    records,        \* the database
    view            \* the descriptors each node loaded

vars == <<sdk, manifest, refused, installed, writer, records, view>>

-----------------------------------------------------------------------------
(* Enum values in stored JSON: a name, or a number where the writer has    *)
(* none for it.                                                            *)

\* Mutation: a value without a name is left out.
EncodeEnumsNamed(writerSdk, values) ==
    {<<"name", v>> : v \in values \cap KnownValues(writerSdk)}

EncodeEnums(writerSdk, values) ==
    {<<IF v \in KnownValues(writerSdk) THEN "name" ELSE "number", v>> : v \in values}

\* capabilityUnmarshal discards what it does not know.
DecodeStored(readerSdk, encoded) ==
    {e[2] : e \in {x \in encoded : x[1] = "number" \/ x[2] \in KnownValues(readerSdk)}}

\* A single value is a set of one, and unset once it is dropped.
DecodeStoredEnum(readerSdk, encoded) ==
    LET decoded == DecodeStored(readerSdk, encoded)
    IN  IF decoded = {} THEN Unspecified ELSE CHOOSE v \in decoded : TRUE

EncodeSetting(writerSdk, s) == [s EXCEPT !.type = EncodeEnums(writerSdk, {@})]
DecodeStoredSetting(readerSdk, s) == [s EXCEPT !.type = DecodeStoredEnum(readerSdk, @)]

EncodeField(writerSdk, f) == [f EXCEPT !.control = EncodeEnums(writerSdk, {@})]
DecodeStoredField(readerSdk, f) == [f EXCEPT !.control = DecodeStoredEnum(readerSdk, @)]

EncodeWatch(writerSdk, w) ==
    [w EXCEPT !.methods = EncodeEnums(writerSdk, @),
              !.media = EncodeEnums(writerSdk, @),
              !.requiresWatched = EncodeEnums(writerSdk, @),
              !.settings = [i \in DOMAIN @ |-> EncodeSetting(writerSdk, @[i])]]

DecodeStoredWatch(readerSdk, w) ==
    [w EXCEPT !.methods = DecodeStored(readerSdk, @),
              !.media = DecodeStored(readerSdk, @),
              !.requiresWatched = DecodeStored(readerSdk, @),
              !.settings = [i \in DOMAIN @ |-> DecodeStoredSetting(readerSdk, @[i])]]

EncodeForm(writerSdk, form) ==
    [form EXCEPT !.fields = [i \in DOMAIN @ |-> EncodeField(writerSdk, @[i])]]

DecodeStoredForm(readerSdk, form) ==
    [form EXCEPT !.fields = [i \in DOMAIN @ |-> DecodeStoredField(readerSdk, @[i])]]

\* Mutation: of a config schema only the scalars are stored.
RecordOfScalars(writerSdk, d) ==
    [type |-> d.type, slug |-> d.slug, authModes |-> d.authModes,
     router |-> d.router, connectionTest |-> d.connectionTest, form |-> << >>,
     watch |-> [i \in DOMAIN d.watch |-> EncodeWatch(writerSdk, d.watch[i])]]

\* capabilityMetadata; the network access message has no key.
RecordOf(writerSdk, d) ==
    [type |-> d.type, slug |-> d.slug, authModes |-> d.authModes,
     router |-> d.router, connectionTest |-> d.connectionTest,
     form |-> [i \in DOMAIN d.form |-> EncodeForm(writerSdk, d.form[i])],
     watch |-> [i \in DOMAIN d.watch |-> EncodeWatch(writerSdk, d.watch[i])]]

\* DecodeCapability
DecodeCapability(readerSdk, r) ==
    [type |-> r.type, slug |-> r.slug, authModes |-> r.authModes,
     router |-> r.router, connectionTest |-> r.connectionTest,
     form |-> [i \in DOMAIN r.form |-> DecodeStoredForm(readerSdk, r.form[i])],
     watch |-> [i \in DOMAIN r.watch |-> DecodeStoredWatch(readerSdk, r.watch[i])],
     network |-> << >>]

-----------------------------------------------------------------------------

TypeOK ==
    /\ sdk \in [Nodes -> Versions]
    /\ refused \in [Nodes -> {None, "file", "plugin"}]
    /\ writer \in Versions \cup {None}
    /\ writer = None => installed = << >>
    /\ Len(records) = Len(installed)
    /\ \A n \in Nodes : Len(view[n]) \in {0, Len(records)}

Init ==
    /\ manifest \in Manifests
    /\ sdk \in [Nodes -> Versions]
    /\ refused = [n \in Nodes |-> None]
    /\ installed = << >> /\ writer = None /\ records = << >>
    /\ view = [n \in Nodes |-> << >>]

\* Mutation: a refused manifest replaces what is stored.
InstallUnchecked(n, path, descriptors) ==
    /\ installed' = IF Validate(sdk[n], descriptors) THEN descriptors ELSE << >>
    /\ writer' = sdk[n]
    /\ records' = [i \in DOMAIN descriptors |-> RecordOf(sdk[n], descriptors[i])]
    /\ view' = [m \in Nodes |-> << >>]
    /\ refused' = [refused EXCEPT ![n] = None]
    /\ UNCHANGED <<sdk, manifest>>

\* A node validates what it decoded, and stores it or refuses it.
Install(n, path, descriptors) ==
    \/ /\ Validate(sdk[n], descriptors)
       /\ installed' = descriptors
       /\ writer' = sdk[n]
       /\ records' = [i \in DOMAIN descriptors |-> RecordOf(sdk[n], descriptors[i])]
       /\ view' = [m \in Nodes |-> << >>]
       /\ refused' = [refused EXCEPT ![n] = None]
       /\ UNCHANGED <<sdk, manifest>>
    \/ /\ ~Validate(sdk[n], descriptors)
       /\ refused' = [refused EXCEPT ![n] = path]
       /\ UNCHANGED <<sdk, manifest, installed, writer, records, view>>

\* manifest.Load of the file beside the plugin.
InstallFromFile(n) == Install(n, "file", Decode(sdk[n], manifest))

\* GetManifest of a running plugin, built with the newer SDK and started only
\* if that accepts the manifest; protobuf keeps a value without a name.
InstallFromPlugin(n) ==
    /\ Validate("newer", manifest)
    /\ Install(n, "plugin", manifest)

Load(n) ==
    /\ records # << >>
    /\ view[n] = << >>
    /\ view' = [view EXCEPT ![n] =
         [i \in DOMAIN records |-> DecodeCapability(sdk[n], records[i])]]
    /\ UNCHANGED <<sdk, manifest, refused, installed, writer, records>>

\* A node restarts on the newer SDK.
Upgrade(n) ==
    /\ sdk[n] = "older"
    /\ sdk' = [sdk EXCEPT ![n] = "newer"]
    /\ view' = [view EXCEPT ![n] = << >>]
    /\ refused' = [refused EXCEPT ![n] = None]
    /\ UNCHANGED <<manifest, installed, writer, records>>

Next == \E n \in Nodes :
    InstallFromFile(n) \/ InstallFromPlugin(n) \/ Load(n) \/ Upgrade(n)

Spec == Init /\ [][Next]_vars

-----------------------------------------------------------------------------
(* Properties.                                                             *)

Loaded(n) == view[n] # << >>

WithoutNetwork(d) == [d EXCEPT !.network = << >>]

\* docs/user-guide.md:826-829 and convert.go:13-16: a node of the newest SDK
\* loads what was installed, and one of an older SDK misses only enum values it
\* has no name for; network_access_provider is not stored.
LoadedAsInstalled ==
    \A n \in Nodes : Loaded(n) => \A i \in DOMAIN installed :
        LET d == WithoutNetwork(installed[i])
        IN  IF sdk[n] = "newer" THEN view[n][i] = d
            ELSE DecodeDescriptor("older", view[n][i]) = DecodeDescriptor("older", d)

\* Validate stays true of what a node stored and a node of the same or a newer
\* SDK loaded, when no network access message is in it: the rules of one
\* descriptor do not come apart in the store.
ReloadedStaysValid ==
    \A n \in Nodes :
        /\ Loaded(n)
        /\ sdk[n] = writer \/ sdk[n] = "newer"
        /\ \A i \in DOMAIN installed : installed[i].network = << >>
        => Validate(sdk[n], view[n])

\* validateNetworkAuthPairing and the modes rule (manifest.go:405-442): a
\* node never loads an auth provider that signs overlay peers in and takes
\* passwords, or one without the overlay capability beside it.
NetworkAuthStaysApart ==
    \A n \in Nodes : Loaded(n) => \A i \in DOMAIN installed :
        UsesNetworkIdentity(view[n][i]) =>
            /\ ToSet(view[n][i].authModes) \cap {"password", "oauth2"} = {}
            /\ \E j \in DOMAIN installed : view[n][j].type = NetworkAccess

\* manifest.go:281-283: a node accepts a plugin that a newer SDK starts, whatever
\* values it lists that the node has no name for; it is refused for a capability
\* type that the node does not know (manifest.go:131-133) and nothing else.
RunningPluginAccepted ==
    \A n \in Nodes : refused[n] = "plugin" =>
        \E i \in DOMAIN manifest : manifest[i].type \notin KnownTypes(sdk[n])
=============================================================================

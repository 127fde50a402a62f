-------------------------- MODULE MCCapabilityStore -------------------------
EXTENDS CapabilityStore

CONSTANTS n1, n2

Base == [type |-> AuthProvider, slug |-> TRUE, authModes |-> << >>, router |-> << >>,
         connectionTest |-> "absent", watch |-> << >>, network |-> << >>,
         form |-> << >>]

Watch == [methods |-> {"API_KEY"}, operations |-> {"importWatchlist"},
          watchlistOrder |-> FALSE, maxBatchSize |-> 1, media |-> {"MOVIE"},
          requiresWatched |-> {}, namespaces |-> {"slug"}, settings |-> << >>]

Setting == [key |-> "slug", label |-> TRUE, type |-> "BOOLEAN", default |-> "absent"]

Settings ==
    {[Setting EXCEPT !.key = k, !.label = l, !.type = t, !.default = v] :
        k \in {"slug", "not a slug"}, l \in BOOLEAN,
        t \in {Unspecified, "BOOLEAN", "FUTURE"}, v \in {"absent", "boolean", "string"}}

\* Messages that vary in what the rules about each part relate.
Watches ==
    {[Watch EXCEPT !.operations = o, !.media = m, !.requiresWatched = r] :
        o \in SUBSET {"importRatings", "exportRatings", "syncDropped"},
        m \in SUBSET {"MOVIE", "EPISODE", "SERIES", "FUTURE"},
        r \in SUBSET {"EPISODE", "FUTURE"}}
    \cup {[Watch EXCEPT !.methods = a, !.watchlistOrder = w, !.operations = o,
                        !.maxBatchSize = b] :
        a \in SUBSET {Unspecified, "API_KEY", "FUTURE"}, w \in BOOLEAN,
        o \in {{"importWatchlist"}, {"exportRatings"}}, b \in {0, 1, 100, 101}}
    \cup {[Watch EXCEPT !.media = {Unspecified, "MOVIE"}]}
    \cup {[Watch EXCEPT !.namespaces = s] : s \in SUBSET {"slug", "not a slug"}}
    \cup {[Watch EXCEPT !.settings = <<a>>] : a \in Settings}
    \cup {[Watch EXCEPT !.settings = <<[Setting EXCEPT !.key = k], Setting>>] :
        k \in {"slug", "other"}}

Mode == {"", "password", "oauth2", "network", "Network", "future"}
Modes == {<< >>} \cup {<<m>> : m \in Mode} \cup Mode \X Mode

WatchDescriptors ==
    {[Base EXCEPT !.type = WatchSync, !.watch = <<w>>] : w \in Watches}
    \cup {[Base EXCEPT !.type = t, !.watch = w, !.slug = s] :
        t \in {WatchSync, RequestRouter}, w \in {<< >>, <<Watch>>}, s \in BOOLEAN}

AuthDescriptors ==
    {[Base EXCEPT !.authModes = m] : m \in Modes}
    \cup {[Base EXCEPT !.authModes = <<"network">>, !.connectionTest = c] :
        c \in {"absent", "true", "false", "string"}}

OtherDescriptors ==
    {[Base EXCEPT !.type = t, !.network = x, !.router = r] :
        t \in {NetworkAccess, RequestRouter, "event_consumer.v1", "future.v1", "misspelt.v1"},
        x \in {<< >>, <<"slug">>, <<"not a slug">>},
        r \in {<< >>, <<"wording">>, <<"bad wording">>}}

Field == [key |-> "s", control |-> "TEXT", dynamic |-> FALSE, options |-> FALSE,
          default |-> "absent", showWhen |-> {}, group |-> ""]

Fields ==
    {[Field EXCEPT !.key = k, !.control = c, !.dynamic = d, !.options = o] :
        k \in {"s", "a"}, c \in {Unspecified, "TEXT", "SELECT", "MULTI_SELECT", "FUTURE"},
        d \in BOOLEAN, o \in BOOLEAN}
    \cup {[Field EXCEPT !.key = k, !.default = v] :
        k \in {"s", "a", "b", "n"}, v \in {"string", "boolean", "number", "other"}}
    \cup {[Field EXCEPT !.key = k] : k \in {"", "gone"}}
    \cup {[Field EXCEPT !.showWhen = w, !.group = g] :
        w \in {{}, {""}, {"s"}, {"b"}, {"s", "gone"}}, g \in {"", "s", "b", "gone"}}

Form == [schema |-> "object", fields |-> <<Field>>, sections |-> {},
         properties |-> [s |-> "string", a |-> "array", b |-> "boolean", n |-> "number"]]

Forms ==
    {[Form EXCEPT !.fields = <<f>>] : f \in Fields}
    \cup {[Form EXCEPT !.schema = t, !.fields = <<Field, [Field EXCEPT !.key = k]>>] :
        t \in {"object", "array"}, k \in {"s", "b"}}
    \cup {[Form EXCEPT !.sections = {[fields |-> k, showWhen |-> w]}] :
        k \in {{}, {"s"}, {"b"}}, w \in {{}, {""}, {"s"}, {"b"}, {"gone"}}}

MCManifests ==
    {<< >>} \cup {<<d>> : d \in WatchDescriptors \cup AuthDescriptors \cup OtherDescriptors}
    \cup {<<[Base EXCEPT !.form = <<f>>]>> : f \in Forms}
    \cup {<<a, b>> : a \in AuthDescriptors, b \in OtherDescriptors}
    \cup {<<b, a>> : a \in AuthDescriptors, b \in OtherDescriptors}
=============================================================================

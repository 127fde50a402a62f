----------------------------- MODULE PluginServe ----------------------------
(***************************************************************************)
(* How ServeManifestWithOptions turns an author's manifest, servers and    *)
(* options into the services a plugin process answers                      *)
(* (pkg/pluginsdk/runtime): the manifest is loaded, the startup rules      *)
(* compare what it declares with what would be registered, the plugin set  *)
(* is wrapped once for the optional services and once more for storage,    *)
(* and go-plugin registers it; then the host configures the process,       *)
(* calls it and restarts it.  Nil pointers passed as servers go through it *)
(* all: some are told at once, some at the first call.                     *)
(***************************************************************************)
EXTENDS Integers, Sequences, FiniteSetsExt

CONSTANTS
    MaxOptions      \* bound: options passed

ASSUME MaxOptionsAssumption == MaxOptions \in Nat

AuthServices == {"AuthProviderChecks", "NetworkIdentityAuth"}
Optional == AuthServices \cup {"WatchSyncDeviceAuthorization", "StorageProvider"}

\* One of the servers without options stands for the twelve that are
\* registered alike.
Services == Optional \cup {"Runtime", "ScanSource", "AuthProvider"}

\* A server an author can pass: none, one of two that work, or a nil pointer
\* in the interface.  A nil pointer's type has the testEmbeddedByValue of an
\* Unimplemented server embedded by value, or has it not: it embeds none (they
\* are not required, buf.gen.yaml:12), or two whose methods hide each other.
\* "auth" is the AuthProvider server.
Nil == "nil"
NilChecked == "nilChecked"
NilPlain == "nilPlain"
NilPointers == {NilChecked, NilPlain}
Works(server) == server \notin {Nil} \cup NilPointers

Options == [service : Optional, server : {Nil, "first", "second"} \cup NilPointers]

AuthorChoices ==
    [loads : BOOLEAN,                       \* LoadWithChecksum accepts the manifest
     declares : SUBSET {"connection_test", "network"},
     auth : {Nil, "auth"} \cup NilPointers,
     implements : SUBSET AuthServices,      \* by the type of auth
     scanSource : {"scanSource"} \cup NilPointers,
     options : UNION {[1..n -> Options] : n \in 0..MaxOptions}]

VARIABLES
    choice,         \* what the author built
    phase,          \* of the process
    services,       \* the server each service answers with
    configured      \* the host's Configure succeeded

vars == <<choice, phase, services, configured>>

NoServices == [s \in Services |-> Nil]

\* A server that a process may answer with.
Servers == {Nil, NilPlain, "first", "second", "auth", "scanSource", "manifestRuntime"}

TypeOK ==
    /\ choice \in AuthorChoices
    /\ phase \in {"load", "check", "register", "serving", "panicked", "crashed", "abandoned"}
    /\ services \in [Services -> Servers]
    /\ services = NoServices <=> phase \notin {"serving", "abandoned"}
    /\ configured \in BOOLEAN /\ (configured => phase = "serving")

Init ==
    /\ choice \in AuthorChoices
    /\ choice.auth = Nil => choice.implements = {}
    /\ phase = "load"
    /\ services = NoServices
    /\ configured = FALSE

-----------------------------------------------------------------------------
(* What is registered for a choice c.                                      *)

\* The options applied in order: the last one for a service counts, a nil
\* one included.
Resolved(c, s) ==
    LET given == {i \in DOMAIN c.options : c.options[i].service = s}
    IN  IF given = {} THEN Nil ELSE c.options[Max(given)].server

\* Mutation: a nil pointer in the interface counts as a server.
ResolveAuthServiceAnyPointer(c, s, explicit) ==
    CASE explicit # Nil -> explicit
      [] explicit = Nil /\ s \in c.implements -> c.auth
      [] OTHER -> Nil

\* resolveAuthService.  isNilServer is asked of the option alone: an
\* AuthProvider that is a nil pointer still has its type.
ResolveAuthService(c, s, explicit) ==
    CASE Works(explicit) -> explicit
      [] ~Works(explicit) /\ s \in c.implements -> c.auth
      [] OTHER -> Nil

\* Mutation: a network provider may do without CheckAccount.
RulesWithoutRecheck ==
    {<<"connection_test", "AuthProviderChecks">>, <<"network", "NetworkIdentityAuth">>}

\* A declaration and the service it needs.
Rules ==
    {<<"connection_test", "AuthProviderChecks">>,
     <<"network", "AuthProviderChecks">>,
     <<"network", "NetworkIdentityAuth">>}

RulesMet(c) ==
    \A rule \in Rules : rule[1] \in c.declares =>
        ResolveAuthService(c, rule[2], Resolved(c, rule[2])) # Nil

\* pluginSetWithOptionalServices: the default set, without any optional
\* service, when all three are nil.
Wrapped(c) ==
    \E s \in Optional \ {"StorageProvider"} : Resolved(c, s) # Nil

OptionalService(c, s) == IF Wrapped(c) THEN Resolved(c, s) ELSE Nil

\* Mutation: storage wraps the default plugin set.
RegisteredStorageFirst(c) ==
    LET optional(s) == IF Resolved(c, "StorageProvider") = Nil
                         THEN OptionalService(c, s) ELSE Nil
    IN  [s \in Services |->
            CASE s = "Runtime"         -> "manifestRuntime"
              [] s = "ScanSource"      -> c.scanSource
              [] s = "AuthProvider"    -> c.auth
              [] s \in AuthServices    -> ResolveAuthService(c, s, optional(s))
              [] s = "StorageProvider" -> Resolved(c, s)
              [] OTHER                 -> optional(s)]

\* registerServers and the two wrappers around it.
Registered(c) ==
    [s \in Services |->
        CASE s = "Runtime"         -> "manifestRuntime"
          [] s = "ScanSource"      -> c.scanSource
          [] s = "AuthProvider"    -> c.auth
          [] s \in AuthServices    -> ResolveAuthService(c, s, OptionalService(c, s))
          [] s = "StorageProvider" -> Resolved(c, s)
          [] OTHER                 -> OptionalService(c, s)]

-----------------------------------------------------------------------------

Stay == UNCHANGED <<choice, services, configured>>

Load ==
    /\ phase = "load"
    /\ phase' = IF choice.loads THEN "check" ELSE "panicked"
    /\ Stay

\* manifestServeConfig
Check ==
    /\ phase = "check"
    /\ phase' = IF RulesMet(choice) THEN "register" ELSE "panicked"
    /\ Stay

\* Mutation: registering tests no server.
RegisterUntested ==
    /\ phase = "register"
    /\ phase' = "serving" /\ services' = Registered(choice)
    /\ UNCHANGED <<choice, configured>>

\* go-plugin's GRPCServer.  The generated RegisterXServer calls
\* testEmbeddedByValue of a server that has it, which a nil pointer does not
\* survive; any other server is registered unseen.
Register ==
    /\ phase = "register"
    /\ \/ /\ \E s \in Services : Registered(choice)[s] = NilChecked
          /\ phase' = "panicked" /\ UNCHANGED services
       \/ /\ \A s \in Services : Registered(choice)[s] # NilChecked
          /\ phase' = "serving" /\ services' = Registered(choice)
    /\ UNCHANGED <<choice, configured>>

\* Runtime.Configure, once per start: what it makes of the saved settings is
\* the plugin's; an error makes the host give up.
Configure ==
    /\ phase = "serving" /\ ~configured
    /\ \/ configured' = TRUE /\ UNCHANGED phase
       \/ phase' = "abandoned" /\ UNCHANGED configured
    /\ UNCHANGED <<choice, services>>

\* The host calls a service whose server is a nil pointer: a method that needs
\* its receiver panics, and the process is gone.  (Other calls change nothing.)
Call(s) ==
    /\ configured
    /\ services[s] = NilPlain
    /\ phase' = "crashed" /\ services' = NoServices /\ configured' = FALSE
    /\ UNCHANGED choice

\* The host starts the same binary again.
Restart ==
    /\ phase \in {"serving", "panicked", "crashed", "abandoned"}
    /\ phase' = "load" /\ services' = NoServices /\ configured' = FALSE
    /\ UNCHANGED choice

Next == Load \/ Check \/ Register \/ Configure \/ (\E s \in Services : Call(s)) \/ Restart

Spec == Init /\ [][Next]_vars

-----------------------------------------------------------------------------
(* Properties.                                                             *)

Serving == phase \in {"serving", "abandoned"}

\* The services that the manifest's declarations call for.
NeededServices ==
    (IF choice.declares # {} THEN {"AuthProviderChecks"} ELSE {})
        \cup (IF "network" \in choice.declares THEN {"NetworkIdentityAuth"} ELSE {})

\* ServeManifestWithOptions (serve_manifest.go:126-131): a process that serves
\* a manifest has a server for what it declares, and for a network provider
\* one for CheckAccount as well, or a person removed from the overlay would
\* stay signed in.  That server works, unless it is the author's own
\* AuthProvider and that is a nil pointer (runtime.go:236): never a nil
\* pointer passed to an option.
DeclaredIsServed ==
    Serving => \A s \in NeededServices :
        Works(services[s]) \/ (s \in choice.implements /\ services[s] = choice.auth)

\* The servers the author passed for an optional service: an auth option's nil
\* pointer is none.
Offered(s) ==
    {server \in {Resolved(choice, s)} :
        server # Nil /\ (s \in AuthServices => Works(server))}
        \cup (IF s \in choice.implements THEN {choice.auth} ELSE {})

\* storage_provider_test.go:93: options combine.  A process has a server for
\* exactly the optional services it was given one for, and an option's server
\* that works comes before the AuthProvider's.
OptionsCombine ==
    Serving => \A s \in Optional :
        /\ services[s] = Nil <=> Offered(s) = {}
        /\ Works(Resolved(choice, s)) => services[s] = Resolved(choice, s)

\* The same choice with no server where a nil pointer was passed to an option
\* of an auth service.
WithoutNilPointers(c) ==
    [c EXCEPT !.options =
        [i \in DOMAIN @ |->
            IF @[i].service \in AuthServices /\ @[i].server \in NilPointers
              THEN [service |-> @[i].service, server |-> Nil]
              ELSE @[i]]]

\* resolveAuthService (runtime.go:229-231): a nil pointer passed to an option
\* of an auth service counts as no server.  The process starts or panics as it
\* would have without it, and answers with the same servers.
NilOptionIsNoServer ==
    LET without == WithoutNilPointers(choice)
        starts == /\ choice.loads /\ RulesMet(without)
                  /\ \A s \in Services : Registered(without)[s] # NilChecked
    IN  /\ Serving => starts /\ services = Registered(without)
        /\ phase = "panicked" => ~starts
=============================================================================

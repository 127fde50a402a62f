-------------------------- MODULE PluginServeProofs -------------------------
(***************************************************************************)
(* A served manifest has a server for what it declares, for any number of  *)
(* options.  The startup rules look at Resolved and the registration at    *)
(* what the wrapped plugin set passes on; that the two agree is the heart  *)
(* of it.                                                                  *)
(***************************************************************************)
EXTENDS PluginServe, WellFoundedInduction, TLAPS

\* A set of indices of the options has a greatest one.
LEMMA MaxIndex ==
    ASSUME NEW n \in Nat, NEW S, S \subseteq 1..n, S # {}
    PROVE  Max(S) \in S
<1> DEFINE T == {n - i : i \in S}
<1>1. \A i \in S : i \in Int /\ n - i \in Nat
  OBVIOUS
<1>2. T \subseteq Nat /\ T # {}
  BY <1>1
<1>3. PICK x \in T : \A y \in T : ~(<<y, x>> \in OpToRel(<, Nat))
  <2> HIDE DEF T
  <2> QED BY <1>2, NatLessThanWellFounded, WFMin
<1>4. \A y \in T : x <= y
  <2> HIDE DEF T
  <2> TAKE y \in T
  <2>1. x \in Nat /\ y \in Nat
    BY <1>2
  <2>2. y < x => <<y, x>> \in OpToRel(<, Nat)
    BY <2>1 DEF OpToRel
  <2>3. ~(y < x)
    BY <1>3, <2>2, Zenon
  <2> QED BY <2>1, <2>3
<1>5. PICK i \in S : x = n - i
  OBVIOUS
<1>6. \A j \in S : i >= j
  <2> TAKE j \in S
  <2>1. x <= n - j
    BY <1>4
  <2> QED BY <2>1, <1>1, <1>5
<1> QED BY <1>6 DEF Max

-----------------------------------------------------------------------------
\* The server an option passes, or Nil.
LEMMA ResolvedType ==
    ASSUME NEW c \in AuthorChoices, NEW s \in Optional
    PROVE  Resolved(c, s) \in {Nil, "first", "second"} \cup NilPointers
<1> DEFINE given == {i \in DOMAIN c.options : c.options[i].service = s}
<1>1. PICK n \in 0..MaxOptions : c.options \in [1..n -> Options]
  BY DEF AuthorChoices
<1>2. given # {} => Max(given) \in given
  <2>1. given \subseteq 1..n /\ n \in Nat
    BY <1>1, MaxOptionsAssumption
  <2> HIDE DEF given
  <2> QED BY <2>1, MaxIndex
<1>3. given # {} => c.options[Max(given)] \in Options
  BY <1>1, <1>2
<1>4. given # {} => c.options[Max(given)].server \in {Nil, "first", "second"} \cup NilPointers
  BY <1>3 DEF Options
<1> QED BY <1>4 DEF Resolved

\* pluginSetWithOptionalServices leaves the wrapper out only when there is
\* nothing to pass on: with it or without, an option arrives.
LEMMA OptionArrives ==
    ASSUME NEW c, NEW s \in Optional \ {"StorageProvider"}
    PROVE  OptionalService(c, s) = Resolved(c, s)
BY DEF OptionalService, Wrapped

\* What registerServers registers, service by service.
LEMMA RegisteredIs ==
    ASSUME NEW c
    PROVE  /\ Registered(c) = [s \in Services |-> Registered(c)[s]]
           /\ Registered(c)["Runtime"] = "manifestRuntime"
           /\ Registered(c)["ScanSource"] = c.scanSource
           /\ Registered(c)["AuthProvider"] = c.auth
           /\ \A s \in AuthServices :
                Registered(c)[s] = ResolveAuthService(c, s, Resolved(c, s))
           /\ \A s \in Optional \ AuthServices : Registered(c)[s] = Resolved(c, s)
<1>1. \A s \in AuthServices : OptionalService(c, s) = Resolved(c, s)
  BY OptionArrives DEF Optional, AuthServices
<1>2. OptionalService(c, "WatchSyncDeviceAuthorization") = Resolved(c, "WatchSyncDeviceAuthorization")
  BY OptionArrives DEF Optional
<1> QED BY <1>1, <1>2 DEF Registered, Services, Optional, AuthServices

\* What registerServers registers is a server an author can pass.
LEMMA RegisteredType ==
    ASSUME NEW c \in AuthorChoices, NEW s \in Services
    PROVE  Registered(c)[s] \in Servers \cup {NilChecked}
<1>1. c.auth \in Servers \cup {NilChecked} /\ c.scanSource \in Servers \cup {NilChecked}
  BY DEF AuthorChoices, Servers, NilPointers
<1>2. \A t \in Optional : Resolved(c, t) \in Servers \cup {NilChecked}
  BY ResolvedType DEF Servers, NilPointers
<1>3. \A t \in AuthServices : ResolveAuthService(c, t, Resolved(c, t)) \in Servers \cup {NilChecked}
  BY <1>1, <1>2 DEF ResolveAuthService, Servers, Optional
<1>4. CASE s \in Optional
  BY <1>2, <1>3, <1>4, RegisteredIs
<1>5. CASE s \notin Optional
  <2>1. s = "Runtime" \/ s = "ScanSource" \/ s = "AuthProvider"
    BY <1>5 DEF Services
  <2>2. "manifestRuntime" \in Servers
    BY DEF Servers
  <2> QED BY <2>1, <2>2, <1>1, RegisteredIs
<1> QED BY <1>4, <1>5

LEMMA RegisteredRuns ==
    ASSUME NEW c
    PROVE  Registered(c) # NoServices
<1>1. Registered(c)["Runtime"] = "manifestRuntime"
  BY RegisteredIs
<1>2. NoServices["Runtime"] = Nil
  BY DEF NoServices, Services
<1> QED BY <1>1, <1>2 DEF Nil

-----------------------------------------------------------------------------
\* A process starts exactly when its manifest loads, the startup rules are met
\* and no server it registers is told to be a nil pointer.
Starts(c) ==
    /\ c.loads /\ RulesMet(c)
    /\ \A s \in Services : Registered(c)[s] # NilChecked

\* The inductive invariant.
Inv ==
    /\ TypeOK
    /\ choice.auth = Nil => choice.implements = {}
    /\ phase \in {"check", "register"} => choice.loads
    /\ phase = "register" => RulesMet(choice)
    /\ Serving => services = Registered(choice) /\ Starts(choice)
    /\ phase = "panicked" => ~Starts(choice)

LEMMA InitInv == Init => Inv
<1> SUFFICES ASSUME Init PROVE Inv
  OBVIOUS
<1>1. TypeOK
  BY DEF Init, TypeOK, NoServices, Nil, Servers
<1> QED BY <1>1 DEF Init, Inv, Serving

LEMMA InvStep == Inv /\ [Next]_vars => Inv'
<1> SUFFICES ASSUME Inv, [Next]_vars PROVE Inv'
  OBVIOUS
<1> USE DEF Inv, Serving
<1>0. choice' = choice
  BY DEF Next, Load, Check, Register, Configure, Call, Restart, Stay, vars
<1>1. CASE Load
  <2>1. TypeOK'
    BY <1>1, <1>0 DEF Load, Stay, TypeOK, NoServices
  <2> QED BY <2>1, <1>1, <1>0 DEF Load, Starts
<1>2. CASE Check
  <2>1. TypeOK'
    BY <1>2 DEF Check, Stay, TypeOK, NoServices
  <2>2. phase' = "register" => RulesMet(choice)
    BY <1>2 DEF Check
  <2>3. phase' = "panicked" => ~Starts(choice)
    BY <1>2 DEF Check, Starts
  <2>4. phase' \in {"register", "panicked"} /\ choice.loads
    BY <1>2 DEF Check
  <2> QED BY <2>1, <2>2, <2>3, <2>4, <1>0
<1>3. CASE Register
  <2>1. CASE \E s \in Services : Registered(choice)[s] = NilChecked
    <3>1. phase' = "panicked" /\ services' = services /\ configured' = configured
          /\ phase = "register"
      BY <1>3, <2>1 DEF Register
    <3>2. ~Starts(choice)
      BY <2>1 DEF Starts
    <3>3. TypeOK'
      BY <3>1, <1>0 DEF TypeOK, NoServices
    <3> QED BY <3>1, <3>2, <3>3, <1>0
  <2>2. CASE \A s \in Services : Registered(choice)[s] # NilChecked
    <3>1. phase' = "serving" /\ services' = Registered(choice)
          /\ configured' = configured /\ phase = "register"
      BY <1>3, <2>2 DEF Register
    <3>2. Starts(choice)
      BY <3>1, <2>2 DEF Starts
    <3>3. Registered(choice) \in [Services -> Servers]
      <4>1. \A s \in Services : Registered(choice)[s] \in Servers
        BY <2>2, RegisteredType DEF TypeOK
      <4> QED BY <4>1, RegisteredIs
    <3>4. TypeOK'
      BY <3>1, <3>3, <1>0, RegisteredRuns DEF TypeOK, NoServices
    <3> QED BY <3>1, <3>2, <3>4, <1>0
  <2> QED BY <2>1, <2>2
<1>4. CASE Configure
  <2>1. /\ services' = services /\ phase = "serving"
        /\ (phase' = "serving" /\ configured' = TRUE)
             \/ (phase' = "abandoned" /\ configured' = FALSE)
    BY <1>4 DEF Configure, TypeOK
  <2>2. TypeOK'
    BY <2>1, <1>0 DEF TypeOK, NoServices
  <2> QED BY <2>1, <2>2, <1>0
<1>5. ASSUME NEW s \in Services, Call(s) PROVE Inv'
  <2>1. TypeOK'
    BY <1>5 DEF Call, TypeOK, NoServices, Nil, Servers
  <2> QED BY <2>1, <1>5 DEF Call
<1>6. CASE Restart
  <2>1. TypeOK'
    BY <1>6 DEF Restart, TypeOK, NoServices, Nil, Servers
  <2> QED BY <2>1, <1>6 DEF Restart
<1>7. CASE UNCHANGED vars
  <2>1. TypeOK'
    BY <1>7 DEF vars, TypeOK, NoServices
  <2> QED BY <2>1, <1>7 DEF vars
<1> QED BY <1>1, <1>2, <1>3, <1>4, <1>5, <1>6, <1>7 DEF Next

LEMMA Invariance == Spec => []Inv
BY InitInv, InvStep, PTL DEF Spec

\* The author's choices, the process's phase and the servers it answers with
\* keep their types, and no nil pointer that registering tells is among them
\* (the generated RegisterXServer).
THEOREM TypeCorrect == Spec => []TypeOK
<1>1. Inv => TypeOK
  BY DEF Inv
<1> QED BY <1>1, Invariance, PTL

\* serve_manifest.go:126-131: a served manifest has a server for the services
\* its declarations need, however many options the author passed in any order;
\* it is no nil pointer unless the AuthProvider itself is one.
THEOREM ServesWhatIsDeclared == Spec => []DeclaredIsServed
<1>1. Inv => DeclaredIsServed
  <2> SUFFICES ASSUME Inv, Serving, NEW s \in NeededServices
               PROVE  Works(services[s]) \/ (s \in choice.implements /\ services[s] = choice.auth)
    BY DEF DeclaredIsServed
  <2>1. choice.declares \subseteq {"connection_test", "network"}
    BY DEF Inv, TypeOK, AuthorChoices
  <2>2. \E rule \in Rules : rule[1] \in choice.declares /\ rule[2] = s
    <3>1. CASE "network" \in choice.declares
      BY <3>1 DEF Rules, NeededServices
    <3>2. CASE "network" \notin choice.declares
      BY <2>1, <3>2 DEF Rules, NeededServices
    <3> QED BY <3>1, <3>2
  <2>3. s \in AuthServices /\ ResolveAuthService(choice, s, Resolved(choice, s)) # Nil
    BY <2>2 DEF Inv, Starts, RulesMet, Rules, AuthServices
  <2>4. services[s] = ResolveAuthService(choice, s, Resolved(choice, s))
    BY <2>3, RegisteredIs DEF Inv
  <2> QED BY <2>3, <2>4 DEF ResolveAuthService
<1> QED BY <1>1, Invariance, PTL

\* storage_provider_test.go:93: however many options are passed, a process has
\* a server for exactly the optional services it was given one for, and an
\* option's server that works comes before the AuthProvider's.
THEOREM OptionsDoCombine == Spec => []OptionsCombine
<1>1. Inv => OptionsCombine
  <2> SUFFICES ASSUME Inv, Serving, NEW s \in Optional
               PROVE  /\ services[s] = Nil <=> Offered(s) = {}
                      /\ Works(Resolved(choice, s)) => services[s] = Resolved(choice, s)
    BY DEF OptionsCombine
  <2>1. choice.implements \subseteq AuthServices
    BY DEF Inv, TypeOK, AuthorChoices
  <2>2. s \in choice.implements => choice.auth # Nil
    BY DEF Inv
  <2>3. CASE s \in AuthServices
    <3>1. services[s] = ResolveAuthService(choice, s, Resolved(choice, s))
      BY <2>3, RegisteredIs DEF Inv
    <3> QED BY <3>1, <2>2, <2>3 DEF ResolveAuthService, Offered, Works
  <2>4. CASE s \notin AuthServices
    <3>1. services[s] = Resolved(choice, s)
      BY <2>4, RegisteredIs DEF Inv
    <3> QED BY <3>1, <2>1, <2>4 DEF Offered
  <2> QED BY <2>3, <2>4
<1> QED BY <1>1, Invariance, PTL

-----------------------------------------------------------------------------
\* Taking the nil pointers out of the auth options changes neither what the
\* startup rules see nor what is registered.
LEMMA WithoutIsSame ==
    ASSUME NEW c \in AuthorChoices
    PROVE  /\ Registered(WithoutNilPointers(c)) = Registered(c)
           /\ RulesMet(WithoutNilPointers(c)) = RulesMet(c)
<1> DEFINE w == WithoutNilPointers(c)
           given(s) == {i \in DOMAIN c.options : c.options[i].service = s}
<1>0. PICK n \in 0..MaxOptions : c.options \in [1..n -> Options]
  BY DEF AuthorChoices
<1>1. /\ w.declares = c.declares /\ w.auth = c.auth /\ w.implements = c.implements
      /\ w.scanSource = c.scanSource
      /\ DOMAIN w.options = DOMAIN c.options
      /\ \A i \in DOMAIN c.options :
           w.options[i] = IF c.options[i].service \in AuthServices /\ c.options[i].server \in NilPointers
                            THEN [service |-> c.options[i].service, server |-> Nil]
                            ELSE c.options[i]
  BY DEF WithoutNilPointers, AuthorChoices
<1>2. \A i \in DOMAIN c.options :
        /\ w.options[i].service = c.options[i].service
        /\ w.options[i].server = IF c.options[i].service \in AuthServices
                                      /\ c.options[i].server \in NilPointers
                                   THEN Nil ELSE c.options[i].server
  <2> HIDE DEF w
  <2> TAKE i \in DOMAIN c.options
  <2>1. CASE c.options[i].service \in AuthServices /\ c.options[i].server \in NilPointers
    <3>1. w.options[i] = [service |-> c.options[i].service, server |-> Nil]
      BY <1>1, <2>1
    <3> QED BY <3>1, <2>1
  <2>2. CASE ~(c.options[i].service \in AuthServices /\ c.options[i].server \in NilPointers)
    BY <1>1, <2>2
  <2> QED BY <2>1, <2>2
<1> HIDE DEF w
<1>3. \A s : {i \in DOMAIN w.options : w.options[i].service = s} = given(s)
  BY <1>1, <1>2
<1>4. \A s : given(s) # {} => Max(given(s)) \in given(s)
  <2> TAKE s
  <2>1. given(s) \subseteq 1..n /\ n \in Nat
    BY <1>0, MaxOptionsAssumption
  <2> HIDE DEF given
  <2> QED BY <2>1, MaxIndex
<1>5. \A s : Resolved(w, s) = IF s \in AuthServices /\ Resolved(c, s) \in NilPointers
                                THEN Nil ELSE Resolved(c, s)
  <2> TAKE s
  <2>1. CASE given(s) = {}
    BY <2>1, <1>3 DEF Resolved, Nil, NilPointers, NilChecked, NilPlain
  <2>2. CASE given(s) # {}
    <3>1. Resolved(w, s) = w.options[Max(given(s))].server
      BY <2>2, <1>3 DEF Resolved
    <3>2. Resolved(c, s) = c.options[Max(given(s))].server
      BY <2>2 DEF Resolved
    <3>3. /\ Max(given(s)) \in DOMAIN c.options
          /\ c.options[Max(given(s))].service = s
      BY <2>2, <1>4
    <3> QED BY <3>1, <3>2, <3>3, <1>2
  <2> QED BY <2>1, <2>2
<1>6. \A s \in AuthServices :
        ResolveAuthService(w, s, Resolved(w, s)) = ResolveAuthService(c, s, Resolved(c, s))
  BY <1>1, <1>5 DEF ResolveAuthService, Works
<1>7. \A s \in Services : Registered(w)[s] = Registered(c)[s]
  <2> TAKE s \in Services
  <2>1. CASE s \in AuthServices
    BY <2>1, <1>6, RegisteredIs
  <2>2. CASE s \in Optional \ AuthServices
    BY <2>2, <1>5, RegisteredIs
  <2>3. CASE s \in {"Runtime", "ScanSource", "AuthProvider"}
    BY <2>3, <1>1, RegisteredIs
  <2> QED BY <2>1, <2>2, <2>3 DEF Services
<1>8. Registered(w) = Registered(c)
  BY <1>7, RegisteredIs
<1>9. RulesMet(w) = RulesMet(c)
  BY <1>1, <1>6 DEF RulesMet, Rules, AuthServices
<1> QED BY <1>8, <1>9 DEF w

\* resolveAuthService (runtime.go:229-231): a nil pointer passed to an option
\* of an auth service counts as no server; without it the process would start,
\* panic and answer just the same, whatever the options.
THEOREM NilOptionsAreNoServer == Spec => []NilOptionIsNoServer
<1>1. Inv => NilOptionIsNoServer
  BY WithoutIsSame DEF Inv, Starts, NilOptionIsNoServer, TypeOK
<1> QED BY <1>1, Invariance, PTL
=============================================================================

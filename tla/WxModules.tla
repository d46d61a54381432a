------------------------------- MODULE WxModules -------------------------------
(***************************************************************************)
(* The wxModule registry of wxwidgets3.0/src/common/module.cpp.  Modules   *)
(* are registered into the list m_modules; InitializeModules walks that    *)
(* list and initialises each registered module after its dependencies      *)
(* (DoInitializeModule, recursive), cleaning up and failing when a         *)
(* dependency is missing, a dependency cycle is met, or a module's Init    *)
(* returns false; DoCleanUpModules calls Exit in reverse order of          *)
(* initialisation and empties m_modules.                                   *)
(*                                                                         *)
(* One instance per class, as RegisterModules creates: a module is named   *)
(* by its class.  Each module's dependency list (m_dependencies) and       *)
(* whether its Init succeeds are inputs, chosen in Init from small sets.   *)
(***************************************************************************)
EXTENDS Naturals, Sequences, SequencesExt, FiniteSets
LOCAL INSTANCE Relation

CONSTANTS
  Classes,   \* the wxModule-derived classes
  MaxDeps    \* bound on the length of a dependency list

States == {"Registered", "Initializing", "Initialized"}
NoModule == "none"   \* no registered instance of the class

\* Dependency lists: sequences of distinct classes.
DepLists == {s \in BoundedSeq(Classes, MaxDeps) : IsInjective(s)}

VARIABLES
  deps,       \* m_dependencies of each class (input)
  failing,    \* the classes whose Init returns false (input)
  modules,    \* m_modules
  state,      \* m_state of each registered module
  initCalls,  \* the Init calls made, in order
  exitCalls,  \* the Exit calls made, in order
  phase,      \* "setup", then "running" or "failed", then "cleaned"
  atInit      \* the registered classes when InitializeModules ran

vars == <<deps, failing, modules, state, initCalls, exitCalls, phase, atInit>>

-----------------------------------------------------------------------------
(* The recursion of DoInitializeModule.  A run is a record: the module     *)
(* states, the list initializedModules and the Init calls made so far.     *)

Run(st, inited, calls) == [state |-> st, inited |-> inited, calls |-> calls]
Result(ok, r) == [ok |-> ok, run |-> r]

RECURSIVE DoInitializeModule(_, _), InitDependencies(_, _, _)

\* Mutant: the module is appended to initializedModules before its
\* dependencies are initialised.
DoInitializeModuleAppendFirst(m, r) ==
  IF r.state[m] = "Initializing" THEN Result(FALSE, r)
  ELSE
    LET d == InitDependencies(m, 1,
               Run([r.state EXCEPT ![m] = "Initializing"],
                   Append(r.inited, m), r.calls))
    IN  IF ~d.ok THEN d
        ELSE Result(m \notin failing,
                    Run([d.run.state EXCEPT ![m] = "Initialized"], d.run.inited,
                        Append(d.run.calls, m)))

\* Mutant: a dependency with no registered module is skipped, not failed.
InitDependenciesNoMissingCheck(m, i, r) ==
  IF i > Len(deps[m]) THEN Result(TRUE, r)
  ELSE
    LET c == deps[m][i]
    IN  IF c \in ToSet(r.inited) \/ c \notin ToSet(modules)
        THEN InitDependencies(m, i + 1, r)
        ELSE LET s == DoInitializeModule(c, r)
             IN  IF s.ok THEN InitDependencies(m, i + 1, s.run) ELSE s

\* Mutant: initializedModules is not searched first.
InitDependenciesNoSkip(m, i, r) ==
  IF i > Len(deps[m]) THEN Result(TRUE, r)
  ELSE
    LET c == deps[m][i]
    IN  IF c \notin ToSet(modules) THEN Result(FALSE, r)
        ELSE LET s == DoInitializeModule(c, r)
             IN  IF s.ok THEN InitDependencies(m, i + 1, s.run) ELSE s

\* DoInitializeModule: fail on a module already being initialised (a
\* cycle); otherwise mark it Initializing, initialise its dependencies,
\* call Init, and on success mark it Initialized and append it to
\* initializedModules.
DoInitializeModule(m, r) ==
  IF r.state[m] = "Initializing" THEN Result(FALSE, r)
  ELSE
    LET d == InitDependencies(m, 1,
               Run([r.state EXCEPT ![m] = "Initializing"], r.inited, r.calls))
        called == Append(d.run.calls, m)
    IN  IF ~d.ok THEN d
        ELSE IF m \in failing
             THEN Result(FALSE, Run(d.run.state, d.run.inited, called))
             ELSE Result(TRUE, Run([d.run.state EXCEPT ![m] = "Initialized"],
                                   Append(d.run.inited, m), called))

\* The loop over m_dependencies from index i: skip a dependency already in
\* initializedModules, fail on one with no registered module, else
\* initialise it first and fail if that fails.
InitDependencies(m, i, r) ==
  IF i > Len(deps[m]) THEN Result(TRUE, r)
  ELSE
    LET c == deps[m][i]
    IN  IF c \in ToSet(r.inited) THEN InitDependencies(m, i + 1, r)
        ELSE IF c \notin ToSet(modules) THEN Result(FALSE, r)
        ELSE LET s == DoInitializeModule(c, r)
             IN  IF s.ok THEN InitDependencies(m, i + 1, s.run) ELSE s

RECURSIVE InitializeLoop(_, _)

\* The loop of InitializeModules over m_modules from index i: a module
\* still Registered (not yet initialised as a dependency) is initialised.
InitializeLoop(i, r) ==
  IF i > Len(modules) THEN Result(TRUE, r)
  ELSE IF r.state[modules[i]] # "Registered" THEN InitializeLoop(i + 1, r)
  ELSE LET s == DoInitializeModule(modules[i], r)
       IN  IF s.ok THEN InitializeLoop(i + 1, s.run) ELSE s

-----------------------------------------------------------------------------
(* The operations.                                                         *)

\* RegisterModule: State_Registered and append to m_modules.  It runs for
\* every module class, in class-info order, from RegisterModules.
RegisterModule(m) ==
  /\ phase = "setup" /\ state[m] = NoModule
  /\ state' = [state EXCEPT ![m] = "Registered"]
  /\ modules' = Append(modules, m)
  /\ UNCHANGED <<deps, failing, initCalls, exitCalls, phase, atInit>>

\* UnregisterModule: remove from m_modules and delete.
UnregisterModule(m) ==
  /\ phase = "setup" /\ state[m] # NoModule
  /\ modules' = Remove(modules, m)
  /\ state' = [state EXCEPT ![m] = NoModule]
  /\ UNCHANGED <<deps, failing, initCalls, exitCalls, phase, atInit>>

\* Mutant: Exit is called in the order of initialisation.
DoCleanUpModulesForward(list) ==
  /\ exitCalls' = exitCalls \o list
  /\ modules' = <<>>
  /\ state' = [c \in Classes |-> NoModule]

\* DoCleanUpModules(list): Exit in reverse order, back to Registered, then
\* m_modules is cleared and every module deleted.
DoCleanUpModules(list) ==
  /\ exitCalls' = exitCalls \o Reverse(list)
  /\ modules' = <<>>
  /\ state' = [c \in Classes |-> NoModule]

\* InitializeModules: on success m_modules becomes the initialisation
\* order; on failure the modules initialised so far are cleaned up.
InitializeModules ==
  /\ phase = "setup"
  /\ atInit' = ToSet(modules)
  /\ LET s == InitializeLoop(1, Run(state, <<>>, <<>>))
     IN  /\ initCalls' = s.run.calls
         /\ IF s.ok
            THEN /\ modules' = s.run.inited /\ state' = s.run.state
                 /\ phase' = "running" /\ UNCHANGED exitCalls
            ELSE DoCleanUpModules(s.run.inited) /\ phase' = "failed"
  /\ UNCHANGED <<deps, failing>>

\* CleanUpModules: DoCleanUpModules(m_modules) at shutdown.
CleanUpModules ==
  /\ phase = "running"
  /\ DoCleanUpModules(modules) /\ phase' = "cleaned"
  /\ UNCHANGED <<deps, failing, initCalls, atInit>>

-----------------------------------------------------------------------------
Init ==
  /\ deps \in [Classes -> DepLists]
  /\ failing \in {{}} \cup {{c} : c \in Classes}
  /\ modules = <<>> /\ state = [c \in Classes |-> NoModule]
  /\ initCalls = <<>> /\ exitCalls = <<>>
  /\ phase = "setup" /\ atInit = {}

Next ==
  \/ \E m \in Classes : RegisterModule(m) \/ UnregisterModule(m)
  \/ InitializeModules \/ CleanUpModules

\* The application stops after the modules are cleaned up or failed to
\* initialise.
Spec == Init /\ [][Next]_vars

-----------------------------------------------------------------------------
TypeOK ==
  /\ deps \in [Classes -> DepLists] /\ failing \subseteq Classes
  /\ modules \in Seq(Classes) /\ state \in [Classes -> States \cup {NoModule}]
  /\ initCalls \in Seq(Classes) /\ exitCalls \in Seq(Classes)
  /\ phase \in {"setup", "running", "failed", "cleaned"}
  /\ atInit \subseteq Classes

\* The reference: class x depends on y, directly or through others.
DependsOn == TransitiveClosure([x, y \in Classes |-> y \in ToSet(deps[x])],
                               Classes)

\* Registered classes R can all be initialised: every class a member of R
\* depends on is registered, none is on a dependency cycle, and none has
\* an Init that fails.
Initialisable(R) ==
  \A m \in R :
     /\ ~DependsOn[m, m]
     /\ \A n \in {m} \cup {k \in Classes : DependsOn[m, k]} :
           n \in R /\ n \notin failing

\* InitializeModules succeeds exactly when the registered modules can all
\* be initialised: a cycle or a missing dependency makes it fail rather
\* than loop or skip, and a failing Init anywhere below makes it fail.
InitOutcome ==
  phase # "setup" => (phase \in {"running", "cleaned"} <=> Initialisable(atInit))

\* After a successful InitializeModules, m_modules holds every registered
\* module once, each after all of its dependencies.
DependenciesFirst ==
  phase = "running" =>
    /\ ToSet(modules) = atInit /\ IsInjective(modules)
    /\ \A i \in 1 .. Len(modules) :
         \A c \in ToSet(deps[modules[i]]) : \E j \in 1 .. i - 1 : modules[j] = c

\* Init is called at most once per module, even when several modules
\* depend on it.
InitOnce == IsInjective(initCalls)

\* Cleanup, after a failed initialisation or at shutdown, calls Exit on
\* exactly the modules whose Init succeeded, in the reverse order.
ExitReverse ==
  phase \in {"failed", "cleaned"} =>
    exitCalls = Reverse(SelectSeq(initCalls, LAMBDA c : c \notin failing))
=============================================================================

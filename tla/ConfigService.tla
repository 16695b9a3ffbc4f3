----------------------------- MODULE ConfigService -----------------------------
(***************************************************************************)
(* PATCH /config: the requests that change the debug flag of the running   *)
(* daemon.  Each reads the configuration, applies its patch to the copy    *)
(* and writes the flag of the copy back, while others do the same; a lock  *)
(* shared by all requests covers the read and the write, each on its own.  *)
(***************************************************************************)
EXTENDS Naturals

CONSTANTS Patches,   \* the requests, each in a thread of the server
          Nil

ASSUME PatchesAssumption == Nil \notin Patches /\ Nil \notin BOOLEAN

VARIABLES debug,     \* _config['debug']
          verbose,   \* is the level of the root logger DEBUG?
          always,    \* is _config['log_level'] DEBUG?
          configLock,
          patch      \* where each request is, what it asks for, its copy

configVars == <<debug, verbose, always, configLock, patch>>

NewPatch == [at |-> "new", flag |-> Nil]

\* A daemon that is started with debug has its log_level replaced by DEBUG.
ConfigLoaded(d) ==
  /\ debug = d /\ verbose = d /\ always = d
  /\ configLock = Nil
  /\ patch = [p \in Patches |-> NewPatch]

At(p, label) == patch[p].at = label
Moved(p, label) == patch' = [patch EXCEPT ![p].at = label]

\* patch: the body is parsed.  An empty patch, Nil, asks for nothing.
PatchAsks(p, value) ==
  /\ At(p, "new")
  /\ patch' = [patch EXCEPT ![p] = [at |-> "read", flag |-> value]]
  /\ UNCHANGED <<debug, verbose, always, configLock>>

\* get_config, and JsonPatch on the copy it returns.
PatchReads(p) ==
  /\ At(p, "read") /\ configLock = Nil
  /\ patch' = [patch EXCEPT ![p] =
       [at |-> "write", flag |-> IF patch[p].flag = Nil THEN debug ELSE patch[p].flag]]
  /\ UNCHANGED <<debug, verbose, always, configLock>>

\* Mutant: update_config without the lock.
PatchLevelUnlocked(p) ==
  /\ At(p, "write")
  /\ verbose' = (patch[p].flag \/ always)
  /\ Moved(p, "debug")
  /\ UNCHANGED <<debug, always, configLock>>

\* update_config takes the lock; _update_debug sets the level.
PatchLevel(p) ==
  /\ At(p, "write") /\ configLock = Nil
  /\ configLock' = p
  /\ verbose' = (patch[p].flag \/ always)
  /\ Moved(p, "debug")
  /\ UNCHANGED <<debug, always>>

\* update_config stores the flag and releases the lock.
PatchDebug(p) ==
  /\ At(p, "debug")
  /\ debug' = patch[p].flag
  /\ configLock' = Nil
  /\ Moved(p, "answer")
  /\ UNCHANGED <<verbose, always>>

\* The answer is what get_config returns now.
PatchAnswers(p) ==
  /\ At(p, "answer") /\ configLock = Nil
  /\ patch' = [patch EXCEPT ![p] = NewPatch]
  /\ UNCHANGED <<debug, verbose, always, configLock>>

PatchStep(p) == PatchReads(p) \/ PatchLevel(p) \/ PatchDebug(p) \/ PatchAnswers(p)

ConfigType ==
  /\ debug \in BOOLEAN /\ verbose \in BOOLEAN /\ always \in BOOLEAN
  /\ configLock \in Patches \cup {Nil}
  /\ patch \in [Patches -> [at : {"new", "read", "write", "debug", "answer"},
                            flag : BOOLEAN \cup {Nil}]]

\* Whenever no request writes, the root logger agrees with the flag that GET
\* /config shows, however requests overlap; a daemon that was started with
\* debug stays at DEBUG, its log_level being DEBUG.
LevelFollowsConfig == configLock = Nil => verbose = (debug \/ always)

=============================================================================

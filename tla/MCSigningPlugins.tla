-------------------------- MODULE MCSigningPlugins --------------------------
(* The three ways a session can get its hashes signed, one at a time: a    *)
(* library is linked with one plugin, and session_setup() of the threaded  *)
(* one takes the central thread if there is one and starts a local thread  *)
(* otherwise (plugin.c:805-817).  They share no state, so every behaviour  *)
(* is one of a single way.  The central thread has 2 sessions here, which  *)
(* have hashes of two sizes, and exit() may overtake the sessions; the     *)
(* local thread has 2 hashes of one size and 1 of another; the unthreaded  *)
(* plugin has 3 hashes and 4 slots.  A process that an assertion has ended *)
(* stays as it is.                                                         *)
EXTENDS CentralSigning, LocalSigning, UnthreadedSigning

CONSTANTS s1, s2, h1, h2, h3

MCSessions == {s1, s2}
OneSession == {s1}
OneHash == {h1}
SizePerSession == [s \in MCSessions |-> IF s = s1 THEN 1 ELSE 2]
ThreeHashes == {h1, h2, h3}
TwoSizes == [h \in ThreeHashes |-> IF h = h3 THEN 2 ELSE 1]

VARIABLE way  \* how the sessions get their hashes signed

allPlugins == <<vars, localVars, unthreadedVars, way>>

PluginsInit ==
  /\ Init
  /\ LocalInit
  /\ UnthreadedInit
  /\ way \in {"central", "local", "unthreaded"}

PluginsNext ==
  \/ way = "central" /\ Next /\ UNCHANGED <<localVars, unthreadedVars, way>>
  \/ way = "local" /\ LocalNext /\ UNCHANGED <<vars, unthreadedVars, way>>
  \/ way = "unthreaded" /\ UnthreadedNext /\ UNCHANGED <<vars, localVars, way>>
  \/ (Aborted \/ LocalAborted) /\ UNCHANGED allPlugins

PluginsSpec ==
  PluginsInit /\ [][PluginsNext]_allPlugins /\ Fairness /\ LocalFairness

=============================================================================

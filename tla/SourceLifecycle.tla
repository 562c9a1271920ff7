-------------------------- MODULE SourceLifecycle ---------------------------
(***************************************************************************)
(* What the peds that share skin sources rely on, without the records, the *)
(* identities and the scans by which SkinRuntime brings it about.          *)
(*                                                                         *)
(* A source is prepared for a profile that has none, lends its geometry to *)
(* any number of peds, is retired, and is released once no ped draws with  *)
(* it.  What is retired lends nothing more and never comes back.           *)
(***************************************************************************)
CONSTANTS Skins, Geometries, PlayerIds, NullAddress

VARIABLES
  loaded,   \* the sources that may be lent
  retired,  \* the sources that wait for their release
  worn      \* the geometry each ped has borrowed, or NullAddress

lifecycleVars == <<loaded, retired, worn>>

Source == [skin_id : Skins, resources : Geometries]

Init ==
  /\ loaded = {}
  /\ retired = {}
  /\ worn = [p \in PlayerIds |-> NullAddress]

Idle(source) == \A p \in PlayerIds : worn[p] # source.resources

\* "A replacement cannot be loaded while any clone may still borrow the old
\* source geometry and textures."
Prepare(source) ==
  /\ source \in Source
  /\ Idle(source)
  /\ \A other \in loaded \cup retired :
       /\ other.skin_id # source.skin_id
       /\ other.resources # source.resources
  /\ loaded' = loaded \cup {source}

\* A ped is visited: the source is prepared first if it has to be.
Visit ==
  /\ loaded' = loaded \/ \E source \in Source : Prepare(source)
  /\ \/ worn' = worn
     \/ \E p \in PlayerIds, source \in loaded' :
          worn' = [worn EXCEPT ![p] = source.resources]
     \/ \E p \in PlayerIds : worn' = [worn EXCEPT ![p] = NullAddress]
  /\ UNCHANGED retired

\* Sources go, those that no ped draws with for good.
Retire ==
  /\ \E going \in SUBSET loaded :
       /\ loaded' = loaded \ going
       /\ \E released \in SUBSET (retired \cup going) :
            /\ \A source \in released : Idle(source)
            /\ retired' = (retired \cup going) \ released
  /\ UNCHANGED worn

Next == Visit \/ Retire

Spec == Init /\ [][Next]_lifecycleVars
=============================================================================

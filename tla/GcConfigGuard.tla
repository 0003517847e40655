--------------------------- MODULE GcConfigGuard ---------------------------
(* How an instance joins the others on its backend                           *)
(* (src/ucm/store/posix/cc/gc_config_guard.cc): behind a gate directory it   *)
(* counts the live members, publishes its garbage collection config if there *)
(* are none or compares it with the published one, and registers.            *)
(*                                                                           *)
(* A live member's heartbeat is taken to be in time, so only the age of a    *)
(* dead one is kept.                                                         *)
EXTENDS Naturals, FiniteSets

CONSTANTS Instance, Configs, Stale, NONE

VARIABLES
  gate,        \* the gate directory exists
  gateAge,     \* how long ago it was made
  gateHeld,    \* gateHeld_ of each instance
  seen,        \* the age of the gate an instance waits for, as it will compute it
  published,   \* the published config, or NONE
  members,     \* the member files
  memberAge,   \* how long ago a dead member touched its file
  config,      \* each instance's config
  stage        \* where each instance is in Setup

guardVars == <<gate, gateAge, gateHeld, seen, published, members, memberAge, config, stage>>

GuardInit ==
  /\ gate = FALSE /\ gateAge = 0
  /\ gateHeld = [i \in Instance |-> FALSE]
  /\ seen = [i \in Instance |-> 0]
  /\ published = NONE /\ members = {}
  /\ memberAge = [i \in Instance |-> 0]
  /\ config \in Configs
  /\ stage = [i \in Instance |-> "gate"]

Stages(i, place) == stage' = [stage EXCEPT ![i] = place]

-----------------------------------------------------------------------------
(* AcquireGate: make the directory; if there is one, look at its age, remove *)
(* it if it is stale, and try again.                                         *)

\* Variation of GateMkDir: EEXIST is taken for success
GateMkDirExisting(i) ==
  /\ stage[i] = "gate"
  /\ gate' = TRUE /\ gateAge' = 0
  /\ gateHeld' = [gateHeld EXCEPT ![i] = TRUE]
  /\ Stages(i, "count")
  /\ UNCHANGED <<seen, published, members, memberAge, config>>

GateMkDir(i) ==
  /\ stage[i] = "gate"
  /\ gate' = TRUE
  /\ IF gate THEN Stages(i, "look") /\ UNCHANGED <<gateAge, gateHeld>>
     ELSE /\ gateAge' = 0
          /\ gateHeld' = [gateHeld EXCEPT ![i] = TRUE]
          /\ Stages(i, "count")
  /\ UNCHANGED <<seen, published, members, memberAge, config>>

GateStat(i) ==
  /\ stage[i] = "look"
  /\ IF gate THEN Stages(i, "touch") /\ seen' = [seen EXCEPT ![i] = gateAge]
             ELSE Stages(i, "gate") /\ seen' = seen
  /\ UNCHANGED <<gate, gateAge, gateHeld, published, members, memberAge, config>>

GateTouch(i) ==
  /\ stage[i] = "touch"
  /\ Stages(i, IF seen[i] >= Stale THEN "rmdir" ELSE "gate")
  /\ seen' = [seen EXCEPT ![i] = 0]
  /\ UNCHANGED <<gate, gateAge, gateHeld, published, members, memberAge, config>>

GateRmDir(i) ==
  /\ stage[i] = "rmdir"
  /\ gate' = FALSE /\ gateAge' = 0
  /\ Stages(i, "gate")
  /\ UNCHANGED <<gateHeld, seen, published, members, memberAge, config>>

(* kGateRetries attempts have failed.                                        *)
GateTimeout(i) ==
  /\ stage[i] \in {"gate", "look"} /\ gate
  /\ Stages(i, "failed")
  /\ UNCHANGED <<gate, gateAge, gateHeld, seen, published, members, memberAge, config>>

-----------------------------------------------------------------------------
(* Join *)

Live == {m \in members : memberAge[m] < Stale}

(* Stale members are removed on the way.                                     *)
CountLiveMembers(i) ==
  /\ stage[i] = "count"
  /\ members' = Live
  /\ Stages(i, IF Live = {} THEN "publish" ELSE "verify")
  /\ UNCHANGED <<gate, gateAge, gateHeld, seen, published, memberAge, config>>

Publish(i) ==
  /\ stage[i] = "publish"
  /\ published' = config[i]
  /\ Stages(i, "register")
  /\ UNCHANGED <<gate, gateAge, gateHeld, seen, members, memberAge, config>>

Verify(i) ==
  /\ stage[i] = "verify"
  /\ Stages(i, IF published = config[i] THEN "register" ELSE "refused")
  /\ UNCHANGED <<gate, gateAge, gateHeld, seen, published, members, memberAge, config>>

RegisterMember(i) ==
  /\ stage[i] = "register"
  /\ members' = members \cup {i}
  /\ Stages(i, "registered")
  /\ UNCHANGED <<gate, gateAge, gateHeld, seen, published, memberAge, config>>

(* ReleaseGate at the end of Setup.                                          *)
ReleaseGate(i) ==
  /\ stage[i] \in {"registered", "refused"}
  /\ gateHeld' = [gateHeld EXCEPT ![i] = FALSE]
  /\ gate' = FALSE /\ gateAge' = 0
  /\ Stages(i, IF stage[i] = "refused" THEN "failed" ELSE "joined")
  /\ UNCHANGED <<seen, published, members, memberAge, config>>

(* The destructor: UnregisterMember.                                         *)
Unregister(i) ==
  /\ stage[i] = "joined"
  /\ members' = members \ {i}
  /\ Stages(i, "left")
  /\ UNCHANGED <<gate, gateAge, gateHeld, seen, published, memberAge, config>>
=============================================================================

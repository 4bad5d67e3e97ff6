--------------------------- MODULE MagnaLocalClock ---------------------------
(* The clock of the Docker network: Anvil starts two hours in the past, the *)
(* bootstrap may use that time up, and activation brings L1 and L2 to the   *)
(* clock of the host, behind which every later checkpoint is paced          *)
(* (docker/local-clock).  A step is one unit of time.  The sequencer's      *)
(* serial queue keeps checkpoints, warps and activations apart, but not     *)
(* from L1, which mines and is read again between the pacing check of a     *)
(* checkpoint and its build.                                                *)
EXTENDS Integers

CONSTANTS
    Slot,         \* an Aztec slot: 8 seconds
    Headroom,     \* how far in the past Anvil starts: 7200 seconds
    Danger,       \* the drift that is refused: 180 seconds
    MaxAnchorAge, \* the age at which the readiness check calls an anchor stale
    Between,      \* bound: L1 blocks between a pacing check and its build
    MaxWall       \* the last time of a behaviour
ASSUME ClockAssumption ==
    /\ {Slot, Headroom, Danger, MaxAnchorAge, MaxWall} \subseteq Nat \ {0} /\ Between \in Nat
    /\ Headroom < MaxWall

VARIABLES
    wall,    \* Date.now() of the host
    l1,      \* timestamp of the latest L1 block
    lag,     \* how far Anvil's own clock is behind the host
    anchor,  \* timestamp of the latest L2 checkpoint
    phase,   \* "bootstrap", "realtime" or "failed"; "down" without a node
    genesis, \* which Anvil chain this is
    marked,  \* the genesis in clock-ready.json, 0 without the file
    paced    \* 0, or 1 + the L1 blocks since the pacing check of the checkpoint
             \* that is being built
clockVars == <<wall, l1, lag, anchor, phase, genesis, marked, paced>>

Later(s, t) == IF s > t THEN s ELSE t
Boundary(t) == ((t + Slot - 1) \div Slot) * Slot

(* A new chain: only its genesis is historical. *)
Genesis(host) == [l1 |-> host - Headroom, lag |-> Headroom]
(* initializeLocalClock refuses a chain that is ahead of the host. *)
Startable(t) == t <= wall

ClockInit ==
    /\ wall = Headroom /\ l1 = Genesis(wall).l1 /\ lag = Genesis(wall).lag
    /\ anchor = l1 /\ phase = "bootstrap" /\ genesis = 1 /\ marked = 0
    /\ paced = 0

HostTick == wall < MaxWall /\ wall' = wall + 1 /\ UNCHANGED <<l1, lag, anchor, phase, genesis, marked, paced>>

(* A block Anvil stamps by its own clock. Stamps never go back, and whether *)
(* two blocks may share one is Anvil's choice.                              *)
Stamps == {Later(wall - lag, l1), Later(wall - lag, l1 + 1)}
L1Block ==
    /\ l1' \in {t \in Stamps : t < wall + Danger}
    /\ paced <= Between /\ paced' = IF paced = 0 THEN 0 ELSE paced + 1
    /\ UNCHANGED <<wall, lag, anchor, phase, genesis, marked>>

(* A block with an exact stamp moves Anvil's clock to that stamp. *)
MineAt(t) == l1' = t /\ lag' = wall - t
Unpaced(t) == phase # "failed"
(* Bootstrap blocks are not paced; live ones wait for the host, and a       *)
(* failed activation disables checkpoints.                                  *)
Paced(t) == phase = "bootstrap" \/ (phase = "realtime" /\ t <= wall)
QueueFree == paced = 0

(* An ordinary L2 block: the next slot this sequencer owns, at or after the *)
(* pending L1 time, which a live clock compares with the host's first.  The *)
(* build reads the pending time again.                                      *)
CheckpointAt(pending) == Later(pending, Later(pending \div Slot, anchor \div Slot + 1) * Slot)
Pace ==
    /\ QueueFree /\ phase = "realtime"
    /\ \E pending \in Stamps : Paced(CheckpointAt(pending))
    /\ paced' = 1 /\ UNCHANGED <<wall, l1, lag, anchor, phase, genesis, marked>>
MayBuild == phase = "bootstrap" \/ ~QueueFree
Checkpoint ==
    /\ MayBuild
    /\ \E pending \in Stamps : LET t == CheckpointAt(pending) IN
          t < wall + Danger /\ MineAt(t) /\ anchor' = t
    /\ paced' = 0 /\ UNCHANGED <<wall, phase, genesis, marked>>
BuildFails == ~QueueFree /\ paced' = 0 /\ UNCHANGED <<wall, l1, lag, anchor, phase, genesis, marked>>

(* The warp rounds up to a slot and never goes back; a future target is     *)
(* refused, and the rounded stamp is paced like a checkpoint.               *)
WarpTo(t) ==
    /\ QueueFree /\ t <= wall
    /\ IF l1 >= Boundary(t) THEN UNCHANGED <<l1, lag, anchor>>
       ELSE Paced(Boundary(t)) /\ MineAt(Boundary(t)) /\ anchor' = Boundary(t)
    /\ UNCHANGED <<wall, phase, genesis, marked, paced>>

(* /activate: catch up to one slot behind the host, give Anvil the host's   *)
(* time and write the marker. Any error on the way leaves "failed".         *)
Faults == {"none", "before", "after"}
Activation(fault) ==
    LET back == Boundary(wall - Slot) IN
    /\ paced' = 0 /\ UNCHANGED <<wall, genesis>>
    /\ IF l1 > wall \/ fault = "before"
       THEN phase' = "failed" /\ UNCHANGED <<l1, lag, anchor, marked>>
       ELSE /\ l1' = Later(l1, back) /\ anchor' = IF l1 < back THEN back ELSE anchor
            /\ IF fault = "after"
               THEN /\ phase' = "failed" /\ UNCHANGED marked
                    /\ lag' = IF l1 < back THEN wall - back ELSE lag
               ELSE phase' = "realtime" /\ lag' = 0 /\ marked' = genesis
Activate(fault) == QueueFree /\ Activation(fault)

(* clock-keeper, once a minute: only a live clock is refreshed. *)
KeepAlive(fault) == phase = "realtime" /\ Activate(fault)

(* The node starts again over the Anvil that is running: its L2 is new, and *)
(* a marker of this genesis activates the clock at once.                    *)
NodeStarts(fault) ==
    IF ~Startable(l1) THEN phase' = "down" /\ paced' = 0 /\ UNCHANGED <<wall, l1, lag, anchor, genesis, marked>>
    ELSE IF marked = genesis THEN Activation(fault)
    ELSE phase' = "bootstrap" /\ anchor' = l1 /\ paced' = 0 /\ UNCHANGED <<wall, l1, lag, genesis, marked>>

(* Anvil starts again too: it keeps its chain in memory only. *)
ChainStarts ==
    /\ genesis' = genesis + 1 /\ l1' = Genesis(wall).l1 /\ lag' = Genesis(wall).lag
    /\ anchor' = l1' /\ phase' = "bootstrap" /\ paced' = 0 /\ UNCHANGED <<wall, marked>>

(* waitForCommittedInboxWitness and the funding of the page make empty      *)
(* checkpoints until the message is in one: the bootstrap asks for the next *)
(* slot, the page for the time of the host.                                 *)
MayAdvance == l1 < wall
AdvanceFunding == MayAdvance /\ WarpTo(wall)
AdvanceInbox == MayAdvance /\ WarpTo(l1 + 1)

(* What check-localnet-drift prints before a stack is handed over. *)
Within(t) == t - wall < Danger /\ wall - t < Danger
Readiness ==
    LET pending == Later(wall - lag, l1) IN
    IF wall - anchor > MaxAnchorAge THEN "stale anchor"
    ELSE IF anchor - wall > Danger THEN "anchor ahead"
    ELSE IF wall - l1 >= Danger /\ Within(pending) THEN "idle"
    ELSE IF ~Within(l1) \/ ~Within(pending) THEN "outside the threshold"
    ELSE "usable"
=============================================================================

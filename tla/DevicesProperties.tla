------------------------- MODULE DevicesProperties -------------------------
(***************************************************************************)
(* What the devices owe the operating system.                              *)
(***************************************************************************)
EXTENDS Devices

TypeOK ==
    /\ queue \in [Slots -> Events]
    /\ ptr \in Slots
    /\ tick \in BOOLEAN
    /\ armed \in BOOLEAN
    /\ status \in [Disks -> {"READY", "BUSY", "ERROR"}]
    /\ track \in [Disks -> Nat]
    /\ request \in [Disks -> [op : Operations, reg1 : Int]]
    /\ xmit \in [Terms -> {"READY", "BUSY"}]
    /\ recv \in [Terms -> {"READY", "BUSY"}]
    /\ control \in [Terms -> SUBSET {"RECV_INT", "XMIT_INT"}]
    /\ poll \in Terms \cup {-1}
    /\ intr \in [device : -1 .. 3, unit : Nat]
    /\ fate \in {"running", "hung", "trapped", "aborted"}

SlotsOf(e) == {i \in Slots : queue[i] = e}

(* The events of the ring are exactly the requests the disks are working   *)
(* on: displacing an event neither loses it, nor copies it, nor mixes up   *)
(* the units (schedule_int swaps device and arg separately, and disk_action*)
(* trusts arg).                                                            *)
OneEventPerRequest ==
    Running => \A u \in Disks :
        /\ status[u] = "BUSY" => \E i \in Slots : SlotsOf(DiskEvent(u)) = {i}
        /\ status[u] # "BUSY" => SlotsOf(DiskEvent(u)) = {}

(* The head of a disk is on one of its tracks, whatever was asked of it    *)
(* and in whatever order (disk_action).                                    *)
HeadOnDisk == \A u \in Disks : track[u] < Tracks[u]

(* An alarm that has been set goes off at the tick its ring slot was       *)
(* chosen for: no other request, of any device, moves it or removes it.    *)
AlarmsKeepTheirSlot ==
    [][SlotsOf(AlarmEvent) \subseteq SlotsOf(AlarmEvent)' \cup {ptr'}]_vars

(* A disk operation that finishes, and nothing else, interrupts for its    *)
(* unit; a terminal interrupts for the unit if that interrupt is enabled,  *)
(* whether a character arrived, was sent, or both at the same poll.        *)
Announcements ==
    [][fate' = "running" =>
        /\ \A u \in Disks :
             (intr' = [device |-> DISK_DEV, unit |-> u] <=>
              status[u] = "BUSY" /\ status'[u] # "BUSY")
        /\ \A t \in Terms :
             (\/ xmit[t] = "BUSY" /\ xmit'[t] = "READY" /\ "XMIT_INT" \in control[t]
              \/ recv[t] = "READY" /\ recv'[t] = "BUSY" /\ "RECV_INT" \in control[t])
             => intr' = [device |-> TERM_DEV, unit |-> t]
      ]_vars

-----------------------------------------------------------------------------
(* With an operating system that arms the alarm only when it is READY.     *)

(* The ticks until slot i is reached.                                      *)
Wait(i) == 1 + Ahead(ptr, i - 1)

(* The alarm's status is BUSY exactly while an alarm is outstanding, and   *)
(* never more than one is (alarm_request, alarm_action).                   *)
AlarmStatusTrue ==
    Running => IF armed THEN \E i \in Slots : SlotsOf(AlarmEvent) = {i}
                        ELSE SlotsOf(AlarmEvent) = {}

(* A request in the ring may be put off, but is never brought forward:     *)
(* the comment on schedule_int promises it a later tick.                   *)
OnlyPutOff ==
    [][\A u \in Disks, i, j \in Slots :
          queue[i] = DiskEvent(u) /\ queue'[j] = DiskEvent(u) =>
             Wait(j)' >= (IF ptr' = ptr THEN Wait(i) ELSE Wait(i) - 1)]_vars

(* A disk's request is at most its own delay and one tick for every other  *)
(* device's event away.                                                    *)
DisksStayNear ==
    \A u \in Disks, i \in Slots :
        queue[i] = DiskEvent(u) =>
            Wait(i) <= MaxDelay + Cardinality({j \in Slots : queue[j] # Idle}) - 1

(* Every disk request is finished, if alarms are not set for the very next *)
(* tick again and again (schedule_int, dispatch_int).                      *)
DisksFinish == \A u \in Disks : status[u] = "BUSY" ~> status[u] # "BUSY"

(* A character handed to a terminal is sent, if the disks and the alarm    *)
(* leave the terminals a slot again and again: the units take turns.       *)
CharactersSent ==
    ([]<><<\E arrives \in BOOLEAN : term_action(arrives)>>_vars) =>
        \A t \in Terms : xmit[t] = "BUSY" ~> xmit[t] = "READY"

-----------------------------------------------------------------------------
(* What the sources say and the code does not do.                          *)

(* dev_disk.c:114, "Impossible requests cause the device status to be set  *)
(* to DEV_ERROR": a request for a sector the track does not have is never  *)
(* finished in any other state.                                            *)
ImpossibleIsError ==
    [][\A u \in Disks :
          /\ Transfers(u) /\ request[u].reg1 \notin 0 .. TrackSize - 1
          /\ SlotsOf(DiskEvent(u)) # {} /\ SlotsOf(DiskEvent(u))' = {}
          => status'[u] = "ERROR"]_vars
============================================================================

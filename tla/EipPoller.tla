------------------------------ MODULE EipPoller ------------------------------
(***************************************************************************)
(* The EtherNet/IP poller: a process of its own beside the service, in the *)
(* same container.  It reads config.yml again when its mtime has changed,  *)
(* and connects to one device after the other; it asks neither the         *)
(* service's lock nor its cooldown.  Every write of the file gives it      *)
(* another mtime.  A device is the controller it is.                       *)
(***************************************************************************)
EXTENDS EipService

CONSTANTS
    Malformed,  \* devices without a name or without a connection string that is
                \* one, or with a plant or a name that no MQTT topic can hold;
                \* PUT /api/config and the plant field allow them
    Configs     \* bound: the sets of devices that are saved

ASSUME PollerAssumption == Malformed \subseteq Plcs /\ Configs \subseteq SUBSET Plcs

VARIABLES
    file,      \* config.yml: its enabled eip:// devices, and its mtime
    torn,      \* whether a seed has emptied the file and not yet filled it
    at,        \* where the loop is
    mtime,     \* mtime
    known,     \* last_config_mtime
    devices,   \* devices
    left,      \* the devices of this cycle still to come
    unread     \* whether the last reading of the file failed (observation only)

pollerVars == <<file, torn, at, mtime, known, devices, left, unread>>

PollerInit ==
    /\ file = [devices |-> {}, mtime |-> 1]
    /\ torn = FALSE
    /\ at = "stat" /\ mtime = 0 /\ known = 0
    /\ devices = {} /\ left = {} /\ unread = FALSE

(* An empty or half-written file is a configuration without devices. *)
InFile == IF torn THEN {} ELSE file.devices

-----------------------------------------------------------------------------
(* config.yml is replaced by save_config, or written in place by a seed. *)

SaveConfig ==
    /\ ~torn
    /\ \E d \in Configs : file' = [devices |-> d, mtime |-> file.mtime + 1]
    /\ UNCHANGED <<torn, at, mtime, known, devices, left, unread>>

SeedOpens ==
    /\ ~torn
    /\ torn' = TRUE
    /\ file' = [file EXCEPT !.mtime = @ + 1]
    /\ UNCHANGED <<at, mtime, known, devices, left, unread>>

SeedWrites ==
    /\ torn /\ torn' = FALSE
    /\ file' = [devices |-> Plcs \ Malformed, mtime |-> file.mtime + 1]
    /\ UNCHANGED <<at, mtime, known, devices, left, unread>>

-----------------------------------------------------------------------------
(* main *)

Stat ==
    /\ at = "stat"
    /\ mtime' = file.mtime
    /\ at' = IF file.mtime # known THEN "load" ELSE "poll"
    /\ left' = IF file.mtime # known THEN {} ELSE devices
    /\ UNCHANGED <<file, torn, known, devices, unread>>

Stamp == mtime

(* A file that cannot be read is a configuration without devices, and is    *)
(* not read again before it changes.                                        *)
Load ==
    /\ at = "load"
    /\ \/ devices' = InFile /\ unread' = FALSE
       \/ devices' = {} /\ unread' = TRUE
    /\ left' = devices'
    /\ at' = "stamp"
    /\ UNCHANGED <<file, torn, mtime, known>>

(* A device whose connection string is none raises while the list is made:   *)
(* the cycle ends there, with the devices and the mtime of before.          *)
LoadBreaks ==
    /\ at = "load" /\ InFile \cap Malformed # {}
    /\ at' = "stat"
    /\ UNCHANGED <<file, torn, mtime, known, devices, left, unread>>

LoadEnds ==
    /\ at = "stamp"
    /\ known' = Stamp
    /\ at' = "poll"
    /\ UNCHANGED <<file, torn, mtime, devices, left, unread>>

(* A device is connected to and its tags are read; with the connection      *)
(* closed, the values go to the cache file, MQTT and InfluxDB.              *)
PollConnect(p) ==
    /\ at = "poll" /\ p \in left
    /\ at' = "connected"
    /\ left' = left \ {p}
    /\ open' = open \cup {<<"poller", p>>}
    /\ UNCHANGED <<file, torn, mtime, known, devices, unread>>

(* A device without a name raises before it is connected to: the cycle ends *)
(* there.                                                                   *)
PollBreaks(p) ==
    /\ at = "poll" /\ p \in left \cap Malformed
    /\ at' = "stat" /\ left' = {}
    /\ UNCHANGED <<open, file, torn, mtime, known, devices, unread>>

PollEnds(p, next) ==
    /\ at = "connected" /\ <<"poller", p>> \in open
    /\ at' = next /\ left' = IF next = "poll" THEN left ELSE {}
    /\ open' = open \ {<<"poller", p>>}
    /\ UNCHANGED <<file, torn, mtime, known, devices, unread>>

(* Mutant: any device that fails ends the cycle. *)
Slip_PollEnd(p) == PollEnds(p, "poll") \/ PollEnds(p, "stat")

(* Whether its tags were read or it raised, the next device follows: unless *)
(* its status cannot be published, when the handler raises as well and the  *)
(* cycle ends.                                                              *)
PollEnd(p) ==
    \/ PollEnds(p, "poll")
    \/ p \in Malformed /\ PollEnds(p, "stat")

(* The sleep at the end of a cycle, or for want of devices. *)
Sleep ==
    /\ at = "poll" /\ left = {}
    /\ at' = "stat"
    /\ UNCHANGED <<file, torn, mtime, known, devices, left, unread>>

PollOpens == \E p \in Plcs : PollConnect(p) \/ PollBreaks(p) \/ PollEnd(p)
PollRests == Stat \/ Load \/ LoadBreaks \/ LoadEnds \/ Sleep
=============================================================================

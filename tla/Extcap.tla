------------------------------- MODULE Extcap -------------------------------
(***************************************************************************)
(* ovextcap as Wireshark runs it: once to list the interfaces, once to     *)
(* list the link types and options of each, and then, with what the user   *)
(* has chosen, for a capture (main() and start_capture() of                *)
(* src/tools/ovextcap/main.c).  The packets are left to NakFilter and      *)
(* PcapTime.                                                               *)
(***************************************************************************)
EXTENDS Integers

CONSTANTS Versions,  \* the versions of Wireshark: <<major, minor>>, <<0, 0>> without
          MaxRuns    \* bound: captures

ASSUME VersionsAssumption == Versions \subseteq Nat \X Nat

\* enum ov_usb_speed
OV_LOW_SPEED  == 74
OV_FULL_SPEED == 73
OV_HIGH_SPEED == 72
Speeds == {OV_LOW_SPEED, OV_FULL_SPEED, OV_HIGH_SPEED}

LINKTYPE_USBLL == 288
LINKTYPE_USBLL_LOW_SPEED  == 293
LINKTYPE_USBLL_FULL_SPEED == 294
LINKTYPE_USBLL_HIGH_SPEED == 295

Interfaces == {"ov", "ov-low", "ov-full", "ov-high"}

\* The absence of an option
None == 0

VARIABLES
  pc,       \* what start_capture() does next; "exit" if no process runs
  args,     \* the arguments of the capture
  linktype, speed,  \* the variables of main()
  \* what the process holds, and the device
  held,     \* subset of {"ov", "out", "debug"}
  stream,   \* 1 from ov_capture_start() to ov_capture_stop()
  deviceSpeed, header,  \* the speed of the device, and the link type written to the pipe
  file,     \* the file for debugging: which run has written it, or None
  runs

locals == <<args, linktype, speed>>
effects == <<stream, deviceSpeed, header>>
extcap_vars == <<pc, locals, held, effects, file, runs>>

-----------------------------------------------------------------------------
(***************************************************************************)
(* What main() tells Wireshark.                                            *)
(***************************************************************************)
\* wireshark_version_from_string() gives WIRESHARK_VERSION_3_1_OR_NEWER.
Is31OrNewer(v) == v[1] = 3 /\ v[2] >= 1

\* print_extcap_interfaces()
AnnouncedInterfaces(v) == IF Is31OrNewer(v) THEN {"ov"} ELSE Interfaces \ {"ov"}

\* print_extcap_dlts()
AnnouncedDlt ==
  [i \in Interfaces |->
    CASE i = "ov"      -> LINKTYPE_USBLL
      [] i = "ov-low"  -> LINKTYPE_USBLL_LOW_SPEED
      [] i = "ov-full" -> LINKTYPE_USBLL_FULL_SPEED
      [] i = "ov-high" -> LINKTYPE_USBLL_HIGH_SPEED]

\* print_extcap_options(): the speeds to choose from
AnnouncedSpeeds(i) == IF i = "ov" THEN Speeds ELSE {}

-----------------------------------------------------------------------------
(***************************************************************************)
(* A capture.                                                              *)
(***************************************************************************)
ExtcapInit ==
  /\ pc = "exit" /\ args = [interface |-> "ov", speed |-> None, debug |-> 0, overwrite |-> 0]
  /\ linktype = LINKTYPE_USBLL /\ speed = OV_HIGH_SPEED
  /\ held = {} /\ stream = 0 /\ deviceSpeed = OV_HIGH_SPEED /\ header = None
  /\ file \in {None, 1} /\ runs = 0

\* Mutant of SpeedFor: the choice is not looked at.
SpeedForInterface(i, s) ==
  CASE i = "ov-low"  -> OV_LOW_SPEED
    [] i = "ov-full" -> OV_FULL_SPEED
    [] OTHER -> OV_HIGH_SPEED

\* The speed that main() captures with: the interface has the last word.
SpeedFor(i, s) ==
  CASE i = "ov-low"  -> OV_LOW_SPEED
    [] i = "ov-full" -> OV_FULL_SPEED
    [] i = "ov-high" -> OV_HIGH_SPEED
    [] OTHER -> IF s = None THEN OV_HIGH_SPEED ELSE s

LinktypeFor(i) ==
  CASE i = "ov-low"  -> LINKTYPE_USBLL_LOW_SPEED
    [] i = "ov-full" -> LINKTYPE_USBLL_FULL_SPEED
    [] i = "ov-high" -> LINKTYPE_USBLL_HIGH_SPEED
    [] OTHER -> LINKTYPE_USBLL

\* O_EXCL, unless it may be overwritten
CanOpenDebug(a) == a.overwrite = 1 \/ file = None

\* Wireshark starts a capture on an interface that it was told of, perhaps with one of
\* the speeds offered for that.
Capture ==
  /\ pc = "exit" /\ runs < MaxRuns /\ runs' = runs + 1
  /\ \E v \in Versions : \E i \in AnnouncedInterfaces(v) :
     \E s \in AnnouncedSpeeds(i) \cup {None}, d \in 0 .. 1, o \in 0 .. 1 :
       LET a == [interface |-> i, speed |-> s, debug |-> d, overwrite |-> o]
       IN  /\ args' = a
           /\ speed' = SpeedFor(i, s) /\ linktype' = LinktypeFor(i)
           /\ \/ d = 0 /\ pc' = "new" /\ held' = {} /\ UNCHANGED file
              \/ /\ d = 1 /\ CanOpenDebug(a)
                 /\ pc' = "new" /\ held' = {"debug"} /\ file' = runs + 2
              \/ d = 1 /\ pc' = "exit" /\ held' = {} /\ UNCHANGED file
  /\ header' = None
  /\ UNCHANGED <<stream, deviceSpeed>>

\* start_capture() returns early.  The file for debugging is left to the system.
ReturnsEarly == pc' = "exit" /\ held' = held \ {"ov"}

\* A call with nothing else to undo: ov_new(), ov_open(), fopen()
Calls(at, next, gets) ==
  /\ pc = at
  /\ \/ pc' = next /\ held' = held \cup gets
     \/ ReturnsEarly
  /\ UNCHANGED <<locals, effects, file, runs>>

New  == Calls("new", "open", {"ov"})
Open == Calls("open", "speed", {})
Fifo == Calls("fifo", "header", {"out"})

\* ov_set_usb_speed().  If it fails the speed may have been set even so.
SetSpeed ==
  /\ pc = "speed"
  /\ \/ pc' = "fifo" /\ deviceSpeed' = speed /\ UNCHANGED held
     \/ ReturnsEarly /\ deviceSpeed' \in {deviceSpeed, speed}
  /\ UNCHANGED <<locals, stream, header, file, runs>>

\* The headers.  A file that cannot be written is closed, and the capture starts.
WriteHeader ==
  /\ pc = "header" /\ pc' = "start"
  /\ \E broken \in SUBSET (held \cap {"out", "debug"}) :
       /\ held' = held \ broken
       /\ header' = IF "out" \in broken THEN None ELSE linktype
  /\ UNCHANGED <<locals, stream, deviceSpeed, file, runs>>

\* ov_capture_start()
Start ==
  /\ pc = "start"
  /\ \/ pc' = "dispatch" /\ stream' = 1 /\ UNCHANGED held
     \/ pc' = "exit" /\ held' = {} /\ UNCHANGED stream
  /\ UNCHANGED <<locals, deviceSpeed, header, file, runs>>

\* ov_capture_dispatch() returns: an error, the last packet, or a pipe that broke.
\* Files may have been closed by then.
Dispatch ==
  /\ pc = "dispatch" /\ pc' = "stop"
  /\ held' = held \ {"out", "debug"}
  /\ UNCHANGED <<locals, effects, file, runs>>

\* Mutant of Stop: ov_free() comes first, and there is nothing to stop any more.
StopFreed ==
  /\ pc = "stop" /\ pc' = "exit" /\ held' = held \ {"ov"}
  /\ UNCHANGED <<locals, effects, file, runs>>

\* ov_capture_stop() and ov_free()
Stop ==
  /\ pc = "stop" /\ pc' = "exit" /\ held' = held \ {"ov"}
  /\ stream' = 0
  /\ UNCHANGED <<locals, deviceSpeed, header, file, runs>>

ExtcapNext == Capture \/ New \/ Open \/ Fifo \/ SetSpeed \/ WriteHeader \/ Start \/ Dispatch \/ Stop

ExtcapSpec == ExtcapInit /\ [][ExtcapNext]_extcap_vars

-----------------------------------------------------------------------------
\* The speeds that a link type stands for
SpeedsOf ==
  [l \in {AnnouncedDlt[i] : i \in Interfaces} |->
    CASE l = LINKTYPE_USBLL_LOW_SPEED  -> {OV_LOW_SPEED}
      [] l = LINKTYPE_USBLL_FULL_SPEED -> {OV_FULL_SPEED}
      [] l = LINKTYPE_USBLL_HIGH_SPEED -> {OV_HIGH_SPEED}
      [] OTHER -> Speeds]

\* While it captures the device has the speed that the link type says, which is that
\* Wireshark has been told of, and the speed that was chosen if the interface offers a
\* choice: whatever process ran before (src/tools/ovextcap/main.c:336, 423-433, 514-577).
DeviceSpeedFits ==
  stream = 1 =>
    /\ header # None => header = AnnouncedDlt[args.interface] /\ deviceSpeed \in SpeedsOf[header]
    /\ args.speed \in AnnouncedSpeeds(args.interface) => deviceSpeed = args.speed

\* On every path out the device is freed, after the capture was stopped if it was
\* started, and the pipe is closed (src/tools/ovextcap/main.c:328-392).
ReleasedAtExit ==
  /\ pc = "exit" => held \subseteq {"debug"}
  /\ stream = 1 => "ov" \in held
=============================================================================

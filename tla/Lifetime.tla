------------------------------ MODULE Lifetime ------------------------------
(***************************************************************************)
(* What libopenvizsla holds on behalf of its user: memory, zip archives,   *)
(* FTDI contexts and handles, transfers; where each is got, and where it   *)
(* is given back when a call fails half-way, at the labels of its function.*)
(*                                                                         *)
(* A function is a sequence of elementary steps.  Each has what is to be   *)
(* released if it fails: what the labels of its function release, from the *)
(* one it goes to on, and behind them those of the callers.                *)
(***************************************************************************)
EXTENDS Integers, Sequences

CONSTANT MaxCalls  \* bound: calls of the user

Objects == {"ov", "source", "package", "other", "file", "text", "bits",
            "ftdiA", "ftdiB", "usbA", "usbB", "transfer", "buffer"}

Handles == {"usbA", "usbB"}

VARIABLES
  call, todo,  \* the user's call and the rest of its steps
  failed,      \* whether they are the cleanup of a call that has failed
  phase,       \* "none", "new", "open", "started" or "gone"
  live,        \* of each kind of object, how many are held
  ptr,         \* the kinds whose pointer is set
  wild,        \* 1 if something has been released that was not held
  \* history
  causes,      \* what has happened that loses an object
  calls

lifetime_vars == <<call, todo, failed, phase, live, ptr, wild, causes, calls>>

-----------------------------------------------------------------------------
(***************************************************************************)
(* Functions.                                                              *)
(***************************************************************************)
Step(do, o, guarded) ==
  <<[do |-> do, obj |-> o, guarded |-> guarded, fails |-> << >>]>>

Get(o)  == Step("get", o, 0)    \* may fail, without an effect
Try     == Step("try", "ov", 0) \* something else that may fail
Start   == Step("start", "transfer", 0)  \* the same, with transfers that are then lost
Move(o) == Step("move", o, 0)   \* the source becomes part of an archive

\* Releases: free(), ftdi_deinit(), ...; or only if the pointer is set
Free(o)      == Step("put", o, 0)
FreeIfSet(o) == Step("put", o, 1)

\* The steps behind a call whose label for failures releases `undo'
On(undo, steps) == [i \in DOMAIN steps |-> [steps[i] EXCEPT !.fails = @ \o undo]]

\* src/fwpkg.c
fwpkg_locate_files(p) == On(Free(p), Try \o Try)

fwpkg_init_from_file(p) == Get(p) \o fwpkg_locate_files(p)

\* zip_open_from_source() takes the source over, unless it fails.
fwpkg_init_from_preload(p) == Get("source") \o Move(p) \o fwpkg_locate_files(p)

fwpkg_init(p, filename) ==
  IF filename = "NULL" THEN fwpkg_init_from_preload(p) ELSE fwpkg_init_from_file(p)

fwpkg_read_file == Get("file") \o On(Free("file"), Try) \o Free("file")

\* src/reg.c, src/cha.c, src/chb.c
reg_init_from_fwpkg ==
  Get("text") \o On(FreeIfSet("text"), fwpkg_read_file \o Try) \o Free("text")

cha_init == reg_init_from_fwpkg \o Get("ftdiA") \o On(Free("ftdiA"), Try)

\* ftdi_deinit() closes the handle.
cha_destroy == FreeIfSet("usbA") \o Free("ftdiA")

cha_open == Get("usbA") \o On(FreeIfSet("usbA"), Try \o Try)

chb_init == Get("ftdiB") \o On(Free("ftdiB"), Try)

chb_destroy == FreeIfSet("usbB") \o Free("ftdiB")

\* The eight settings of channel B have one cleanup.
chb_open == Get("usbB") \o On(FreeIfSet("usbB"), Try)

\* A transfer frees its buffer (LIBUSB_TRANSFER_FREE_BUFFER).
libusb_free_transfer == Free("buffer") \o Free("transfer")

\* The first transfer and its buffer, and what follows, cleaned up behind it
Transfer(next) ==
  Get("transfer") \o On(Free("transfer"), Get("buffer")) \o On(libusb_free_transfer, next)

cha_loop_init == Try \o Transfer(Transfer(Transfer(<< >>)))

cha_loop_destroy == libusb_free_transfer \o libusb_free_transfer \o libusb_free_transfer

\* src/ov.c
ov_load_firmware_from_fwpkg ==
  Get("bits") \o On(FreeIfSet("bits"), fwpkg_read_file \o Try \o Free("bits") \o Try)

\* Mutant of ov_new: the context of channel A is not destroyed if channel B fails.
ov_newNoDestroy(filename) ==
  Get("ov") \o On(Free("ov"),
    fwpkg_init("package", filename) \o On(Free("package"), cha_init \o chb_init))

ov_new(filename) ==
  Get("ov") \o On(Free("ov"),
    fwpkg_init("package", filename) \o On(Free("package"),
      cha_init \o On(cha_destroy, chb_init)))

ov_open == cha_open \o chb_open \o ov_load_firmware_from_fwpkg \o Try

ov_free == chb_destroy \o cha_destroy \o Free("package") \o Free("ov")

\* Mutant of ov_load_firmware: the label destroys the package of the device.
ov_load_firmwareOwn(filename) ==
  fwpkg_init("other", filename)
  \o On(Free("package"), reg_init_from_fwpkg \o ov_load_firmware_from_fwpkg)
  \o Free("other")

ov_load_firmware(filename) ==
  fwpkg_init("other", filename)
  \o On(Free("other"), reg_init_from_fwpkg \o ov_load_firmware_from_fwpkg)
  \o Free("other")

ov_capture_start == cha_loop_init \o Start

ov_capture_stop == cha_loop_destroy \o Try

-----------------------------------------------------------------------------
(***************************************************************************)
(* The user's calls.                                                       *)
(***************************************************************************)
LifetimeInit ==
  /\ call = "none" /\ todo = << >> /\ failed = FALSE /\ phase = "none"
  /\ live = [o \in Objects |-> 0] /\ ptr = {} /\ wild = 0 /\ causes = {} /\ calls = 0

Call(c, steps) ==
  /\ todo = << >> /\ calls < MaxCalls /\ calls' = calls + 1
  /\ call' = c /\ todo' = steps /\ failed' = FALSE
  /\ UNCHANGED <<phase, live, ptr, wild>>

New == phase = "none" /\ UNCHANGED causes /\ \E f \in {"NULL", "name"} : Call("ov_new", ov_new(f))

\* Again, if it failed: what was left open then is opened once more.
Open ==
  /\ phase = "new" /\ Call("ov_open", ov_open)
  /\ causes' = IF Handles \cap ptr # {} THEN causes \cup {"opened again"} ELSE causes

LoadFirmware ==
  /\ phase = "open" /\ UNCHANGED causes
  /\ \E f \in {"NULL", "name"} : Call("ov_load_firmware", ov_load_firmware(f))

CaptureStart ==
  phase = "open" /\ UNCHANGED causes /\ Call("ov_capture_start", ov_capture_start)

CaptureStop ==
  phase = "started" /\ UNCHANGED causes /\ Call("ov_capture_stop", ov_capture_stop)

Delete == phase \in {"new", "open"} /\ UNCHANGED causes /\ Call("ov_free", ov_free)

\* The phase after a call that succeeds
After ==
  CASE call = "ov_new" -> "new"
    [] call = "ov_free" -> "gone"
    [] call = "ov_capture_start" -> "started"
    [] OTHER -> "open"

\* The phase after a call that fails
AfterFailure ==
  CASE call = "ov_new" -> "gone"
    [] call = "ov_capture_stop" -> "open"
    [] OTHER -> phase

-----------------------------------------------------------------------------
\* The state s after the release r: the pointers that are tested are set to NULL.
Released(s, r) ==
  IF r.guarded = 1 /\ r.obj \notin s.ptr THEN s
  ELSE IF s.live[r.obj] = 0 THEN [s EXCEPT !.wild = 1]
  ELSE [s EXCEPT !.live[r.obj] = @ - 1, !.ptr = @ \ {r.obj}]

Gotten(s, o) == [s EXCEPT !.live[o] = @ + 1, !.ptr = @ \cup {o}]

\* The state s after step t
Effect(s, t) ==
  CASE t.do = "get"  -> Gotten(s, t.obj)
    [] t.do = "put"  -> Released(s, t)
    [] t.do = "move" -> Gotten(Released(s, Free("source")[1]), t.obj)
    [] OTHER -> s

Lost(t) ==
  CASE t.do = "move"  -> {"not opened"}
    [] t.do = "start" -> {"not started"}
    [] OTHER -> {}

\* And after its failure.  A handle that cannot be opened may be set to NULL for that.
Failures(s, t) ==
  {[s EXCEPT !.ptr = p, !.causes = @ \cup Lost(t)] :
     p \in {s.ptr, s.ptr \ ({t.obj} \cap Handles)}}

Now == [live |-> live, ptr |-> ptr, wild |-> wild, causes |-> causes]

Becomes(s) == live' = s.live /\ ptr' = s.ptr /\ wild' = s.wild /\ causes' = s.causes

\* The call returns when nothing is left to do.
Return == phase' = IF todo' # << >> THEN phase ELSE IF failed' THEN AfterFailure ELSE After

Succeeds ==
  /\ todo # << >> /\ todo' = Tail(todo)
  /\ Becomes(Effect(Now, Head(todo)))
  /\ UNCHANGED <<call, failed, calls>> /\ Return

Fails ==
  /\ todo # << >> /\ Head(todo).do # "put"
  /\ todo' = Head(todo).fails /\ failed' = TRUE
  /\ \E s \in Failures(Now, Head(todo)) : Becomes(s)
  /\ UNCHANGED <<call, calls>> /\ Return

LifetimeNext == New \/ Open \/ LoadFirmware \/ CaptureStart \/ CaptureStop \/ Delete
                \/ Succeeds \/ Fails

LifetimeSpec == LifetimeInit /\ [][LifetimeNext]_lifetime_vars

-----------------------------------------------------------------------------
\* Nothing is released twice, or without having been got, wherever a call fails and
\* whatever was called before (src/src/ov.c:79-92, 126-132, 323-327).
ReleasedOnce == wild = 0

\* Between calls none of the temporaries of a call is held: a load that fails half-way
\* does not leak.  After ov_free(), and after an ov_new() that failed, nothing is held,
\* but for the three things this code loses: the source of an archive that could not be
\* opened, the transfers of a capture whose start failed (src/src/ov.c:224), and the
\* handles of a device that was opened again after ov_open() had failed
\* (src/src/ov.c:79-92, 176, src/src/reg.c:123-131).
AllReleased ==
  /\ todo = << >> => \A o \in {"file", "text", "bits", "other"} : live[o] = 0
  /\ phase = "gone" =>
       \A o \in Objects :
         \/ live[o] = 0
         \/ o = "source" /\ "not opened" \in causes
         \/ o \in {"transfer", "buffer"} /\ "not started" \in causes
         \/ o \in {"usbA", "usbB"} /\ "opened again" \in causes
=============================================================================

------------------------------- MODULE RegMap -------------------------------
(***************************************************************************)
(* The register map of src/reg.c: map.txt of a package is read into a      *)
(* buffer, taken apart line by line and checked for completeness, first by *)
(* ov_new() and then by each ov_load_firmware(), which makes the map the   *)
(* one in use only when the firmware has been loaded.                      *)
(*                                                                         *)
(* A line is [kind, key, value]: "skip" for an empty line or a comment,    *)
(* "bare" for one without `=', or "pair".                                  *)
(***************************************************************************)
EXTENDS Integers, Sequences

CONSTANTS
  Names,    \* enum reg_name
  Files,    \* the texts of map.txt, as sequences of lines; also an empty one has a line
  MaxLoads  \* bound: calls of ov_new() and ov_load_firmware()

Skip == [kind |-> "skip", key |-> "", value |-> 0]
Bare == [kind |-> "bare", key |-> "", value |-> 0]

VARIABLES
  pc,      \* "new", "idle", "line", "validate", "load", "aborted" or "freed"
  text, n, \* the text that is read, and the line
  addr,    \* reg->addr
  inUse,   \* cha->reg.addr
  \* history
  source,  \* the text that the map in use is from
  ret,     \* what the last call returned
  loads

parser == <<text, n, addr>>
vars == <<pc, parser, inUse, source, ret, loads>>

Missing == 65535
NoAddr == [r \in Names |-> Missing]

Init ==
  /\ pc = "new" /\ text = << >> /\ n = 0 /\ addr = NoAddr /\ inUse = NoAddr
  /\ source = << >> /\ ret = 0 /\ loads = 0

\* A call fails: ov_new() frees what it has, ov_load_firmware() leaves the map alone.
Failed ==
  /\ ret' = -1
  /\ pc' = IF source = << >> THEN "freed" ELSE "idle"

-----------------------------------------------------------------------------
\* reg_init_from_fwpkg() reads the text of f into a buffer of fwpkg_map_size() + 1.  If
\* the archive does not know the size the sum wraps to 0, and nothing is read.
ReadText(f) ==
  /\ pc \in {"new", "idle"} /\ loads < MaxLoads /\ loads' = loads + 1
  /\ text' \in {f, <<Skip>>}
  /\ n' = 1 /\ addr' = NoAddr /\ pc' = "line"
  /\ UNCHANGED <<inUse, source, ret>>

Read == \E f \in Files : ReadText(f)

\* There is no memory for it, or it cannot be read.
ReadFails ==
  /\ pc \in {"new", "idle"} /\ loads < MaxLoads /\ loads' = loads + 1
  /\ Failed
  /\ UNCHANGED <<parser, inUse, source>>

line == text[n]

\* reg_from_line() and reg_from_pair() meet one of their assertions.
Asserts(l) == l.kind = "pair" /\ (l.key = "" \/ l.value >= Missing)

\* Mutant of Assigned: an address that has been set stays.
AssignedOnce ==
  IF line.kind = "pair" /\ line.key \in Names /\ addr[line.key] = Missing
    THEN [addr EXCEPT ![line.key] = line.value] ELSE addr

\* A name that is not in the table is passed over.
Assigned ==
  IF line.kind = "pair" /\ line.key \in Names
    THEN [addr EXCEPT ![line.key] = line.value] ELSE addr

\* reg_init_from_map()
ParseLine ==
  /\ pc = "line"
  /\ \/ /\ Asserts(line) /\ pc' = "aborted" /\ UNCHANGED <<addr, n, ret>>
     \/ /\ line.kind = "bare" /\ Failed /\ UNCHANGED <<addr, n>>
     \/ /\ ~Asserts(line) /\ line.kind # "bare" /\ addr' = Assigned
        /\ IF n < Len(text) THEN n' = n + 1 /\ UNCHANGED pc
           ELSE pc' = "validate" /\ UNCHANGED n
        /\ UNCHANGED ret
  /\ UNCHANGED <<text, inUse, source, loads>>

Complete == \A r \in Names : addr[r] # Missing

Use == inUse' = addr /\ source' = text /\ ret' = 0 /\ pc' = "idle"

\* reg_validate().  In ov_new() the map is in use at once.
Validate ==
  /\ pc = "validate"
  /\ \/ ~Complete /\ Failed /\ UNCHANGED <<inUse, source>>
     \/ Complete /\ source = << >> /\ Use
     \/ Complete /\ source # << >> /\ pc' = "load" /\ UNCHANGED <<inUse, source, ret>>
  /\ UNCHANGED <<parser, loads>>

\* ov_load_firmware() loads the bitstream and then takes over the map.
LoadFails == pc = "load" /\ Failed /\ UNCHANGED <<parser, inUse, source, loads>>

Load == LoadFails \/ (pc = "load" /\ Use /\ UNCHANGED <<parser, loads>>)

Next == Read \/ ReadFails \/ ParseLine \/ Validate \/ Load

Spec == Init /\ [][Next]_vars

-----------------------------------------------------------------------------
\* The lines of a text that give register r an address
LinesOf(t, r) == {i \in DOMAIN t : t[i].kind = "pair" /\ t[i].key = r}

\* At every moment of a session the host's map is that of one text, in which every
\* register has a line, and the last line of a register counts: an aborted or failed
\* load does not leave a part of the other map (src/src/ov.c:302-316).
InUseIsOfOneText ==
  source # << >> =>
    \A r \in Names : \E i \in LinesOf(source, r) :
      /\ \A j \in LinesOf(source, r) : j <= i
      /\ inUse[r] = source[i].value

=============================================================================

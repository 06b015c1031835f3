------------------------------ MODULE Package ------------------------------
(***************************************************************************)
(* The two files of a firmware package in one call: ov_load_firmware() of  *)
(* src/ov.c takes the register map apart (RegMap), then parses and sends   *)
(* the bitstream (BitParser), and only then brings the map into use.       *)
(* ov_new() reads just the map of its package.                             *)
(***************************************************************************)
EXTENDS BitParser

CONSTANTS
  Names,    \* enum reg_name
  Texts,    \* the texts of map.txt that ov_new() may find
  Packages, \* the packages that are loaded: a text and a bitstream
  MaxLoads  \* bound: calls of ov_new() and ov_load_firmware()

ASSUME PackagesAssumption ==
  LET AllTexts == Seq([kind : STRING, key : STRING, value : Nat]) \ {<< >>}
  IN  Texts \subseteq AllTexts /\ Packages \subseteq AllTexts \X Files

VARIABLES pc, text, n, addr, inUse, source, ret, loads  \* of RegMap

M == INSTANCE RegMap WITH Files <- Texts

map_vars == <<pc, text, n, addr, inUse, source, ret, loads>>
package_vars == <<vars, map_vars>>

\* Before the first load there is no bitstream.
PackageInit ==
  /\ M!Init
  /\ file = << >> /\ field = "header" /\ pos = 0 /\ size = 0
  /\ at = [k \in Strings |-> 0] /\ bit_length = 0 /\ sent = << >>

-----------------------------------------------------------------------------
\* The map is read first.  From the second call on there is a bitstream as well, that
\* of the same package.
ReadMap ==
  \/ /\ pc = "new" /\ M!Read /\ UNCHANGED vars
  \/ /\ pc = "idle"
     /\ \E p \in Packages :
          /\ M!ReadText(p[1])
          /\ file' = p[2] /\ field' = "header" /\ pos' = 0 /\ size' = Len(p[2])
          /\ at' = [k \in Strings |-> 0] /\ bit_length' = 0 /\ sent' = << >>

ReadMapFails == M!ReadFails /\ UNCHANGED vars

MapStep == (M!ParseLine \/ M!Validate) /\ UNCHANGED vars

\* ov_load_firmware_from_fwpkg() comes to the bitstream.
BitStep == pc = "load" /\ Next /\ UNCHANGED map_vars

\* The bitstream was sent, and the FPGA starts with it or not.
Sent == field = "sent" /\ M!Load /\ UNCHANGED vars

\* Mutant of Refused: what bit_init() returns is not looked at.
RefusedIgnored == field = "refused" /\ M!Load /\ UNCHANGED vars

Refused == field = "refused" /\ M!LoadFails /\ UNCHANGED vars

\* The bitstream could not be read, or the FPGA not be made ready for it.
NotSent == field \in {"header", "accepted"} /\ M!LoadFails /\ UNCHANGED vars

PackageNext ==
  ReadMap \/ ReadMapFails \/ MapStep \/ BitStep \/ Sent \/ Refused \/ NotSent

PackageSpec == PackageInit /\ [][PackageNext]_package_vars

-----------------------------------------------------------------------------
\* At every moment of a session the host's map is that of one text, in which every
\* register has a line, and the last line of a register counts: an aborted or failed
\* load does not leave a part of the other map (src/src/ov.c:302-316).
InUseIsOfOneText == M!InUseIsOfOneText

\* A map comes into use whole, by a call that succeeds, and but for that of ov_new()
\* only behind the bitstream of its package, which was well-formed and sent to its end
\* (src/src/ov.c:302-316, src/src/reg.c:57-92).
MapFollowsBits ==
  [][inUse' # inUse =>
       /\ ret' = 0 /\ pc' = "idle" /\ source' = text /\ M!Complete
       /\ source # << >> => WellFormed /\ field = "sent" /\ DataSent]_package_vars
=============================================================================

----------------------------- MODULE BitParser -----------------------------
(***************************************************************************)
(* bit_init() of src/bit.c: the parser of a .bit file, a field per step,   *)
(* and what bit_load_firmware() then sends of the file.  A file is a       *)
(* sequence of bytes; `pos' is how far bit->data has gone into it.         *)
(***************************************************************************)
EXTENDS Naturals, Sequences

CONSTANT Files  \* the files that are parsed

Byte == 0 .. 255

ASSUME FilesAssumption == Files \subseteq Seq(Byte)

VARIABLES
  file,
  field,       \* the field to parse next, or how the file was taken
  pos, size,   \* bit->data and bit->size
  at,          \* bit->ncd_filename, part_name, date and time: how far into the file
  bit_length,
  sent         \* what has been sent to the FPGA

vars == <<file, field, pos, size, at, bit_length, sent>>

header == <<0, 9, 15, 240, 15, 240, 15, 240, 15, 240, 0, 0, 1>>
Strings == {"a", "b", "c", "d"}
Key == [a |-> 97, b |-> 98, c |-> 99, d |-> 100, e |-> 101]
After == [a |-> "b", b |-> "c", c |-> "d", d |-> "e"]

data(i) == file[pos + i + 1]

Init ==
  /\ file \in Files /\ field = "header" /\ pos = 0 /\ size = Len(file)
  /\ at = [k \in Strings |-> 0] /\ bit_length = 0 /\ sent = << >>

Advance(n) == pos' = pos + n /\ size' = size - n

Refuse == field' = "refused"

-----------------------------------------------------------------------------
HeaderMatches == size >= Len(header) /\ SubSeq(file, pos + 1, pos + Len(header)) = header

\* bit_do_parse_field1_2()
ParseHeader ==
  /\ field = "header"
  /\ \/ HeaderMatches /\ Advance(Len(header)) /\ field' = "a"
     \/ ~HeaderMatches /\ Refuse /\ UNCHANGED <<pos, size>>
  /\ UNCHANGED <<file, at, bit_length, sent>>

\* A field begins here: its key and a length of w bytes
Begins(k, w) == size >= 1 + w /\ data(0) = Key[k]

Length16 == data(1) * 256 + data(2)
Length32 == ((data(1) * 256 + data(2)) * 256 + data(3)) * 256 + data(4)

\* Mutant of Fits: one byte more than there is.
FitsButOne(w, n) == size >= w + n

\* The n bytes the field has behind its key and its length are there.
Fits(w, n) == size >= 1 + w + n

\* bit_do_parse_field_str()
ParseStr(k) ==
  /\ field = k
  /\ \/ ~Begins(k, 2) /\ Refuse /\ UNCHANGED <<pos, size, at>>
     \/ Begins(k, 2) /\ ~Fits(2, Length16) /\ Refuse /\ Advance(3) /\ UNCHANGED at
     \/ /\ Begins(k, 2) /\ Fits(2, Length16)
        /\ Advance(3 + Length16) /\ field' = After[k]
        /\ at' = [at EXCEPT ![k] = pos + 3]
  /\ UNCHANGED <<file, bit_length, sent>>

\* bit_do_parse_field7().  The data stays where it is, of any length from here on.
ParseBits ==
  /\ field = "e"
  /\ \/ ~Begins("e", 4) /\ Refuse /\ UNCHANGED <<pos, size, bit_length>>
     \/ /\ Begins("e", 4) /\ Advance(5) /\ bit_length' = Length32
        /\ field' = IF Fits(4, Length32) THEN "accepted" ELSE "refused"
  /\ UNCHANGED <<file, at, sent>>

-----------------------------------------------------------------------------
\* The table of bitreverse8()
R2(n) == <<n, n + 2 * 64, n + 1 * 64, n + 3 * 64>>

\* Mutant of R4: in the order of the numbers.
R4Ascending(n) == R2(n) \o R2(n + 1 * 16) \o R2(n + 2 * 16) \o R2(n + 3 * 16)

R4(n) == R2(n) \o R2(n + 2 * 16) \o R2(n + 1 * 16) \o R2(n + 3 * 16)
R6(n) == R4(n) \o R4(n + 2 * 4) \o R4(n + 1 * 4) \o R4(n + 3 * 4)
map == R6(0) \o R6(2) \o R6(1) \o R6(3)

bitreverse8(x) == map[x + 1]

\* bit_load_firmware() sends bit->size bytes, not bit->bit_length.
Payload == [i \in 1 .. size |-> bitreverse8(data(i - 1))]

\* Without a byte to send there is no transfer, and ftdi_transfer_data_done() is
\* called with NULL.
Upload ==
  /\ field = "accepted"
  /\ sent' = Payload
  /\ field' = IF size = 0 THEN "NULL" ELSE "sent"
  /\ UNCHANGED <<file, pos, size, at, bit_length>>

Next == ParseHeader \/ (\E k \in Strings : ParseStr(k)) \/ ParseBits \/ Upload

Spec == Init /\ [][Next]_vars

-----------------------------------------------------------------------------
TypeOK ==
  /\ file \in Seq(Byte)
  /\ field \in Strings \cup {"header", "e", "accepted", "refused", "sent", "NULL"}
  /\ pos \in Nat /\ size \in Nat /\ at \in [Strings -> Nat] /\ bit_length \in Nat
  /\ sent \in Seq(Byte)

\* bit->size is at every moment what the file has from bit->data on, whatever is in
\* the file: so that its checks keep each read within it (src/src/bit.c:43-132).
SizeIsRest == pos + size = Len(file)

(***************************************************************************)
(* The format of http://www.fpga-faq.com/FAQ_Pages/0026_Tell_me_about_     *)
(* bit_files.htm, without a parser: the place of each field.               *)
(***************************************************************************)
End(p) == p + 3 + file[p + 1] * 256 + file[p + 2]

StringAt(p, k) == p + 2 <= Len(file) /\ file[p] = Key[k] /\ End(p) <= Len(file) + 1

DataAt(p, n) ==
  /\ p + 4 <= Len(file) /\ file[p] = Key["e"]
  /\ n = ((file[p + 1] * 256 + file[p + 2]) * 256 + file[p + 3]) * 256 + file[p + 4]
  /\ p + 4 + n <= Len(file)

a == Len(header) + 1
b == End(a)
c == End(b)
d == End(c)
e == End(d)

WellFormed ==
  /\ Len(header) <= Len(file) /\ SubSeq(file, 1, Len(header)) = header
  /\ StringAt(a, "a") /\ StringAt(b, "b") /\ StringAt(c, "c") /\ StringAt(d, "d")
  /\ \E n \in 0 .. Len(file) : DataAt(e, n)

\* Exactly the well-formed files are accepted, with each field where it is
\* (src/src/bit.c:137-155).
AcceptsFormat ==
  /\ field = "refused" => ~WellFormed
  /\ field \in {"accepted", "sent", "NULL"} =>
       /\ WellFormed /\ DataAt(e, bit_length)
       /\ at = [a |-> a + 2, b |-> b + 2, c |-> c + 2, d |-> d + 2]

\* Bit k of x, from the lowest
Bit(x, k) == (x \div <<1, 2, 4, 8, 16, 32, 64, 128>>[k + 1]) % 2

\* What is sent is the end of the file, behind the length of the data and at least as
\* long as that says, the bits of each byte reversed.  Nothing can be sent only if the
\* file says that there is no data (src/src/bit.c:168-192).
DataSent ==
  field \in {"sent", "NULL"} =>
    /\ Len(sent) = Len(file) - (e + 4) /\ Len(sent) >= bit_length
    /\ \A i \in DOMAIN sent, k \in 0 .. 7 : Bit(sent[i], k) = Bit(file[e + 4 + i], 7 - k)
=============================================================================

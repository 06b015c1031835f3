----------------------------- MODULE ChaMessage -----------------------------
(***************************************************************************)
(* The messages host and FPGA exchange on channel A, as src/cha.c builds   *)
(* them: 0x55, a register's address in two bytes, a value, a checksum.     *)
(***************************************************************************)
EXTENDS Naturals, Sequences

Byte == 0 .. 255

\* cha_transaction_checksum(buf, 4): a sum in uint8_t
Checksum(b) == (b[1] + b[2] + b[3] + b[4]) % 256

\* addr | 0x8000 asks for a write.
WriteBit == 32768

Message(addr, val) ==
  LET head == <<85, addr \div 256, addr % 256, val>>
  IN  Append(head, Checksum(head))
=============================================================================

----------------------------- MODULE MCPackage -----------------------------
(***************************************************************************)
(* Two registers, and every text of up to three lines of nine kinds, with  *)
(* a bitstream that is well-formed; and one text with bitstreams made of a *)
(* header, four strings and the data, with something wrong in some of them *)
(* or in none, and cut off anywhere.                                       *)
(***************************************************************************)
EXTENDS Package

NoPair(kind) == [kind |-> kind, key |-> "", value |-> 0]
Pair(k, v) == [kind |-> "pair", key |-> k, value |-> v]

Lines ==
  {NoPair("skip"), NoPair("bare"), Pair("", 1), Pair("GO", 1), Pair("GO", 2), Pair("GO", 65536),
   Pair("CFG", 1), Pair("CFG", 65534), Pair("OTHER", 1)}

TextsOf(lengths) == UNION {[1 .. k -> Lines] : k \in lengths}
MCTexts == TextsOf(1 .. 2)

\* A string field with key k, empty or of a byte, and whole; then one that declares a
\* byte or 256 more than it has, and one with another key
Whole(k) == {<<k, 0, 0>>, <<k, 0, 1, 0>>}
Odd(k) == Whole(k) \cup {<<k, 0, 1>>, <<k, 1, 0>>, <<k + 1, 0, 0>>}

\* The data field: k bytes are declared, and those of s are there.
DataField(k, s) == <<101, 0, 0, 0, k>> \o s

Built(hs, A, B, C, D, E) ==
  {h \o f[1] \o f[2] \o f[3] \o f[4] \o f[5] : h \in hs, f \in A \X B \X C \X D \X E}

\* Strings with mistakes
Mistaken ==
  Built({header}, Odd(97), Odd(98), Odd(99), Odd(100), {DataField(1, <<7>>)})
  \cup Built({[header EXCEPT ![13] = 0]}, Whole(97), Whole(98), Whole(99), Whole(100), {DataField(1, <<7>>)})

\* Data with mistakes, and more of it than declared
Datas == {DataField(k, s) : k \in 0 .. 2, s \in {<< >>, <<7>>, <<7, 9>>}}
         \cup {<<102, 0, 0, 0, 0>>, <<101, 1, 0, 0, 0, 7>>, <<101, 0, 1, 0, 0, 7>>, <<101, 0, 0, 1, 0, 7>>}

Bits == Built({header}, Whole(97), Whole(98), {<<99, 0, 0>>}, {<<100, 0, 1, 0>>}, Datas)

\* Every byte as data
Bytes == Built({header}, {<<97, 0, 0>>}, {<<98, 0, 0>>}, {<<99, 0, 0>>}, {<<100, 0, 0>>},
               {DataField(1, <<x>>) : x \in Byte})

Cut == UNION {{SubSeq(f, 1, k) : k \in 1 .. Len(f) - 1} : f \in Bits}

MCFiles == Mistaken \cup Bits \cup Bytes \cup Cut

MCPackages ==
  (TextsOf(1 .. 3) \X Built({header}, {<<97, 0, 0>>}, {<<98, 0, 0>>}, {<<99, 0, 0>>}, {<<100, 0, 0>>},
                    {DataField(1, <<7>>)}))
  \cup ({<<Pair("GO", 2), Pair("CFG", 1)>>} \X MCFiles)
=============================================================================

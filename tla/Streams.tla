------------------------------- MODULE Streams -------------------------------
(***************************************************************************)
(* Buffered input (lzio.c) and the readers that feed it (lauxlib.c,        *)
(* lbaselib.c).  A stream z takes the pieces its reader gives one after    *)
(* the other; piece is the current one, i the position of the next byte    *)
(* and n the bytes left, where -1 is what decrementing an unsigned 0       *)
(* gives.  past tells that something outside a piece was read.             *)
(***************************************************************************)
EXTENDS Integers, SequencesExt

EOZ == -1
SIZE_MAX == -1

luaZ_init(pieces) == [piece |-> <<>>, i |-> 1, n |-> 0, pieces |-> pieces, past |-> FALSE]

(* The next piece; an empty one is the end.                                *)
luaZ_fill(z) ==
  IF z.pieces = <<>> THEN [z |-> z, c |-> EOZ]
  ELSE LET piece == Head(z.pieces)
       IN  IF piece = <<>> THEN [z |-> [z EXCEPT !.pieces = Tail(@)], c |-> EOZ]
           ELSE [z |-> [z EXCEPT !.piece = piece, !.i = 2, !.n = Len(piece) - 1, !.pieces = Tail(@)], c |-> piece[1]]

(* The counter is taken down before it is known whether a byte is left.    *)
zgetc(z) ==
  IF z.n > 0 THEN [z |-> [z EXCEPT !.n = @ - 1, !.i = @ + 1], c |-> z.piece[z.i]]
  ELSE IF z.n = SIZE_MAX THEN [z |-> [z EXCEPT !.past = TRUE], c |-> EOZ]
  ELSE luaZ_fill([z EXCEPT !.n = SIZE_MAX])

(* The byte that filling took is not put back.                             *)
Faultycheckbuffer(z) ==
  IF z.n # 0 THEN [z |-> z, c |-> 0]
  ELSE LET f == luaZ_fill(z) IN f

checkbuffer(z) ==
  IF z.n # 0 THEN [z |-> z, c |-> 0]
  ELSE LET f == luaZ_fill(z)
       IN  IF f.c = EOZ THEN f ELSE [f EXCEPT !.z.n = @ + 1, !.z.i = @ - 1]

(* n bytes: b has the ones there were.                                     *)
RECURSIVE luaZ_read(_, _)
luaZ_read(z, n) ==
  IF n = 0 THEN [z |-> z, b |-> <<>>]
  ELSE LET f == checkbuffer(z)
           m == IF f.z.n < n THEN f.z.n ELSE n
           rest == luaZ_read([f.z EXCEPT !.n = @ - m, !.i = @ + m], n - m)
       IN  IF f.c = EOZ THEN [z |-> f.z, b |-> <<>>]
           ELSE [z |-> rest.z, b |-> SubSeq(f.z.piece, f.z.i, f.z.i + m - 1) \o rest.b]

(* n bytes that stand together in the current piece, or none.              *)
luaZ_getaddr(z, n) ==
  LET f == checkbuffer(z)
  IN  IF f.c = EOZ \/ f.z.n < n THEN [z |-> f.z, b |-> <<>>, whole |-> FALSE]
      ELSE [z |-> [f.z EXCEPT !.n = @ - n, !.i = @ + n], b |-> SubSeq(f.z.piece, f.z.i, f.z.i + n - 1), whole |-> TRUE]

-----------------------------------------------------------------------------
(* Readers: from what is loaded to the pieces that lua_load gets.          *)

getS(s) == IF s = <<>> THEN <<>> ELSE <<s>>
(* Results of the reader function: a nil (NoPiece) ends it.                *)
NoPiece == <<EOZ>>
RECURSIVE generic_reader(_)
generic_reader(results) ==
  IF results = <<>> \/ Head(results) = NoPiece THEN <<>> ELSE <<Head(results)>> \o generic_reader(Tail(results))

(* Files: the characters of the model that matter to skipcomment.          *)
BOM == <<239, 187, 191>>
NEWLINE == 10
HASH == 35
SIGNATURE == 27
EOF == -1

Char(f, i) == IF i \in DOMAIN f THEN f[i] ELSE EOF
(* Each gives the character c it read last and the position after it.  A   *)
(* BOM that is not complete is lost but for its first character.           *)
skipBOM(f) ==
  LET matched == CHOOSE k \in 0 .. 3 : /\ \A j \in 1 .. k : Char(f, j) = BOM[j]
                                       /\ k < 3 => Char(f, k + 1) # BOM[k + 1]
  IN  IF matched = 3 THEN [c |-> Char(f, 4), next |-> 5] ELSE [c |-> Char(f, 1), next |-> matched + 2]
skipcomment(f) ==
  LET first == skipBOM(f)
      ends == {i \in first.next .. Len(f) : f[i] = NEWLINE}
      end == IF ends = {} THEN Len(f) + 1 ELSE CHOOSE i \in ends : \A j \in ends : i <= j
  IN  IF first.c # HASH THEN [c |-> first.c, next |-> first.next, comment |-> FALSE]
      ELSE [c |-> Char(f, end + 1), next |-> end + 2, comment |-> TRUE]

(* The newline in place of a comment is kept for binary files.             *)
FaultyPreread(f) ==
  LET s == skipcomment(f)
  IN  (IF s.comment THEN <<NEWLINE>> ELSE <<>>) \o (IF s.c = EOF THEN <<>> ELSE <<s.c>>)

(* The characters in the buffer before the file is read in blocks.         *)
Preread(f) ==
  LET s == skipcomment(f)
  IN  (IF s.comment /\ s.c # SIGNATURE THEN <<NEWLINE>> ELSE <<>>) \o (IF s.c = EOF THEN <<>> ELSE <<s.c>>)

RECURSIVE Blocks(_, _)
Blocks(s, size) == IF s = <<>> THEN <<>>
                   ELSE IF Len(s) <= size THEN <<s>>
                   ELSE <<SubSeq(s, 1, size)>> \o Blocks(SubSeq(s, size + 1, Len(s)), size)
getF(f, size) ==
  LET pre == Preread(f)
  IN  (IF pre = <<>> THEN <<>> ELSE <<pre>>) \o Blocks(SubSeq(f, skipcomment(f).next, Len(f)), size)
luaL_loadfilex(f, size) == luaZ_init(getF(f, size))
luaL_loadbufferx(s) == luaZ_init(getS(s))
luaB_load(results) == luaZ_init(generic_reader(results))

-----------------------------------------------------------------------------
(* All that a stream gives, byte by byte.                                  *)
RECURSIVE Contents(_)
Contents(z) == LET g == zgetc(z) IN IF g.c = EOZ THEN <<>> ELSE <<g.c>> \o Contents(g.z)
=============================================================================

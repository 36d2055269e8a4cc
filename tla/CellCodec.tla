----------------------------- MODULE CellCodec -----------------------------
(***************************************************************************)
(* How pkg/ccip/bindings/common lays lists and byte arrays out in cells.   *)
(*                                                                         *)
(* A cell has up to 1023 bits and 4 references.  Its bits are modelled as  *)
(* the sequence of the fields stored in it, each with the width it takes   *)
(* there, so that what fits into a cell is what fits in the code.          *)
(***************************************************************************)
EXTENDS Integers, SequencesExt

CELL_BITS == 1023
CELL_REFS == 4

EmptyCell == [bits |-> << >>, refs |-> << >>]

BitsSize(bits) == FoldLeft(LAMBDA n, field : n + field.width, 0, bits)

\* EndCell and the Store functions of the builder fail beyond these limits.
RECURSIVE Fits(_)
Fits(cell) ==
    /\ BitsSize(cell.bits) <= CELL_BITS
    /\ Len(cell.refs) <= CELL_REFS
    /\ \A i \in DOMAIN cell.refs : Fits(cell.refs[i])

Bytes(data) == IF data = << >> THEN << >> ELSE <<[value |-> data, width |-> 8 * Len(data)]>>

(***************************************************************************)
(* Structures, by the tlb tags of their fields.                            *)
(***************************************************************************)
Width == [u32 |-> 32, u64 |-> 64, u256 |-> 256, bits256 |-> 256,
          addr |-> 267, bool |-> 1, magic |-> 32]

\* Coins are a length of 4 bits and as many bytes as the number needs.  Bound:
\* numbers of at most COIN_BYTES bytes, of the 15 there can be.
COIN_BYTES == 3
CoinsWidth(n) == 4 + 8 * (CHOOSE k \in 0 .. COIN_BYTES : n < 256 ^ k /\ \A j \in 0 .. k - 1 : n >= 256 ^ j)

\* A byte for the length, then the address.
CrossChainAddress(addr) == <<[value |-> Len(addr), width |-> 8]>> \o Bytes(addr)

ValidCrossChainAddress(addr) == Len(addr) \in 1 .. 64

\* As many bytes as the length says.
LoadCrossChainAddress(bits) ==
    [value |-> SubSeq(bits[2].value, 1, bits[1].value), rest |-> SubSeq(bits, 3, Len(bits))]

StoreField(tag, value) ==
    CASE tag = "xaddr" -> CrossChainAddress(value)
      [] tag = "coins" -> <<[value |-> value, width |-> CoinsWidth(value)]>>
      [] OTHER -> <<[value |-> value, width |-> Width[tag]]>>

LoadField(tag, bits) ==
    IF tag = "xaddr" THEN LoadCrossChainAddress(bits)
    ELSE [value |-> Head(bits).value, rest |-> Tail(bits)]

StoreStruct(tags, values) == FlattenSeq([i \in DOMAIN tags |-> StoreField(tags[i], values[i])])

RECURSIVE LoadStruct(_, _)
LoadStruct(tags, bits) ==
    IF tags = << >> THEN [values |-> << >>, rest |-> bits]
    ELSE LET field == LoadField(Head(tags), bits)
             others == LoadStruct(Tail(tags), field.rest)
         IN  [values |-> <<field.value>> \o others.values, rest |-> others.rest]

(***************************************************************************)
(* Lists and byte arrays that span cells.                                  *)
(***************************************************************************)
\* Each builder but the last gets a reference to the cell after it.
Link(builders) ==
    LET cellAt[i \in DOMAIN builders] ==
            IF i = Len(builders) THEN builders[i]
            ELSE [builders[i] EXCEPT !.refs = Append(@, cellAt[i + 1])]
    IN  cellAt[1]

MutChainsWhenFull(elements) ==
    Link(FoldLeft(LAMBDA builders, element :
                    IF Len(Last(builders).refs) = CELL_REFS
                    THEN Append(builders, [EmptyCell EXCEPT !.refs = <<element>>])
                    ELSE [builders EXCEPT ![Len(builders)].refs = Append(@, element)],
                  <<EmptyCell>>, elements))

\* The last reference of a cell is kept for the chain.
packArrayWithRefChaining(elements) ==
    Link(FoldLeft(LAMBDA builders, element :
                    IF CELL_REFS - Len(Last(builders).refs) = 1
                    THEN Append(builders, [EmptyCell EXCEPT !.refs = <<element>>])
                    ELSE [builders EXCEPT ![Len(builders)].refs = Append(@, element)],
                  <<EmptyCell>>, elements))

RECURSIVE unpackArrayWithRefChaining(_)
unpackArrayWithRefChaining(root) ==
    IF Len(root.refs) < CELL_REFS THEN root.refs
    ELSE Front(root.refs) \o unpackArrayWithRefChaining(Last(root.refs))

\* An element that does not fit starts a new cell.  The elements of these
\* lists have no references.
packArrayWithStaticType(elements) ==
    Link(FoldLeft(LAMBDA builders, element :
                    IF BitsSize(element) > CELL_BITS - BitsSize(Last(builders).bits)
                    THEN Append(builders, [EmptyCell EXCEPT !.bits = element])
                    ELSE [builders EXCEPT ![Len(builders)].bits = @ \o element],
                  <<EmptyCell>>, elements))

RECURSIVE LoadElements(_, _)
LoadElements(tags, bits) ==
    IF bits = << >> THEN << >>
    ELSE LET element == LoadStruct(tags, bits)
         IN  <<element.values>> \o LoadElements(tags, element.rest)

RECURSIVE unpackArrayWithStaticType(_, _)
unpackArrayWithStaticType(tags, root) ==
    LoadElements(tags, root.bits)
        \o (IF root.refs = << >> THEN << >> ELSE unpackArrayWithStaticType(tags, root.refs[1]))

BytesFit == CELL_BITS \div 8

\* As many whole bytes per cell as fit; an empty array is an empty cell.
packByteArrayToCell(data) ==
    LET cells == IF data = << >> THEN 1 ELSE (Len(data) + BytesFit - 1) \div BytesFit
        part(i) == SubSeq(data, (i - 1) * BytesFit + 1, IF i * BytesFit < Len(data) THEN i * BytesFit ELSE Len(data))
    IN  Link([i \in 1 .. cells |-> [EmptyCell EXCEPT !.bits = Bytes(part(i))]])

RECURSIVE unloadCellToByteArray(_)
unloadCellToByteArray(cell) ==
    (IF cell.bits = << >> THEN << >> ELSE cell.bits[1].value)
        \o (IF cell.refs = << >> THEN << >> ELSE unloadCellToByteArray(cell.refs[1]))

=============================================================================

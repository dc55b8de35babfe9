---------------------------- MODULE ScipDocument ----------------------------
(* The documents of compiler indexes, as messages of the wire format and as   *)
(* the records imported from them (scipindex/protobuf.go, parse.go, seal.go,  *)
(* extract.go).                                                               *)
(*                                                                            *)
(* A message is a sequence of fields <<number, wire type, value>>; a value is *)
(* a number, a string or a message.  One document after another is sealed     *)
(* when RKC had it generated, and imported; whatever does not fit ends the    *)
(* import.  A source is a sequence of lines, each a sequence of the widths of *)
(* its code points in bytes and the width of what ends it.                    *)
EXTENDS Integers, FiniteSets, SequencesExt

CONSTANTS
  Imports,   \* what may be imported: sequences of [path, auth, seal, message]
  Source,    \* the lines of each path
  Local,     \* the symbols that are local to their document
  Encoding   \* the encoding of the pinned indexer's positions

VARIABLES
  given,     \* the documents still to come
  taken,     \* those imported, as they were after sealing
  symbols,   \* the nodes: symbol to its kind and authority
  links,     \* the edges
  spans      \* the source ranges of occurrences

importing == <<given, taken, symbols, links, spans>>

NoSymbols == [x \in {} |-> 0]

DocumentInit == given \in Imports /\ taken = << >> /\ symbols = NoSymbols /\ links = {} /\ spans = {}

-----------------------------------------------------------------------------
(* Messages.                                                                  *)
No(field) == field[1]
Wire(field) == field[2]
Value(field) == field[3]

DocumentTypes == [n \in 1..6 |-> IF n = 6 THEN {0} ELSE {2}]
OccurrenceTypes == [n \in 1..11 |-> IF n \in {1, 7} THEN {0, 2} ELSE IF n \in {3, 5} THEN {0} ELSE {2}]
SymbolTypes == [n \in {1, 3, 4, 5, 6, 7, 8} |-> IF n = 5 THEN {0} ELSE {2}]
RelationTypes == [n \in 1..5 |-> IF n = 1 THEN {2} ELSE {0}]

\* wireReader.skip: an unknown field is passed over if its end can be told.
Skippable == {0, 1, 2, 5}

WellTyped(m, types) ==
  \A i \in DOMAIN m : Wire(m[i]) \in (IF No(m[i]) \in DOMAIN types THEN types[No(m[i])] ELSE Skippable)

Has(m, n) == \E i \in DOMAIN m : No(m[i]) = n

\* Of a field that is there more than once the last counts; a repeated one
\* grows.
Last1(m, n, default) == FoldLeft(LAMBDA v, f : IF No(f) = n THEN Value(f) ELSE v, default, m)
All(m, n) == FoldLeft(LAMBDA vs, f : IF No(f) = n THEN Append(vs, Value(f)) ELSE vs, << >>, m)

\* A repeated number is given one by one, or packed.
Numbers(m, n) ==
  FoldLeft(LAMBDA vs, f : IF No(f) # n THEN vs ELSE IF Wire(f) = 0 THEN Append(vs, Value(f)) ELSE vs \o Value(f), << >>, m)

ParsesRelation(r) == WellTyped(r, RelationTypes)
ParsesSymbol(s) == WellTyped(s, SymbolTypes) /\ \A i \in DOMAIN All(s, 4) : ParsesRelation(All(s, 4)[i])
ParsesOccurrence(o) == WellTyped(o, OccurrenceTypes) /\ Len(Numbers(o, 1)) <= 4 /\ Len(Numbers(o, 7)) <= 4
Parses(m) ==
  /\ WellTyped(m, DocumentTypes)
  /\ \A i \in DOMAIN All(m, 2) : ParsesOccurrence(All(m, 2)[i])
  /\ \A i \in DOMAIN All(m, 3) : ParsesSymbol(All(m, 3)[i])

-----------------------------------------------------------------------------
(* Ranges: <<start line, start character, end line, end character>>.          *)
NoRange == << >>
Bad == <<-1>>

ValidPosition(r) ==
  /\ \A i \in 1..4 : r[i] >= 0
  /\ r[3] > r[1] \/ (r[3] = r[1] /\ r[4] >= r[2])

LegacyRange(v) ==
  LET r == IF Len(v) = 3 THEN <<v[1], v[2], v[1], v[3]>> ELSE v IN
  IF v = << >> THEN NoRange ELSE IF Len(v) \in {3, 4} /\ ValidPosition(r) THEN r ELSE Bad

\* The typed range, of one line or of several, before the legacy one.
RangeOf(o, legacy, line, lines) ==
  LET typed == FoldLeft(LAMBDA v, f : IF No(f) = line THEN <<Value(f)[1], Value(f)[2], Value(f)[1], Value(f)[3]>>
                                      ELSE IF No(f) = lines THEN Value(f) ELSE v, NoRange, o)
  IN IF typed = NoRange THEN LegacyRange(Numbers(o, legacy)) ELSE IF ValidPosition(typed) THEN typed ELSE Bad

OccurrenceRange(o) == RangeOf(o, 1, 8, 9)
EnclosingRange(o) == RangeOf(o, 7, 10, 11)

-----------------------------------------------------------------------------
(* From a position, whose character counts bytes, UTF-16 units or code        *)
(* points, to a byte of the file.                                             *)
Units(encoding, width) == CASE encoding = 1 -> width [] encoding = 2 -> (IF width = 4 THEN 2 ELSE 1) [] encoding = 3 -> 1

Bytes(runes) == FoldLeft(LAMBDA n, w : n + w, 0, runes)
LineStart(lines, k) == FoldLeft(LAMBDA n, line : n + Bytes(line.runes) + line.eol, 0, SubSeq(lines, 1, k))

\* The walk along the line stops at the unit, or is past it: a position inside a
\* code point.
ByteOffset(lines, encoding, k, character) ==
  LET walk(at, w) ==
        IF at.found \/ at.units > character THEN at
        ELSE IF at.units = character THEN [at EXCEPT !.found = TRUE]
        ELSE [at EXCEPT !.units = @ + Units(encoding, w), !.offset = @ + w]
      end == FoldLeft(walk, [units |-> 0, offset |-> 0, found |-> FALSE], lines[k + 1].runes)
  IN IF k + 1 > Len(lines) THEN -1
     ELSE IF end.found \/ end.units = character THEN LineStart(lines, k) + end.offset ELSE -1

SourceRange(lines, encoding, r) ==
  <<ByteOffset(lines, encoding, r[1], r[2]), ByteOffset(lines, encoding, r[3], r[4])>>

-----------------------------------------------------------------------------
(* Sealing.                                                                   *)

\* applyDefaultPositionEncoding: one field at most, zero or absent.
Defaulted(m) ==
  IF Last1(m, 6, 0) # 0 THEN m
  ELSE IF Has(m, 6) THEN [i \in DOMAIN m |-> IF No(m[i]) = 6 THEN <<6, 0, Encoding>> ELSE m[i]] ELSE Append(m, <<6, 0, Encoding>>)

\* sealDocumentSource: the text the compiler gave is the source's, or the
\* source is put at the end.
Sealable(d) ==
  /\ Parses(d.message)
  /\ Last1(d.message, 6, 0) = 0 => Len(All(d.message, 6)) <= 1
  /\ Has(d.message, 5) => Last1(d.message, 5, "") = d.path

Seal(d) ==
  LET m == Defaulted(d.message) IN
  [d EXCEPT !.message = IF Has(m, 5) THEN m ELSE Append(m, <<5, 2, d.path>>), !.seal = FALSE]

-----------------------------------------------------------------------------
(* Importing a document.                                                      *)
Definition == 1
Import == 2
WriteRole == 4
Read == 8
HasRole(roles, role) == (roles \div role) % 2 = 1

Kinds(roles) ==
  LET some == {k \in {<<Import, "imports">>, <<WriteRole, "writes">>, <<Read, "reads">>} : HasRole(roles, k[1])}
  IN IF some = {} THEN {"references"} ELSE {k[2] : k \in some}

\* nodeID: a local symbol is of its document.
NodeId(path, symbol) == IF symbol \in Local THEN <<path, symbol>> ELSE <<symbol>>

Occurrences(d) == All(d.message, 2)
Defs(d) ==
  SelectSeq(Occurrences(d), LAMBDA o : HasRole(Last1(o, 3, 0), Definition) /\ Last1(o, 2, "") # "" /\ OccurrenceRange(o) # NoRange)

Container(o) == IF EnclosingRange(o) # NoRange THEN EnclosingRange(o) ELSE OccurrenceRange(o)

NotAfter(l, c, line, character) == l < line \/ (l = line /\ c <= character)
Encloses(c, r) == NotAfter(c[1], c[2], r[1], r[2]) /\ NotAfter(r[3], r[4], c[3], c[4])
Smaller(a, b) == a[3] - a[1] < b[3] - b[1] \/ (a[3] - a[1] = b[3] - b[1] /\ a[4] - a[2] < b[4] - b[2])

\* owningDefinition: the definition with the smallest range around the place.
Owner(d, r) ==
  FoldLeft(LAMBDA best, o : IF Encloses(Container(o), r) /\ (best = << >> \/ Smaller(Container(o), Container(best))) THEN o ELSE best,
           << >>, Defs(d))
From(d, o) ==
  LET r == OccurrenceRange(o) owner == Owner(d, r)
  IN IF r = NoRange \/ owner = << >> THEN <<d.path>> ELSE NodeId(d.path, Last1(owner, 2, ""))

\* The kinds of symbols and of syntax as numbers of the format, and what they
\* are here.
SymbolNumbers ==
  [class |-> {7, 62, 75}, interface |-> {21, 42, 56, 86}, trait |-> {53, 85}, enum |-> {11}, enum_member |-> {12},
   function |-> {2, 5, 17, 19, 23, 24, 25, 34, 39, 40, 43, 50, 51, 64, 65}, constructor |-> {9}, field |-> {15, 77, 79},
   method |-> {18, 26, 45, 47, 74, 76, 80} \cup 66..72, property |-> {22, 41, 81}, constant |-> {8},
   parameter |-> {27, 37, 38, 44, 52}, event |-> {13, 78}, message |-> {28}, module |-> {29}, namespace |-> {30},
   package |-> {35, 36}, file |-> {16}, type |-> {1, 3, 6, 10, 31, 32, 33, 46, 48, 49, 54, 55, 57, 58, 59, 63, 73},
   variable |-> {4, 14, 20, 60, 61, 82}]
SyntaxNumbers ==
  [namespace |-> {14}, function |-> 15..18, type |-> {19, 20}, constant |-> {9}, variable |-> 10..13]

Unresolved == "unresolved_symbol"
KindOf(numbers, n) ==
  LET named == {k \in DOMAIN numbers : n \in numbers[k]} IN IF named = {} THEN Unresolved ELSE CHOOSE k \in named : TRUE
SymbolKind(n) == KindOf(SymbolNumbers, n)
SyntaxKind(n) == KindOf(SyntaxNumbers, n)

\* upsertNode: the first kind that is known stays, the stronger authority wins.
Upsert(table, id, kind, auth) ==
  LET node == IF id \in DOMAIN table
              THEN [kind |-> IF table[id].kind = Unresolved THEN kind ELSE table[id].kind, auth |-> table[id].auth \/ auth]
              ELSE [kind |-> kind, auth |-> auth]
  IN [x \in DOMAIN table \cup {id} |-> IF x = id THEN node ELSE table[x]]

\* ensureSymbol leaves a node that is there alone.
Ensure(table, id, syntax, auth) == IF id \in DOMAIN table THEN table ELSE Upsert(table, id, SyntaxKind(syntax), auth)

\* addEdge: an edge that is there gains authority, and never loses it.
Edge(kind, from, to, auth) == [kind |-> kind, from |-> from, to |-> to, auth |-> auth]
Merge(edges, new) ==
  LET plain(e) == [e EXCEPT !.auth = FALSE] all == {e \in edges \cup new : e.from # e.to}
  IN {[e EXCEPT !.auth = \E x \in all : plain(x) = plain(e) /\ x.auth] : e \in all}

Related(relation) ==
  {pair[2] : pair \in {p \in {<<2, "related_to">>, <<3, "implements">>, <<4, "related_to">>, <<5, "aliases">>} : Last1(relation, p[1], 0) # 0}}

\* addSymbol: the symbol, its parent and what it is related to.
AddSymbol(d, state, s) ==
  LET id == NodeId(d.path, Last1(s, 1, ""))
      outer == Last1(s, 8, "")
      parent == IF outer = "" THEN <<d.path>> ELSE NodeId(d.path, outer)
      named == SelectSeq(All(s, 4), LAMBDA r : Last1(r, 1, "") # "")
      target(i) == NodeId(d.path, Last1(named[i], 1, ""))
      first == Upsert(state.symbols, id, SymbolKind(Last1(s, 5, 0)), d.auth)
      second == IF outer = "" THEN first ELSE Ensure(first, parent, 0, d.auth)
  IN IF Last1(s, 1, "") = "" THEN state
     ELSE [state EXCEPT !.symbols = FoldLeft(LAMBDA t, r : Ensure(t, NodeId(d.path, Last1(r, 1, "")), 0, d.auth), second, named),
                        !.links = Merge(@, {Edge("contains", parent, id, d.auth)}
                                           \cup UNION {{Edge(k, id, target(i), d.auth) : k \in Related(named[i])} : i \in DOMAIN named})]

\* addOccurrence: the symbol is known from then on; unless it is defined there,
\* the definition around the place refers to it.
AddOccurrence(d, state, o) ==
  LET id == NodeId(d.path, Last1(o, 2, "")) roles == Last1(o, 3, 0) r == OccurrenceRange(o)
      span == IF r = NoRange THEN {} ELSE {[path |-> d.path, encoding |-> Last1(d.message, 6, 0), range |-> r,
                                            bytes |-> SourceRange(Source[d.path], Last1(d.message, 6, 0), r)]}
  IN IF Last1(o, 2, "") = "" THEN [state EXCEPT !.spans = @ \cup span]
     ELSE [symbols |-> Ensure(state.symbols, id, Last1(o, 5, 0), d.auth), spans |-> state.spans \cup span,
           links |-> IF HasRole(roles, Definition) THEN state.links
                     ELSE Merge(state.links, {Edge(k, From(d, o), id, d.auth) : k \in Kinds(roles)})]

\* extractDocument: the text is the inventoried source, positions can be told,
\* and every range of an occurrence, or around a definition, is one.
Importable(d, before) ==
  LET m == d.message encoding == Last1(m, 6, 0) occurrences == All(m, 2) IN
  /\ Parses(m)
  /\ \A i \in DOMAIN before : before[i].index = d.index => before[i].path # d.path
  /\ Has(m, 5) /\ Last1(m, 5, "") = d.path
  /\ occurrences # << >> => encoding \in 1..3
  /\ \A i \in DOMAIN occurrences :
       LET r == OccurrenceRange(occurrences[i]) IN
       r # Bad /\ (r # NoRange => LET b == SourceRange(Source[d.path], encoding, r) IN b[1] >= 0 /\ b[2] >= b[1])
  /\ \A o \in ToSet(Defs(d)) : EnclosingRange(o) # Bad

Sealing ==
  /\ given # << >> /\ given[1].seal
  /\ IF Sealable(given[1]) THEN given' = <<Seal(given[1])>> \o Tail(given) ELSE given' = << >>
  /\ UNCHANGED <<taken, symbols, links, spans>>

Importing ==
  LET d == given[1]
      named == FoldLeft(LAMBDA state, s : AddSymbol(d, state, s), [symbols |-> symbols, links |-> links, spans |-> spans], All(d.message, 3))
      all == FoldLeft(LAMBDA state, o : AddOccurrence(d, state, o), named, Occurrences(d))
  IN /\ given # << >> /\ ~d.seal
     /\ IF Importable(d, taken)
        THEN /\ given' = Tail(given) /\ taken' = Append(taken, d)
             /\ symbols' = all.symbols /\ links' = all.links /\ spans' = all.spans
        ELSE given' = << >> /\ taken' = << >> /\ symbols' = NoSymbols /\ links' = {} /\ spans' = {}

DocumentNext == Sealing \/ Importing

-----------------------------------------------------------------------------
\* A range that was imported starts and ends between code points, with as many
\* units before it on its line as the position says (extract.go:1077).
Prefix(lines, k, offset) ==
  CHOOSE n \in 0..Len(lines[k + 1].runes) : LineStart(lines, k) + Bytes(SubSeq(lines[k + 1].runes, 1, n)) = offset
Counted(encoding, runes) ==
  CASE encoding = 1 -> Bytes(runes) [] encoding = 2 -> Len(runes) + Len(SelectSeq(runes, LAMBDA w : w = 4)) [] encoding = 3 -> Len(runes)
SpansExact ==
  \A s \in spans : \A end \in 1..2 :
    LET lines == Source[s.path] k == s.range[2 * end - 1] runes == lines[k + 1].runes
        n == Prefix(lines, k, s.bytes[end])
    IN /\ n \in 0..Len(runes)
       /\ Counted(s.encoding, SubSeq(runes, 1, n)) = s.range[2 * end]

\* An occurrence belongs to a definition around it that has no other such
\* definition within (extract.go:855).
OwnerInnermost ==
  \A i \in DOMAIN taken : \A j \in DOMAIN Occurrences(taken[i]) :
    LET d == taken[i] r == OccurrenceRange(Occurrences(d)[j])
        around == {k \in DOMAIN Defs(d) : Encloses(Container(Defs(d)[k]), r)}
        own(k) == Container(Defs(d)[k]) = Container(Owner(d, r))
    IN r # NoRange => /\ (around = {}) = (Owner(d, r) = << >>)
                      /\ \A k \in around : Encloses(Container(Owner(d, r)), Container(Defs(d)[k])) => own(k)

\* A symbol counts as the compiler's when a document of the compiler names it,
\* an edge when one names its end, whichever other documents do
\* (extract.go:605, 688).
Names(d, id) ==
  \/ \E i \in DOMAIN Occurrences(d) : Last1(Occurrences(d)[i], 2, "") # "" /\ NodeId(d.path, Last1(Occurrences(d)[i], 2, "")) = id
  \/ \E i \in DOMAIN All(d.message, 3) :
       LET s == All(d.message, 3)[i] IN
       \E x \in {Last1(s, 1, ""), Last1(s, 8, "")} \cup {Last1(All(s, 4)[j], 1, "") : j \in DOMAIN All(s, 4)} :
         x # "" /\ NodeId(d.path, x) = id
AuthorityJustified ==
  /\ \A id \in DOMAIN symbols : symbols[id].auth => \E i \in DOMAIN taken : taken[i].auth /\ Names(taken[i], id)
  /\ \A e \in links : e.auth => \E i \in DOMAIN taken : taken[i].auth /\ Names(taken[i], e.to)

\* A sealed document says the same, about the admitted source, in a known
\* encoding (seal.go:276).
SealPreserves ==
  given # << >> /\ given[1].seal /\ Sealable(given[1]) =>
    LET m == given[1].message s == Seal(given[1]).message IN
    /\ Parses(s) /\ Last1(s, 5, "") = given[1].path /\ Last1(s, 6, 0) # 0
    /\ \A n \in 1..4 : All(s, n) = All(m, n)

DocumentSound == SpansExact /\ OwnerInnermost /\ AuthorityJustified /\ SealPreserves
=============================================================================

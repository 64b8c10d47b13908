-------------------------- MODULE EdbSymbol_proofs --------------------------
(***************************************************************************)
(* Proofs about the table of symbols, for all map files and .cod files and *)
(* a table of any size.                                                    *)
(***************************************************************************)
EXTENDS EdbSymbol, FiniteSetTheorems, WellFoundedInduction, TLAPS

\* An entry that has an object file has a name.
Named(s) ==
  \A a \in Slots, e \in EntrySlots :
    s.Entry[a][e].ObjName # NULL => s.Entry[a][e].Name \in Names
Tables == {s \in SymbolContext : Named(s)}

\* What the invariants say of a table, as it is or after an operation.
ListOf(s, i) == s.SourceBuffer[s.Object[i].Arrays]
AllDistinct(s) ==
  \A a \in Slots : \A m \in 1..Len(s.SourceBuffer[a]) :
    /\ s.Pool[s.SourceBuffer[a][m]] # NULL
    /\ \A b \in Slots : \A n \in 1..Len(s.SourceBuffer[b]) :
         s.SourceBuffer[b][n] = s.SourceBuffer[a][m] => a = b /\ m = n
ArraysApart(s) ==
  \A i, j \in Slots : s.Object[i].Arrays = s.Object[j].Arrays => i = j
AllListed(s) ==
  \A b \in Buffers : s.Pool[b] # NULL =>
    \E i \in Indices(s) : \E m \in 1..Len(ListOf(s, i)) : ListOf(s, i)[m] = b

\* The code of an entry, where these .cod files have been loaded.
CodeAsLoaded(s, i, e, cods) ==
  LET entry == EntryOf(s, i, e)
  IN IF HasCode(entry, cods)
     THEN /\ \E m \in 1..Len(ListOf(s, i)) : ListOf(s, i)[m] = entry.CodBuffer
          /\ s.Pool[entry.CodBuffer] = entry.ObjName
     ELSE entry.CodBuffer = NULL

CountOf(file) ==
  LET entries == EdbLoadSymbolEntryByIec(file)
  IN IF Len(entries) < MaxEntries THEN Len(entries) ELSE MaxEntries

SymbolAsRead(s, i, e) ==
  LET entry == EntryOf(s, i, e)
      symbol == EdbLoadSymbolEntryByIec(s.Object[i].Name)[e + 1]
  IN /\ entry.Name = symbol.Name /\ entry.Rva = symbol.Rva
     /\ entry.Type = symbol.Type /\ entry.ObjName = symbol.ObjName

\* Functions of one .cod file have their code in one text.
OneText(s, i) ==
  \A d, e \in Entries(s, i) :
    LET first == EntryOf(s, i, d)
        other == EntryOf(s, i, e)
    IN /\ first.CodBuffer # NULL /\ other.CodBuffer # NULL
       /\ first.ObjName = other.ObjName
       => first.CodBuffer = other.CodBuffer

ObjectAsRead(s, l, i) ==
  LET object == s.Object[i]
  IN /\ object.Name \in MapFiles
     /\ object.BaseAddress = l[object.Name].Base
     /\ object.EntryCount = CountOf(object.Name)
     /\ \A e \in Entries(s, i) :
          SymbolAsRead(s, i, e) /\ CodeAsLoaded(s, i, e, l[object.Name].Code)
     /\ OneText(s, i)

\* The table s holds the files of the history l: in its objects, and nothing
\* is left in the arrays behind the last one of an object that would give a
\* new entry code.
Holds(s, l) ==
  /\ DOMAIN l = {s.Object[i].Name : i \in Indices(s)}
  /\ \A i, j \in Indices(s) : s.Object[i].Name = s.Object[j].Name => i = j
  /\ \A i \in Slots \ Indices(s) : s.Object[i].EntryCount = 0
  /\ \A i \in Slots : \A e \in EntrySlots \ Entries(s, i) :
       EntryOf(s, i, e).CodBuffer = NULL
  /\ \A i \in Indices(s) : ObjectAsRead(s, l, i)

TInv == TypeOK /\ Named(sym)
SourceInv == AllDistinct(sym) /\ (intact => ArraysApart(sym) /\ AllListed(sym))
LoadedInv == intact => Holds(sym, loaded)
-----------------------------------------------------------------------------
(* Least and greatest numbers, and induction.                              *)

LEMMA LeastExists ==
  ASSUME NEW S \in SUBSET Nat, S # {}
  PROVE  \E n \in S : \A m \in S : n <= m
<1>. DEFINE R == {ss \in Nat \X Nat : ss[1] < ss[2]}
<1>1. IsWellFoundedOn(R, Nat)
  BY NatLessThanWellFounded DEF OpToRel
<1>2. PICK n \in S : \A m \in S : <<m, n>> \notin R
  <2>. HIDE DEF R
  <2>. QED
    BY <1>1, WFMin
<1>3. ASSUME NEW m \in S PROVE n <= m
  <2>1. m \in Nat /\ n \in Nat /\ <<m, n>> \notin R
    BY <1>2, <1>3
  <2>. QED
    BY <2>1
<1>. QED
  BY <1>3

LEMMA GreatestExists ==
  ASSUME NEW N \in Nat, NEW S \in SUBSET (0..N), S # {}
  PROVE  \E n \in S : \A m \in S : m <= n
<1>. DEFINE D == {N - m : m \in S}
<1>1. D \in SUBSET Nat /\ D # {}
  <2>1. ASSUME NEW m \in S PROVE N - m \in Nat
    BY SMT
  <2>. QED
    BY <2>1
<1>2. PICK d \in D : \A c \in D : d <= c
  <2>. HIDE DEF D
  <2>. QED
    BY <1>1, LeastExists
<1>3. PICK n \in S : d = N - n
  BY <1>2
<1>4. ASSUME NEW m \in S PROVE m <= n
  <2>1. N - n <= N - m
    BY <1>2, <1>3
  <2>. QED
    BY <2>1
<1>. QED
  BY <1>4

LEMMA NatBySet ==
  ASSUME NEW T, 0 \in T, \A n \in Nat : n \in T => n + 1 \in T
  PROVE  \A n \in Nat : n \in T
<1>. DEFINE S == Nat \ T
<1>1. SUFFICES ASSUME S # {} PROVE FALSE
  OBVIOUS
<1>2. PICK x \in S : \A y \in S : x <= y
  <2>. HIDE DEF S
  <2>1. S \in SUBSET Nat
    BY DEF S
  <2>. QED
    BY <1>1, <2>1, LeastExists
<1>3. x \in Nat /\ x # 0
  OBVIOUS
<1>4. x - 1 \in Nat /\ x - 1 \in T
  BY <1>2, <1>3
<1>. QED
  BY <1>3, <1>4

-----------------------------------------------------------------------------
(* Functions defined by recursion over the lines of a file.                *)

\* The value after each of N steps, from z, where step n takes x to D[n][x].
Steps(g, z, D, N) == g[0] = z /\ \A n \in 1..N : g[n] = D[n][g[n - 1]]

LEMMA Recursion ==
  ASSUME NEW X, NEW z \in X, NEW N \in Nat, NEW D \in [1..N -> [X -> X]]
  PROVE  \E g \in [0..N -> X] : Steps(g, z, D, N)
<1>. DEFINE Good(g, M) == Steps(g, z, D, M)
            T == {M \in Nat : M <= N => \E g \in [0..M -> X] : Good(g, M)}
<1>1. 0 \in T
  <2>. DEFINE g == [n \in 0..0 |-> z]
  <2>1. g \in [0..0 -> X] /\ Good(g, 0)
    BY DEF Steps
  <2>. HIDE DEF g, Good
  <2>. QED
    BY <2>1
<1>2. ASSUME NEW M \in Nat, M \in T PROVE M + 1 \in T
  <2>. HIDE DEF Good
  <2>1. SUFFICES ASSUME M + 1 <= N
                 PROVE  \E g \in [0..M + 1 -> X] : Good(g, M + 1)
    BY <1>2
  <2>. USE DEF Good, Steps
  <2>2. PICK f \in [0..M -> X] : Good(f, M)
    BY <1>2, <2>1
  <2>. DEFINE g == [n \in 0..M + 1 |-> IF n = M + 1 THEN D[M + 1][f[M]] ELSE f[n]]
  <2>3. M + 1 \in 1..N /\ f[M] \in X
    BY <2>1
  <2>4. D[M + 1] \in [X -> X]
    BY <2>3
  <2>5. g \in [0..M + 1 -> X]
    <3>1. ASSUME NEW n \in 0..M + 1 PROVE g[n] \in X
      <4>1. CASE n = M + 1
        BY <2>3, <2>4, <4>1
      <4>2. CASE n \in 0..M
        BY <4>2
      <4>. QED
        BY <4>1, <4>2
    <3>. QED
      BY <3>1
  <2>6. g[0] = z
    BY <2>2
  <2>7. ASSUME NEW n \in 1..M + 1 PROVE g[n] = D[n][g[n - 1]]
    <3>1. g[n - 1] = f[n - 1]
      BY <2>7
    <3>2. CASE n = M + 1
      BY <3>1, <3>2
    <3>3. CASE n \in 1..M
      <4>1. g[n] = f[n]
        BY <3>3
      <4>2. f[n] = D[n][f[n - 1]]
        BY <2>2, <3>3
      <4>. QED
        BY <3>1, <4>1, <4>2
    <3>. QED
      BY <3>2, <3>3
  <2>. HIDE DEF g
  <2>. QED
    BY <2>5, <2>6, <2>7
<1>3. N \in T
  <2>. HIDE DEF T
  <2>. QED
    BY <1>1, <1>2, NatBySet
<1>. QED
  BY <1>3

ParsedEntry ==
  [Name : Names, Rva : 0..LinkBase - 1, Type : SymbolTypes, ObjName : CodFiles]
ParserState ==
  [At : {"Uninitialized", "SymbolStart", "StaticFunction", "SeHandler",
         "VarbssInit", "Crt", "Function", "Variable"},
   Entries : Seq(ParsedEntry)]
ParserStart == [At |-> "Uninitialized", Entries |-> <<>>]

LEMMA LineType ==
  ASSUME NEW file \in MapFiles
  PROVE  /\ Len(Lines[file]) \in Nat
         /\ \A n \in 1..Len(Lines[file]) : Lines[file][n] \in Line
BY FileAssumption

LEMMA ParseLineType ==
  ASSUME NEW p \in ParserState, NEW line \in Line
  PROVE  ParseLine(p, line) \in ParserState
<1>. DEFINE at == NextParseState(p.At, line)
            type == SymbolType(at, line)
            entry == [Name |-> line.Name, Rva |-> line.Address % LinkBase,
                      Type |-> type, ObjName |-> line.Obj]
<1>1. Prefix[line.Name] \in {"SeHandler", "VarbssInit", "Crt", "none"}
  BY FileAssumption DEF Line
<1>2. at \in {"Uninitialized", "SymbolStart", "StaticFunction", "SeHandler",
              "VarbssInit", "Crt", "Function", "Variable"}
  BY <1>1 DEF NextParseState, ParserState, Line
<1>3. type # "Max" => entry \in ParsedEntry
  <2>1. type # "Max" => type \in SymbolTypes
    BY DEF SymbolType, SymbolTypes
  <2>2. line.Address % LinkBase \in 0..LinkBase - 1
    BY AddressAssumption DEF Line
  <2>. HIDE DEF type
  <2>. QED
    BY <2>1, <2>2 DEF Line, ParsedEntry
<1>4. p.Entries \in Seq(ParsedEntry)
  BY DEF ParserState
<1>5. type # "Max" => Append(p.Entries, entry) \in Seq(ParsedEntry)
  BY <1>3, <1>4
<1>6. ParseLine(p, line) =
        [At |-> at,
         Entries |->
           IF line.Kind = "symbol" /\ at \notin {"Uninitialized", "SeHandler"}
              /\ type # "Max"
           THEN Append(p.Entries, entry)
           ELSE p.Entries]
  BY DEF ParseLine
<1>. HIDE DEF at, type, entry
<1>. QED
  BY <1>2, <1>4, <1>5, <1>6 DEF ParserState

\* What the parser has read after each line.
LEMMA ParsedStep ==
  ASSUME NEW file \in MapFiles
  PROVE  LET g == ParsedLines(file) IN
         /\ g \in [0..Len(Lines[file]) -> ParserState]
         /\ g[0] = ParserStart
         /\ \A n \in 1..Len(Lines[file]) :
              g[n] = ParseLine(g[n - 1], Lines[file][n])
<1>. DEFINE lines == Lines[file]
            N == Len(lines)
            IsParse(g) == g = [n \in 0..N |->
              IF n = 0 THEN [At |-> "Uninitialized", Entries |-> <<>>]
              ELSE ParseLine(g[n - 1], lines[n])]
            D == [n \in 1..N |-> [p \in ParserState |-> ParseLine(p, lines[n])]]
<1>1. N \in Nat /\ \A n \in 1..N : lines[n] \in Line
  BY LineType
<1>2. ParserStart \in ParserState
  BY DEF ParserStart, ParserState
<1>3. D \in [1..N -> [ParserState -> ParserState]]
  <2>1. ASSUME NEW n \in 1..N, NEW p \in ParserState
        PROVE  ParseLine(p, lines[n]) \in ParserState
    BY <1>1, ParseLineType
  <2>. QED
    BY <2>1
<1>4. PICK g \in [0..N -> ParserState] : Steps(g, ParserStart, D, N)
  <2>1. N \in Nat
    BY <1>1
  <2>. HIDE DEF D, N
  <2>. QED
    BY <1>2, <1>3, <2>1, Recursion
<1>5. ASSUME NEW n \in 1..N
      PROVE  g[n] = ParseLine(g[n - 1], lines[n])
  <2>1. n - 1 \in 0..N
    BY <1>1
  <2>2. g[n - 1] \in ParserState
    BY <1>4, <2>1
  <2>. QED
    BY <1>4, <2>2 DEF Steps
<1>6. IsParse(g)
  <2>. DEFINE e(n) == IF n = 0 THEN ParserStart ELSE ParseLine(g[n - 1], lines[n])
  <2>1. \A n \in 0..N : g[n] = e(n)
    BY <1>1, <1>4, <1>5 DEF Steps
  <2>2. g = [n \in 0..N |-> e(n)]
    <3>. HIDE DEF e, N
    <3>. QED
      BY <1>4, <2>1
  <2>. QED
    BY <2>2 DEF ParserStart
<1>. DEFINE f == CHOOSE h : IsParse(h)
<1>7. IsParse(f)
  <2>. HIDE DEF IsParse
  <2>. QED
    BY <1>6
<1>8. ParsedLines(file) = f
  BY DEF ParsedLines
<1>9. /\ f[0] = ParserStart
      /\ \A n \in 1..N : f[n] = ParseLine(f[n - 1], lines[n])
  <2>. DEFINE e(n) == IF n = 0 THEN ParserStart ELSE ParseLine(f[n - 1], lines[n])
  <2>1. f = [n \in 0..N |-> e(n)]
    BY <1>7 DEF ParserStart
  <2>. HIDE DEF e, f, N
  <2>2. \A n \in 0..N : f[n] = e(n)
    BY <2>1
  <2>3. f[0] = e(0) /\ \A n \in 1..N : f[n] = e(n) /\ n # 0
    BY <1>1, <2>2
  <2>. QED
    BY <2>3 DEF e
<1>10. \A n \in 0..N : f[n] = g[n]
  <2>. DEFINE T == {n \in Nat : n <= N => f[n] = g[n]}
  <2>. HIDE DEF f, N
  <2>1. 0 \in T
    BY <1>4, <1>9 DEF Steps
  <2>2. ASSUME NEW n \in Nat, n \in T PROVE n + 1 \in T
    <3>1. n + 1 <= N => n + 1 \in 1..N /\ (n + 1) - 1 = n /\ f[n] = g[n]
      BY <1>1, <2>2
    <3>. QED
      BY <1>5, <1>9, <3>1
  <2>3. \A n \in Nat : n \in T
    <3>. HIDE DEF T
    <3>. QED
      BY <2>1, <2>2, NatBySet
  <2>. QED
    BY <1>1, <2>3
<1>11. f \in [0..N -> ParserState]
  <2>1. f = [n \in 0..N |-> f[n]]
    <3>. DEFINE e(n) == IF n = 0 THEN [At |-> "Uninitialized", Entries |-> <<>>]
                        ELSE ParseLine(f[n - 1], lines[n])
    <3>1. f = [n \in 0..N |-> e(n)]
      BY <1>7
    <3>. HIDE DEF e, f
    <3>. QED
      BY <3>1
  <2>. HIDE DEF f, N
  <2>. QED
    BY <1>4, <1>10, <2>1
<1>. QED
  BY <1>8, <1>9, <1>11

\* The entries read from a map file.
LEMMA ParsedType ==
  ASSUME NEW file \in MapFiles
  PROVE  EdbLoadSymbolEntryByIec(file) \in Seq(ParsedEntry)
<1>1. ParsedLines(file)[Len(Lines[file])] \in ParserState
  BY LineType, ParsedStep
<1>. QED
  BY <1>1 DEF EdbLoadSymbolEntryByIec, ParserState

-----------------------------------------------------------------------------
(* What each operation makes of a table.                                   *)

LEMMA TableType ==
  ASSUME NEW s \in Tables
  PROVE  /\ s.ObjectCount \in 0..MaxObjects
         /\ Indices(s) \subseteq Slots
         /\ s.Object \in [Slots -> ObjectRecord]
         /\ s.Entry \in [Slots -> [EntrySlots -> EntryRecord]]
         /\ s.SourceBuffer \in [Slots -> Seq(Buffers)]
         /\ s.Pool \in [Buffers -> CodFiles \cup {NULL}]
         /\ \A i \in Slots :
              /\ s.Object[i] \in ObjectRecord
              /\ s.Object[i].Arrays \in Slots
              /\ s.Object[i].EntryCount \in 0..MaxEntries
              /\ s.Object[i].BaseAddress \in Nat
              /\ Entries(s, i) \subseteq EntrySlots
              /\ ListOf(s, i) \in Seq(Buffers)
              /\ \A e \in EntrySlots :
                   /\ EntryOf(s, i, e) \in EntryRecord
                   /\ EntryOf(s, i, e).ObjName # NULL =>
                        EntryOf(s, i, e).Name \in Names
<1>1. s \in SymbolContext /\ Named(s)
  BY DEF Tables
<1>2. /\ s.ObjectCount \in 0..MaxObjects
      /\ s.Object \in [Slots -> ObjectRecord]
      /\ s.Entry \in [Slots -> [EntrySlots -> EntryRecord]]
      /\ s.SourceBuffer \in [Slots -> Seq(Buffers)]
      /\ s.Pool \in [Buffers -> CodFiles \cup {NULL}]
  BY <1>1 DEF SymbolContext
<1>3. Indices(s) \subseteq Slots
  BY <1>2, SizeAssumption DEF Indices, Slots
<1>4. ASSUME NEW i \in Slots
      PROVE  /\ s.Object[i] \in ObjectRecord
             /\ s.Object[i].Arrays \in Slots
             /\ s.Object[i].EntryCount \in 0..MaxEntries
             /\ s.Object[i].BaseAddress \in Nat
  BY <1>2 DEF ObjectRecord
<1>5. ASSUME NEW i \in Slots PROVE Entries(s, i) \subseteq EntrySlots
  BY <1>4, SizeAssumption DEF Entries, EntrySlots
<1>. QED
  BY <1>1, <1>2, <1>3, <1>4, <1>5 DEF ListOf, EntryOf, Named

LEMMA ZeroTypes ==
  /\ ZeroEntry \in EntryRecord
  /\ ZeroEntry.ObjName = NULL /\ ZeroEntry.CodBuffer = NULL
  /\ \A a \in Slots :
       /\ ZeroObject(a) \in ObjectRecord
       /\ ZeroObject(a).Arrays = a /\ ZeroObject(a).EntryCount = 0
       /\ ZeroObject(a).BaseAddress = 0
BY SizeAssumption, AddressAssumption
   DEF ZeroEntry, EntryRecord, SymbolTypes, ZeroObject, ObjectRecord

LEMMA IndexOfLoaded ==
  ASSUME NEW s \in Tables, NEW file, IsLoaded(s, file)
  PROVE  /\ IndexOf(s, file) \in Indices(s) /\ IndexOf(s, file) \in Slots
         /\ IndexOf(s, file) \in Nat
         /\ s.Object[IndexOf(s, file)].Name = file
<1>. DEFINE S == EdbFindSymbolFile(s, file)
<1>1. S # {} /\ S \in SUBSET Nat /\ S \subseteq Indices(s)
  BY TableType DEF IsLoaded, EdbFindSymbolFile, Slots, Indices
<1>2. \E i \in S : \A j \in S : i <= j
  <2>. HIDE DEF S
  <2>. QED
    BY <1>1, LeastExists
<1>3. IndexOf(s, file) \in S
  BY <1>2 DEF IndexOf
<1>4. Indices(s) \subseteq Slots
  BY TableType
<1>. QED
  BY <1>1, <1>3, <1>4 DEF EdbFindSymbolFile

LEMMA UnloadEffect ==
  ASSUME NEW s \in Tables, NEW file, IsLoaded(s, file),
         NEW t, t = EdbUnloadSymbol(s, file),
         NEW old, old = s.Object[0], NEW last, last = s.ObjectCount - 1
  PROVE  /\ t \in Tables
         /\ last \in Slots /\ last \in Nat /\ t.ObjectCount = last
         /\ old \in ObjectRecord /\ 0 \in Indices(s) /\ 0 \in Slots
         /\ \A i \in Slots : t.Object[i] =
              IF i = last THEN ZeroObject(old.Arrays)
              ELSE IF i \in IndexOf(s, file)..last - 1 THEN s.Object[i + 1]
              ELSE s.Object[i]
         /\ \A a \in Slots, e \in EntrySlots : t.Entry[a][e] =
              IF a = old.Arrays /\ e < old.EntryCount THEN ZeroEntry
              ELSE s.Entry[a][e]
         /\ \A a \in Slots : t.SourceBuffer[a] =
              IF a = old.Arrays THEN <<>> ELSE s.SourceBuffer[a]
         /\ \A b \in Buffers : t.Pool[b] =
              IF \E m \in 1..Len(ListOf(s, 0)) : ListOf(s, 0)[m] = b THEN NULL
              ELSE s.Pool[b]
<1>. DEFINE index == IndexOf(s, file)
            object == [i \in Slots |->
               IF i = last THEN ZeroObject(old.Arrays)
               ELSE IF i \in index..last - 1 THEN s.Object[i + 1]
               ELSE s.Object[i]]
            emptied == [e \in EntrySlots |->
               IF e < old.EntryCount THEN ZeroEntry
               ELSE s.Entry[old.Arrays][e]]
            entry == [s.Entry EXCEPT ![old.Arrays] = emptied]
            source == [s.SourceBuffer EXCEPT ![old.Arrays] = <<>>]
            pool == FreeSources(s, s.SourceBuffer[old.Arrays])
<1>1. /\ index \in Indices(s) /\ index \in Nat
      /\ s.ObjectCount \in 0..MaxObjects
  BY IndexOfLoaded, TableType
<1>2. /\ last \in Slots /\ last \in Nat
      /\ 0 \in Indices(s) /\ 0 \in Slots
  BY <1>1, SizeAssumption DEF Indices, Slots
<1>3. old \in ObjectRecord /\ old.Arrays \in Slots
  BY <1>2, TableType
<1>4. object \in [Slots -> ObjectRecord]
  <2>1. ASSUME NEW i \in Slots, i \in index..last - 1 PROVE i + 1 \in Slots
    BY <1>1, <1>2, <2>1, SizeAssumption DEF Slots
  <2>2. ZeroObject(old.Arrays) \in ObjectRecord
    BY <1>3, ZeroTypes
  <2>3. \A i \in Slots : s.Object[i] \in ObjectRecord
    BY TableType
  <2>4. ASSUME NEW i \in Slots PROVE object[i] \in ObjectRecord
    <3>1. CASE i = last
      BY <2>2, <3>1
    <3>2. CASE i # last /\ i \in index..last - 1
      <4>1. s.Object[i + 1] \in ObjectRecord
        BY <2>1, <2>3, <3>2
      <4>. QED
        BY <3>2, <4>1
    <3>3. CASE i # last /\ i \notin index..last - 1
      BY <2>3, <3>3
    <3>. QED
      BY <3>1, <3>2, <3>3
  <2>. QED
    BY <2>4
<1>5. /\ entry \in [Slots -> [EntrySlots -> EntryRecord]]
      /\ \A a \in Slots, e \in EntrySlots : entry[a][e] =
           IF a = old.Arrays /\ e < old.EntryCount THEN ZeroEntry
           ELSE s.Entry[a][e]
  BY <1>3, TableType, ZeroTypes
<1>6. /\ source \in [Slots -> Seq(Buffers)]
      /\ \A a \in Slots : source[a] =
           IF a = old.Arrays THEN <<>> ELSE s.SourceBuffer[a]
  BY <1>3, TableType
<1>7. /\ pool \in [Buffers -> CodFiles \cup {NULL}]
      /\ \A b \in Buffers : pool[b] =
           IF \E m \in 1..Len(ListOf(s, 0)) : ListOf(s, 0)[m] = b THEN NULL
           ELSE s.Pool[b]
  <2>1. s.SourceBuffer[old.Arrays] \in Seq(Buffers)
    BY <1>3, TableType
  <2>. QED
    BY <2>1, TableType DEF FreeSources, ToSet, ListOf
<1>8. /\ t \in SymbolContext
      /\ t.ObjectCount = last /\ t.Object = object /\ t.Entry = entry
      /\ t.SourceBuffer = source /\ t.Pool = pool
  <2>1. t = [s EXCEPT !.ObjectCount = last, !.Object = object,
                      !.Entry[old.Arrays] = emptied,
                      !.SourceBuffer[old.Arrays] = <<>>, !.Pool = pool]
    BY <1>3, TableType DEF EdbUnloadSymbol
  <2>2. s \in SymbolContext
    BY DEF Tables
  <2>. HIDE DEF object, emptied, pool
  <2>3. /\ t.ObjectCount = last /\ t.Object = object /\ t.Entry = entry
        /\ t.SourceBuffer = source /\ t.Pool = pool
        /\ t = [ObjectCount |-> last, Object |-> object, Entry |-> entry,
                SourceBuffer |-> source, Pool |-> pool]
    BY <2>1, <2>2 DEF SymbolContext
  <2>4. last \in 0..MaxObjects
    BY <1>1, <1>2, SizeAssumption
  <2>. HIDE DEF entry, source
  <2>5. /\ entry \in [Slots -> [EntrySlots -> EntryRecord]]
        /\ source \in [Slots -> Seq(Buffers)]
        /\ pool \in [Buffers -> CodFiles \cup {NULL}]
        /\ object \in [Slots -> ObjectRecord]
    BY <1>4, <1>5, <1>6, <1>7
  <2>6. t \in SymbolContext
    BY <2>3, <2>4, <2>5 DEF SymbolContext
  <2>. QED
    BY <2>3, <2>6
<1>9. Named(t)
  <2>1. \A a \in Slots, e \in EntrySlots : t.Entry[a][e] =
           IF a = old.Arrays /\ e < old.EntryCount THEN ZeroEntry
           ELSE s.Entry[a][e]
    BY <1>5, <1>8
  <2>2. Named(s)
    BY DEF Tables
  <2>. QED
    BY <2>1, <2>2, ZeroTypes DEF Named
<1>10. \A i \in Slots : t.Object[i] =
         IF i = last THEN ZeroObject(old.Arrays)
         ELSE IF i \in IndexOf(s, file)..last - 1 THEN s.Object[i + 1]
         ELSE s.Object[i]
  BY <1>8
<1>. HIDE DEF object, emptied, entry, source, pool
<1>. QED
  BY <1>2, <1>3, <1>5, <1>6, <1>7, <1>8, <1>9, <1>10 DEF Tables
\* The entry e of these arrays is read from the file, or is as before.
IsFilled(s, t, file, arrays, e) ==
  LET old == s.Entry[arrays][e]
      symbol == EdbLoadSymbolEntryByIec(file)[e + 1]
      new == t.Entry[arrays][e]
  IN IF e < CountOf(file)
     THEN /\ new.Name = symbol.Name /\ new.Rva = symbol.Rva
          /\ new.Type = symbol.Type /\ new.ObjName = symbol.ObjName
          /\ new.CodBuffer = old.CodBuffer
     ELSE new = old

LEMMA FillEffect ==
  ASSUME NEW s \in Tables, NEW file \in MapFiles, s.ObjectCount < MaxObjects,
         NEW t, t = FillObject(s, file),
         NEW k, k = s.ObjectCount
  PROVE  /\ t \in Tables /\ k \in Slots /\ k \in Nat
         /\ t.ObjectCount = k + 1
         /\ CountOf(file) \in 0..MaxEntries
         /\ CountOf(file) <= Len(EdbLoadSymbolEntryByIec(file))
         /\ \A i \in Slots \ {k} : t.Object[i] = s.Object[i]
         /\ t.Object[k].Name = file
         /\ t.Object[k].EntryCount = CountOf(file)
         /\ t.Object[k].BaseAddress = 0
         /\ t.Object[k].Arrays = s.Object[k].Arrays
         /\ \A a \in Slots \ {s.Object[k].Arrays} : t.Entry[a] = s.Entry[a]
         /\ \A e \in EntrySlots : IsFilled(s, t, file, s.Object[k].Arrays, e)
         /\ t.SourceBuffer = s.SourceBuffer /\ t.Pool = s.Pool
<1>. DEFINE entries == EdbLoadSymbolEntryByIec(file)
            count == CountOf(file)
            arrays == s.Object[k].Arrays
            object == [ZeroObject(arrays) EXCEPT !.Name = file,
                                                 !.EntryCount = count]
            Read(e) == [Name |-> entries[e + 1].Name, Rva |-> entries[e + 1].Rva,
                        Type |-> entries[e + 1].Type,
                        ObjName |-> entries[e + 1].ObjName,
                        CodBuffer |-> s.Entry[arrays][e].CodBuffer]
            filled == [e \in EntrySlots |->
                         IF e < count THEN Read(e) ELSE s.Entry[arrays][e]]
<1>1. entries \in Seq(ParsedEntry)
  BY ParsedType
<1>2. count \in 0..MaxEntries /\ count <= Len(entries)
  <2>. HIDE DEF entries
  <2>1. count = IF Len(entries) < MaxEntries THEN Len(entries) ELSE MaxEntries
    BY DEF CountOf, entries
  <2>2. Len(entries) \in Nat
    BY <1>1
  <2>. HIDE DEF count
  <2>. QED
    BY <2>1, <2>2, SizeAssumption
<1>3. k \in Slots /\ k \in Nat /\ k + 1 \in 0..MaxObjects
  BY TableType, SizeAssumption DEF Slots
<1>4. arrays \in Slots
  BY <1>3, TableType
<1>5. /\ object \in ObjectRecord
      /\ object.Name = file /\ object.EntryCount = count
      /\ object.BaseAddress = 0 /\ object.Arrays = arrays
  <2>. HIDE DEF arrays, count
  <2>. QED
    BY <1>2, <1>4 DEF ZeroObject, ObjectRecord
<1>6. ASSUME NEW e \in EntrySlots, e < count
      PROVE  Read(e) \in EntryRecord /\ Read(e).Name \in Names
  <2>. HIDE DEF entries, count, arrays
  <2>1. e + 1 \in 1..Len(entries)
    BY <1>1, <1>2, <1>6 DEF EntrySlots
  <2>2. entries[e + 1] \in ParsedEntry
    BY <1>1, <2>1
  <2>3. s.Entry[arrays][e] \in EntryRecord
    BY <1>4, TableType
  <2>. QED
    BY <2>2, <2>3 DEF ParsedEntry, EntryRecord
<1>7. filled \in [EntrySlots -> EntryRecord]
  <2>1. \A e \in EntrySlots : s.Entry[arrays][e] \in EntryRecord
    BY <1>4, TableType
  <2>. HIDE DEF Read, count, arrays
  <2>. QED
    BY <1>6, <2>1
<1>8. /\ t.ObjectCount = k + 1
      /\ t.Object = [s.Object EXCEPT ![k] = object]
      /\ t.Entry = [s.Entry EXCEPT ![arrays] = filled]
      /\ t.SourceBuffer = s.SourceBuffer /\ t.Pool = s.Pool
      /\ t = [ObjectCount |-> k + 1, Object |-> [s.Object EXCEPT ![k] = object],
              Entry |-> [s.Entry EXCEPT ![arrays] = filled],
              SourceBuffer |-> s.SourceBuffer, Pool |-> s.Pool]
  <2>1. t = [s EXCEPT !.ObjectCount = k + 1, !.Object[k] = object,
                      !.Entry[arrays] = filled]
    BY <1>4, TableType DEF FillObject, CountOf
  <2>2. s \in SymbolContext
    BY DEF Tables
  <2>. HIDE DEF object, filled, arrays
  <2>. QED
    BY <2>1, <2>2 DEF SymbolContext
<1>9. t \in SymbolContext
  <2>1. /\ [s.Object EXCEPT ![k] = object] \in [Slots -> ObjectRecord]
        /\ [s.Entry EXCEPT ![arrays] = filled]
             \in [Slots -> [EntrySlots -> EntryRecord]]
    <3>. HIDE DEF object, filled, arrays
    <3>. QED
      BY <1>5, <1>7, TableType
  <2>. HIDE DEF object, filled, arrays
  <2>. QED
    BY <1>3, <1>8, <2>1, TableType DEF SymbolContext
<1>10. /\ t.Object[k] = object
       /\ \A i \in Slots \ {k} : t.Object[i] = s.Object[i]
       /\ t.Entry[arrays] = filled
       /\ \A a \in Slots \ {arrays} : t.Entry[a] = s.Entry[a]
  <2>. HIDE DEF object, filled, arrays
  <2>. QED
    BY <1>3, <1>4, <1>8, TableType
<1>11. Named(t)
  <2>1. Named(s)
    BY DEF Tables
  <2>2. \A e \in EntrySlots :
          filled[e] = IF e < count THEN Read(e) ELSE s.Entry[arrays][e]
    OBVIOUS
  <2>. HIDE DEF Read, count, arrays, filled, object
  <2>. QED
    BY <1>4, <1>6, <1>10, <2>1, <2>2 DEF Named
<1>12. \A e \in EntrySlots :
         IF e < count THEN filled[e] = Read(e) ELSE filled[e] = s.Entry[arrays][e]
  OBVIOUS
<1>13. ASSUME NEW e \in EntrySlots, e < count
       PROVE  /\ filled[e].Name = entries[e + 1].Name
              /\ filled[e].Rva = entries[e + 1].Rva
              /\ filled[e].Type = entries[e + 1].Type
              /\ filled[e].ObjName = entries[e + 1].ObjName
              /\ filled[e].CodBuffer = s.Entry[arrays][e].CodBuffer
  BY <1>12, <1>13
<1>. HIDE DEF object, filled, Read
<1>14. count = CountOf(file)
  BY DEF CountOf
<1>15. \A e \in EntrySlots : IsFilled(s, t, file, s.Object[k].Arrays, e)
  <2>. HIDE DEF count
  <2>. QED
    BY <1>10, <1>12, <1>13, <1>14 DEF IsFilled
<1>. QED
  BY <1>2, <1>3, <1>5, <1>8, <1>9, <1>10, <1>11, <1>14, <1>15 DEF Tables

LEMMA PatchEffect ==
  ASSUME NEW s \in Tables, NEW file, NEW base \in Nat,
         IsLoaded(s, file), NEW t, t = EdbPatchSymbolRVA(s, file, base),
         NEW i, i = IndexOf(s, file)
  PROVE  /\ t \in Tables
         /\ t.ObjectCount = s.ObjectCount /\ t.Entry = s.Entry
         /\ t.SourceBuffer = s.SourceBuffer /\ t.Pool = s.Pool
         /\ \A j \in Slots \ {i} : t.Object[j] = s.Object[j]
         /\ t.Object[i].Name = s.Object[i].Name
         /\ t.Object[i].EntryCount = s.Object[i].EntryCount
         /\ t.Object[i].Arrays = s.Object[i].Arrays
         /\ t.Object[i].BaseAddress =
              IF base = 0 THEN s.Object[i].BaseAddress ELSE base
<1>1. s \in SymbolContext /\ Named(s) /\ i \in Slots
  BY IndexOfLoaded DEF Tables
<1>2. CASE base = 0
  BY <1>1, <1>2, TableType DEF EdbPatchSymbolRVA
<1>3. CASE base # 0
  <2>. DEFINE object == [s.Object[i] EXCEPT !.BaseAddress = base]
  <2>1. t = [s EXCEPT !.Object[i] = object]
    BY <1>1, <1>3, TableType DEF EdbPatchSymbolRVA
  <2>2. /\ object \in ObjectRecord
        /\ object.Name = s.Object[i].Name
        /\ object.EntryCount = s.Object[i].EntryCount
        /\ object.Arrays = s.Object[i].Arrays
        /\ object.BaseAddress = base
    <3>1. s.Object[i] \in ObjectRecord
      BY <1>1, TableType
    <3>. QED
      BY <3>1 DEF ObjectRecord
  <2>. HIDE DEF object
  <2>3. /\ t.ObjectCount = s.ObjectCount /\ t.Entry = s.Entry
        /\ t.SourceBuffer = s.SourceBuffer /\ t.Pool = s.Pool
        /\ t.Object = [s.Object EXCEPT ![i] = object]
        /\ t = [ObjectCount |-> s.ObjectCount,
                Object |-> [s.Object EXCEPT ![i] = object],
                Entry |-> s.Entry, SourceBuffer |-> s.SourceBuffer,
                Pool |-> s.Pool]
    BY <1>1, <2>1 DEF SymbolContext
  <2>4. [s.Object EXCEPT ![i] = object] \in [Slots -> ObjectRecord]
    BY <2>2, TableType
  <2>5. t \in SymbolContext
    BY <1>1, <2>3, <2>4 DEF SymbolContext
  <2>6. Named(t)
    BY <1>1, <2>3 DEF Named
  <2>7. t.Object[i] = object /\ \A j \in Slots \ {i} : t.Object[j] = s.Object[j]
    BY <1>1, <2>3, TableType
  <2>. QED
    BY <1>3, <2>2, <2>3, <2>5, <2>6, <2>7 DEF Tables
<1>. QED
  BY <1>2, <1>3
ClearedArrays(s) == {s.Object[i].Arrays : i \in Indices(s)}

LEMMA ClearEffect ==
  ASSUME NEW s \in Tables, NEW t, t = EdbClearSymbol(s),
         NEW C, C = ClearedArrays(s)
  PROVE  /\ t \in Tables /\ t.ObjectCount = 0
         /\ \A i \in Slots :
              /\ t.Object[i].Arrays = s.Object[i].Arrays
              /\ IF i \in Indices(s) THEN t.Object[i].EntryCount = 0
                 ELSE t.Object[i] = s.Object[i]
         /\ \A a \in Slots, e \in EntrySlots :
              t.Entry[a][e] \in {ZeroEntry, s.Entry[a][e]}
         /\ \A i \in Indices(s) : \A e \in Entries(s, i) :
              t.Entry[s.Object[i].Arrays][e] = ZeroEntry
         /\ \A a \in Slots : t.SourceBuffer[a] =
              IF a \in C THEN <<>> ELSE s.SourceBuffer[a]
         /\ \A b \in Buffers : t.Pool[b] =
              IF \E a \in C : \E m \in 1..Len(s.SourceBuffer[a]) :
                   s.SourceBuffer[a][m] = b
              THEN NULL ELSE s.Pool[b]
<1>. DEFINE IsCount(a, n) ==
              /\ \E i \in Indices(s) :
                   s.Object[i].Arrays = a /\ s.Object[i].EntryCount = n
              /\ \A i \in Indices(s) :
                   s.Object[i].Arrays = a => s.Object[i].EntryCount <= n
            Count(a) == CHOOSE n \in 0..MaxEntries : IsCount(a, n)
            object == [i \in Slots |->
              IF i \in Indices(s) THEN ZeroObject(s.Object[i].Arrays)
              ELSE s.Object[i]]
            entry == [a \in Slots |->
              IF a \notin C THEN s.Entry[a] ELSE
              [e \in EntrySlots |->
                 IF e < Count(a) THEN ZeroEntry ELSE s.Entry[a][e]]]
            source == [a \in Slots |->
              IF a \in C THEN <<>> ELSE s.SourceBuffer[a]]
            pool == [b \in Buffers |->
              IF \E a \in C : b \in ToSet(s.SourceBuffer[a])
              THEN NULL ELSE s.Pool[b]]
<1>1. t = [s EXCEPT !.ObjectCount = 0, !.Object = object, !.Entry = entry,
                    !.SourceBuffer = source, !.Pool = pool]
  BY DEF EdbClearSymbol, ClearedArrays
<1>2. s \in SymbolContext /\ Named(s)
  BY DEF Tables
<1>3. object \in [Slots -> ObjectRecord]
  BY TableType, ZeroTypes
<1>4. ASSUME NEW a \in Slots, NEW e \in EntrySlots
      PROVE  entry[a][e] \in {ZeroEntry, s.Entry[a][e]}
  <2>. HIDE DEF Count
  <2>. QED
    BY <1>4
<1>5. entry \in [Slots -> [EntrySlots -> EntryRecord]]
  <2>1. ASSUME NEW a \in Slots PROVE entry[a] \in [EntrySlots -> EntryRecord]
    <3>1. CASE a \notin C
      BY <3>1, TableType
    <3>2. CASE a \in C
      <4>. HIDE DEF Count
      <4>1. entry[a] = [e \in EntrySlots |->
                          IF e < Count(a) THEN ZeroEntry ELSE s.Entry[a][e]]
        BY <3>2
      <4>. QED
        BY <4>1, TableType, ZeroTypes
    <3>. QED
      BY <3>1, <3>2
  <2>. HIDE DEF Count
  <2>. QED
    BY <2>1
<1>6. source \in [Slots -> Seq(Buffers)]
  BY TableType
<1>7. pool \in [Buffers -> CodFiles \cup {NULL}]
  BY TableType
<1>8. /\ t.ObjectCount = 0 /\ t.Object = object /\ t.Entry = entry
      /\ t.SourceBuffer = source /\ t.Pool = pool
      /\ t = [ObjectCount |-> 0, Object |-> object, Entry |-> entry,
              SourceBuffer |-> source, Pool |-> pool]
  <2>. HIDE DEF object, entry, source, pool
  <2>. QED
    BY <1>1, <1>2 DEF SymbolContext
<1>9. t \in SymbolContext
  <2>1. 0 \in 0..MaxObjects
    BY SizeAssumption
  <2>. HIDE DEF object, entry, source, pool
  <2>. QED
    BY <1>3, <1>5, <1>6, <1>7, <1>8, <2>1 DEF SymbolContext
<1>10. Named(t)
  <2>. HIDE DEF entry
  <2>. QED
    BY <1>2, <1>4, <1>8, ZeroTypes DEF Named
<1>11. ASSUME NEW i \in Indices(s), NEW e \in Entries(s, i)
       PROVE  entry[s.Object[i].Arrays][e] = ZeroEntry
  <2>. DEFINE a == s.Object[i].Arrays
              S == {n \in 0..MaxEntries : \E j \in Indices(s) :
                      s.Object[j].Arrays = a /\ s.Object[j].EntryCount = n}
  <2>1. i \in Slots /\ a \in Slots /\ a \in C /\ e \in EntrySlots
    BY TableType DEF ClearedArrays
  <2>2. /\ s.Object[i].EntryCount \in S
        /\ \A j \in Indices(s) :
             s.Object[j].Arrays = a => s.Object[j].EntryCount \in S
    BY TableType
  <2>3. PICK n \in S : \A m \in S : m <= n
    <3>1. S \in SUBSET (0..MaxEntries) /\ S # {} /\ MaxEntries \in Nat
      BY <2>2, SizeAssumption
    <3>. HIDE DEF S
    <3>. QED
      BY <3>1, GreatestExists
  <2>4. n \in 0..MaxEntries /\ IsCount(a, n)
    BY <2>2, <2>3
  <2>5. IsCount(a, Count(a)) /\ Count(a) \in 0..MaxEntries
    <3>. HIDE DEF IsCount
    <3>. QED
      BY <2>4
  <2>6. s.Object[i].EntryCount <= Count(a)
    BY <2>5
  <2>7. e < s.Object[i].EntryCount /\ e \in Nat /\ s.Object[i].EntryCount \in Nat
    BY <2>1, TableType DEF Entries
  <2>8. e < Count(a)
    <3>. HIDE DEF Count
    <3>. QED
      BY <2>5, <2>6, <2>7
  <2>. HIDE DEF Count
  <2>. QED
    BY <2>1, <2>8
<1>12. \A i \in Slots :
         /\ object[i].Arrays = s.Object[i].Arrays
         /\ IF i \in Indices(s) THEN object[i].EntryCount = 0
            ELSE object[i] = s.Object[i]
  BY TableType, ZeroTypes
<1>13. \A b \in Buffers : pool[b] =
         IF \E a \in C : \E m \in 1..Len(s.SourceBuffer[a]) :
              s.SourceBuffer[a][m] = b
         THEN NULL ELSE s.Pool[b]
  <2>1. \A a \in C : s.SourceBuffer[a] \in Seq(Buffers)
    BY TableType DEF ClearedArrays
  <2>. QED
    BY <2>1 DEF ToSet
<1>14. \A a \in Slots : source[a] = IF a \in C THEN <<>> ELSE s.SourceBuffer[a]
  OBVIOUS
<1>. HIDE DEF object, entry, source, pool
<1>. QED
  BY <1>4, <1>8, <1>9, <1>10, <1>11, <1>12, <1>13, <1>14 DEF Tables

-----------------------------------------------------------------------------
(* The code of functions.                                                  *)

\* The buffer of the first of them that has any is that of one of them.
LEMMA FoundBuffer ==
  ASSUME NEW s \in Tables, NEW i \in Slots, NEW cod
  PROVE  \/ /\ EdbFindCodeFromObject(s, i, cod) = NULL
            /\ \A e \in CodeEntries(s, i, cod) : EntryOf(s, i, e).CodBuffer = NULL
         \/ \E e \in CodeEntries(s, i, cod) :
              /\ EntryOf(s, i, e).CodBuffer # NULL
              /\ EdbFindCodeFromObject(s, i, cod) = EntryOf(s, i, e).CodBuffer
<1>. DEFINE found == {e \in CodeEntries(s, i, cod) :
                        EntryOf(s, i, e).CodBuffer # NULL}
<1>1. CASE found = {}
  BY <1>1 DEF EdbFindCodeFromObject
<1>2. CASE found # {}
  <2>1. found \in SUBSET Nat
    BY TableType DEF CodeEntries, Entries
  <2>2. PICK e \in found : \A d \in found : e <= d
    <3>. HIDE DEF found
    <3>. QED
      BY <1>2, <2>1, LeastExists
  <2>. DEFINE x == CHOOSE c \in found : \A d \in found : c <= d
  <2>3. x \in found
    <3>. HIDE DEF found
    <3>. QED
      BY <2>2
  <2>4. EdbFindCodeFromObject(s, i, cod) = EntryOf(s, i, x).CodBuffer
    BY <1>2 DEF EdbFindCodeFromObject
  <2>. HIDE DEF x
  <2>. QED
    BY <2>3, <2>4
<1>. QED
  BY <1>1, <1>2

LEMMA SetCodeEffect ==
  ASSUME NEW s \in Tables, NEW i \in Slots, NEW cod \in CodFiles,
         NEW code \in [Names -> Buffers \cup {NULL}],
         NEW t, t = SetCode(s, i, cod, code)
  PROVE  /\ t \in Tables
         /\ t.ObjectCount = s.ObjectCount /\ t.Object = s.Object
         /\ t.SourceBuffer = s.SourceBuffer /\ t.Pool = s.Pool
         /\ \A a \in Slots \ {s.Object[i].Arrays} : t.Entry[a] = s.Entry[a]
         /\ \A e \in EntrySlots :
              /\ EntryOf(t, i, e).Name = EntryOf(s, i, e).Name
              /\ EntryOf(t, i, e).Rva = EntryOf(s, i, e).Rva
              /\ EntryOf(t, i, e).Type = EntryOf(s, i, e).Type
              /\ EntryOf(t, i, e).ObjName = EntryOf(s, i, e).ObjName
              /\ EntryOf(t, i, e).CodBuffer =
                   IF e \in CodeEntries(s, i, cod)
                   THEN code[EntryOf(s, i, e).Name]
                   ELSE EntryOf(s, i, e).CodBuffer
         /\ \A c : CodeEntries(t, i, c) = CodeEntries(s, i, c)
<1>. DEFINE a == s.Object[i].Arrays
            With(e) == [s.Entry[a][e] EXCEPT !.CodBuffer = code[s.Entry[a][e].Name]]
            new == [e \in EntrySlots |->
              IF e \in CodeEntries(s, i, cod) THEN With(e) ELSE s.Entry[a][e]]
<1>1. s \in SymbolContext /\ Named(s) /\ a \in Slots
  BY TableType DEF Tables
<1>2. ASSUME NEW e \in EntrySlots
      PROVE  /\ s.Entry[a][e] \in EntryRecord
             /\ e \in CodeEntries(s, i, cod) => s.Entry[a][e].Name \in Names
  <2>1. e \in CodeEntries(s, i, cod) => s.Entry[a][e].ObjName = cod
    BY DEF CodeEntries, EntryOf
  <2>2. cod # NULL
    BY NullAssumption
  <2>. QED
    BY <1>1, <2>1, <2>2, TableType DEF Named
<1>3. ASSUME NEW e \in EntrySlots, e \in CodeEntries(s, i, cod)
      PROVE  /\ With(e) \in EntryRecord
             /\ With(e).Name = s.Entry[a][e].Name
             /\ With(e).Rva = s.Entry[a][e].Rva
             /\ With(e).Type = s.Entry[a][e].Type
             /\ With(e).ObjName = s.Entry[a][e].ObjName
             /\ With(e).CodBuffer = code[s.Entry[a][e].Name]
  <2>. HIDE DEF a
  <2>1. code[s.Entry[a][e].Name] \in Buffers \cup {NULL}
    BY <1>2, <1>3
  <2>. QED
    BY <1>2, <2>1 DEF EntryRecord
<1>4. new \in [EntrySlots -> EntryRecord]
  <2>. HIDE DEF With, a
  <2>. QED
    BY <1>2, <1>3
<1>5. t = [s EXCEPT !.Entry[a] = new]
  BY <1>1, TableType DEF SetCode, EntryOf
<1>6. /\ t.ObjectCount = s.ObjectCount /\ t.Object = s.Object
      /\ t.SourceBuffer = s.SourceBuffer /\ t.Pool = s.Pool
      /\ t.Entry = [s.Entry EXCEPT ![a] = new]
      /\ t = [ObjectCount |-> s.ObjectCount, Object |-> s.Object,
              Entry |-> [s.Entry EXCEPT ![a] = new],
              SourceBuffer |-> s.SourceBuffer, Pool |-> s.Pool]
  <2>. HIDE DEF new, a
  <2>. QED
    BY <1>1, <1>5 DEF SymbolContext
<1>7. [s.Entry EXCEPT ![a] = new] \in [Slots -> [EntrySlots -> EntryRecord]]
  <2>. HIDE DEF new, a
  <2>. QED
    BY <1>4, TableType
<1>8. t \in SymbolContext
  <2>. HIDE DEF new, a
  <2>. QED
    BY <1>1, <1>6, <1>7 DEF SymbolContext
<1>9. /\ t.Entry[a] = new
      /\ \A b \in Slots \ {a} : t.Entry[b] = s.Entry[b]
  <2>. HIDE DEF new, a
  <2>. QED
    BY <1>1, <1>6, TableType
<1>10. ASSUME NEW e \in EntrySlots
       PROVE  /\ t.Entry[a][e].Name = s.Entry[a][e].Name
              /\ t.Entry[a][e].Rva = s.Entry[a][e].Rva
              /\ t.Entry[a][e].Type = s.Entry[a][e].Type
              /\ t.Entry[a][e].ObjName = s.Entry[a][e].ObjName
              /\ t.Entry[a][e].CodBuffer =
                   IF e \in CodeEntries(s, i, cod)
                   THEN code[s.Entry[a][e].Name] ELSE s.Entry[a][e].CodBuffer
  <2>1. t.Entry[a][e] = IF e \in CodeEntries(s, i, cod) THEN With(e)
                        ELSE s.Entry[a][e]
    <3>. HIDE DEF With, a
    <3>. QED
      BY <1>9
  <2>. HIDE DEF With, a
  <2>. QED
    BY <1>3, <2>1
<1>11. Named(t)
  <2>. HIDE DEF a, new
  <2>1. \A b \in Slots, e \in EntrySlots :
          /\ t.Entry[b][e].Name = s.Entry[b][e].Name
          /\ t.Entry[b][e].ObjName = s.Entry[b][e].ObjName
    BY <1>9, <1>10
  <2>. QED
    BY <1>1, <2>1 DEF Named
<1>12. \A e \in EntrySlots : EntryOf(t, i, e) = t.Entry[a][e]
                             /\ EntryOf(s, i, e) = s.Entry[a][e]
  BY <1>6 DEF EntryOf
<1>13. ASSUME NEW c PROVE CodeEntries(t, i, c) = CodeEntries(s, i, c)
  <2>1. Entries(t, i) = Entries(s, i) /\ Entries(s, i) \subseteq EntrySlots
    BY <1>6, TableType DEF Entries
  <2>. HIDE DEF a
  <2>. QED
    BY <1>10, <1>12, <2>1 DEF CodeEntries
<1>14. \A e \in EntrySlots :
         /\ EntryOf(t, i, e).Name = EntryOf(s, i, e).Name
         /\ EntryOf(t, i, e).Rva = EntryOf(s, i, e).Rva
         /\ EntryOf(t, i, e).Type = EntryOf(s, i, e).Type
         /\ EntryOf(t, i, e).ObjName = EntryOf(s, i, e).ObjName
         /\ EntryOf(t, i, e).CodBuffer =
              IF e \in CodeEntries(s, i, cod)
              THEN code[EntryOf(s, i, e).Name] ELSE EntryOf(s, i, e).CodBuffer
  <2>. HIDE DEF a
  <2>. QED
    BY <1>10, <1>12
<1>15. t \in Tables
  BY <1>8, <1>11 DEF Tables
<1>16. \A b \in Slots \ {s.Object[i].Arrays} : t.Entry[b] = s.Entry[b]
  BY <1>9
<1>. HIDE DEF new, a
<1>. QED
  BY <1>6, <1>13, <1>14, <1>15, <1>16
\* The list r is q without its element at k.
IsWithout(r, q, k) ==
  /\ Len(r) = Len(q) - 1
  /\ \A m \in 1..Len(q) - 1 : r[m] = IF m < k THEN q[m] ELSE q[m + 1]

LEMMA RemoveFirstEffect ==
  ASSUME NEW S, NEW q \in Seq(S), NEW b, \E m \in 1..Len(q) : q[m] = b
  PROVE  /\ RemoveFirst(q, b) \in Seq(S)
         /\ \E k \in 1..Len(q) : q[k] = b /\ IsWithout(RemoveFirst(q, b), q, k)
<1>. DEFINE I == {m \in 1..Len(q) : q[m] = b}
            k == CHOOSE x \in I : \A y \in I : x <= y
            r == SubSeq(q, 1, k - 1) \o SubSeq(q, k + 1, Len(q))
<1>1. I # {} /\ I \in SUBSET Nat
  OBVIOUS
<1>2. \E x \in I : \A y \in I : x <= y
  <2>. HIDE DEF I
  <2>. QED
    BY <1>1, LeastExists
<1>3. k \in I
  <2>. HIDE DEF I
  <2>. QED
    BY <1>2
<1>4. RemoveFirst(q, b) = r
  BY <1>1 DEF RemoveFirst, RemoveAt, SelectInSeq, Min
<1>5. k \in 1..Len(q) /\ q[k] = b /\ Len(q) \in Nat
  BY <1>3
<1>. HIDE DEF k
<1>6. /\ SubSeq(q, 1, k - 1) \in Seq(S) /\ Len(SubSeq(q, 1, k - 1)) = k - 1
      /\ \A m \in 1..k - 1 : SubSeq(q, 1, k - 1)[m] = q[m]
  BY <1>5
<1>7. /\ SubSeq(q, k + 1, Len(q)) \in Seq(S)
      /\ Len(SubSeq(q, k + 1, Len(q))) = Len(q) - k
      /\ \A m \in 1..Len(q) - k : SubSeq(q, k + 1, Len(q))[m] = q[k + m]
  BY <1>5
<1>8. /\ r \in Seq(S) /\ Len(r) = Len(q) - 1
      /\ \A m \in 1..Len(q) - 1 :
           r[m] = IF m < k THEN SubSeq(q, 1, k - 1)[m]
                  ELSE SubSeq(q, k + 1, Len(q))[m - (k - 1)]
  <2>. DEFINE front == SubSeq(q, 1, k - 1)
              back == SubSeq(q, k + 1, Len(q))
  <2>1. /\ front \in Seq(S) /\ Len(front) = k - 1
        /\ back \in Seq(S) /\ Len(back) = Len(q) - k
    BY <1>6, <1>7
  <2>. HIDE DEF front, back
  <2>2. /\ front \o back \in Seq(S) /\ Len(front \o back) = Len(q) - 1
        /\ \A m \in 1..Len(q) - 1 :
             (front \o back)[m] = IF m < k THEN front[m] ELSE back[m - (k - 1)]
    BY <1>5, <2>1
  <2>. QED
    BY <2>2 DEF front, back
<1>9. ASSUME NEW m \in 1..Len(q) - 1
      PROVE  r[m] = IF m < k THEN q[m] ELSE q[m + 1]
  <2>1. CASE m < k
    <3>1. m \in 1..k - 1
      BY <1>5, <2>1
    <3>. QED
      BY <1>6, <1>8, <2>1, <3>1
  <2>2. CASE ~(m < k)
    <3>1. m - (k - 1) \in 1..Len(q) - k /\ k + (m - (k - 1)) = m + 1
      BY <1>5, <2>2
    <3>. HIDE DEF r
    <3>. QED
      BY <1>7, <1>8, <2>2, <3>1
  <2>. QED
    BY <2>1, <2>2
<1>. HIDE DEF r
<1>. QED
  BY <1>4, <1>5, <1>8, <1>9 DEF IsWithout

\* What becomes of the entries of an object when those of a .cod file get their
\* code from this text, or lose it: NULL.
OnlyCode(s, t, i, cod, text) ==
  /\ t.ObjectCount = s.ObjectCount /\ t.Object = s.Object
  /\ \A a \in Slots \ {s.Object[i].Arrays} :
       t.Entry[a] = s.Entry[a] /\ t.SourceBuffer[a] = s.SourceBuffer[a]
  /\ \A e \in EntrySlots :
       /\ EntryOf(t, i, e).Name = EntryOf(s, i, e).Name
       /\ EntryOf(t, i, e).Rva = EntryOf(s, i, e).Rva
       /\ EntryOf(t, i, e).Type = EntryOf(s, i, e).Type
       /\ EntryOf(t, i, e).ObjName = EntryOf(s, i, e).ObjName
       /\ EntryOf(t, i, e).CodBuffer =
            IF e \in CodeEntries(s, i, cod)
            THEN EdbLoadCodBySymbol(EntryOf(s, i, e).Name, cod, text)
            ELSE EntryOf(s, i, e).CodBuffer
  /\ \A c : CodeEntries(t, i, c) = CodeEntries(s, i, c)

LEMMA DropEffect ==
  ASSUME NEW s \in Tables, NEW i \in Slots, NEW cod \in CodFiles,
         NEW t, t = DropCode(s, i, cod)
  PROVE  /\ t \in Tables
         /\ OnlyCode(s, t, i, cod, NULL)
         /\ \/ t.SourceBuffer = s.SourceBuffer /\ t.Pool = s.Pool
            \/ \E k \in 1..Len(ListOf(s, i)) :
                 /\ IsWithout(ListOf(t, i), ListOf(s, i), k)
                 /\ t.Pool = [s.Pool EXCEPT ![ListOf(s, i)[k]] = NULL]
                 /\ \E e \in CodeEntries(s, i, cod) :
                      EntryOf(s, i, e).CodBuffer = ListOf(s, i)[k]
<1>. DEFINE b == EdbFindCodeFromObject(s, i, cod)
            u == EdbUnloadCode(s, i, cod)
            code == [name \in Names |-> NULL]
<1>1. /\ ListOf(s, i) \in Seq(Buffers) /\ s.Object[i].Arrays \in Slots
      /\ CodeEntries(s, i, cod) \subseteq EntrySlots
  BY TableType DEF CodeEntries
<1>2. CASE b = NULL
  <2>1. t = s
    BY <1>2 DEF DropCode
  <2>2. \A e \in CodeEntries(s, i, cod) : EntryOf(s, i, e).CodBuffer = NULL
    <3>1. \A e \in CodeEntries(s, i, cod) : EntryOf(s, i, e).CodBuffer # NULL
            => b # EntryOf(s, i, e).CodBuffer
      BY <1>2
    <3>. QED
      BY <3>1, FoundBuffer
  <2>. QED
    BY <2>1, <2>2 DEF OnlyCode, EdbLoadCodBySymbol
<1>3. CASE b # NULL
  <2>1. PICK e \in CodeEntries(s, i, cod) : b = EntryOf(s, i, e).CodBuffer
    BY <1>3, FoundBuffer
  <2>2. b \in Buffers
    BY <1>1, <1>3, <2>1, TableType DEF EntryRecord
  <2>3. t = EdbDeleteCodeBuffer(u, i, b)
    BY <1>3 DEF DropCode
  <2>4. /\ u \in Tables
        /\ u.SourceBuffer = s.SourceBuffer /\ u.Pool = s.Pool
        /\ OnlyCode(s, u, i, cod, NULL)
    <3>1. code \in [Names -> Buffers \cup {NULL}] /\ u = SetCode(s, i, cod, code)
      BY DEF EdbUnloadCode
    <3>2. \A x \in CodeEntries(s, i, cod) : EntryOf(s, i, x).Name \in Names
      <4>1. \A x \in CodeEntries(s, i, cod) :
              EntryOf(s, i, x).ObjName = cod /\ cod # NULL
        BY NullAssumption DEF CodeEntries
      <4>. QED
        BY <1>1, <4>1, TableType
    <3>3. \A x \in CodeEntries(s, i, cod) : code[EntryOf(s, i, x).Name] = NULL
      BY <3>2
    <3>. HIDE DEF u, code
    <3>4. /\ u \in Tables
          /\ u.ObjectCount = s.ObjectCount /\ u.Object = s.Object
          /\ u.SourceBuffer = s.SourceBuffer /\ u.Pool = s.Pool
          /\ \A a \in Slots \ {s.Object[i].Arrays} : u.Entry[a] = s.Entry[a]
          /\ \A x \in EntrySlots :
               /\ EntryOf(u, i, x).Name = EntryOf(s, i, x).Name
               /\ EntryOf(u, i, x).Rva = EntryOf(s, i, x).Rva
               /\ EntryOf(u, i, x).Type = EntryOf(s, i, x).Type
               /\ EntryOf(u, i, x).ObjName = EntryOf(s, i, x).ObjName
               /\ EntryOf(u, i, x).CodBuffer =
                    IF x \in CodeEntries(s, i, cod)
                    THEN code[EntryOf(s, i, x).Name]
                    ELSE EntryOf(s, i, x).CodBuffer
          /\ \A c : CodeEntries(u, i, c) = CodeEntries(s, i, c)
      BY <3>1, SetCodeEffect
    <3>. QED
      BY <3>3, <3>4 DEF OnlyCode, EdbLoadCodBySymbol
  <2>. DEFINE list == u.SourceBuffer[u.Object[i].Arrays]
  <2>5. list = ListOf(s, i) /\ u.Object[i].Arrays = s.Object[i].Arrays
    BY <2>4 DEF ListOf, OnlyCode
  <2>6. b \in ToSet(list) <=> \E m \in 1..Len(ListOf(s, i)) : ListOf(s, i)[m] = b
    BY <1>1, <2>5 DEF ToSet
  <2>. HIDE DEF b, u
  <2>7. CASE b \notin ToSet(list)
    <3>1. t = u
      BY <2>3, <2>7 DEF EdbDeleteCodeBuffer
    <3>. QED
      BY <2>4, <3>1
  <2>8. CASE b \in ToSet(list)
    <3>. DEFINE a == s.Object[i].Arrays
                r == RemoveFirst(ListOf(s, i), b)
    <3>1. t = [u EXCEPT !.SourceBuffer[a] = r, !.Pool[b] = NULL]
      BY <2>3, <2>5, <2>8 DEF EdbDeleteCodeBuffer
    <3>2. PICK k \in 1..Len(ListOf(s, i)) :
            ListOf(s, i)[k] = b /\ IsWithout(r, ListOf(s, i), k)
      BY <1>1, <2>6, <2>8, RemoveFirstEffect
    <3>3. r \in Seq(Buffers)
      BY <1>1, <2>6, <2>8, RemoveFirstEffect
    <3>4. u \in SymbolContext /\ Named(u) /\ a \in Slots
      BY <1>1, <2>4 DEF Tables
    <3>. HIDE DEF r, a
    <3>5. /\ t.ObjectCount = u.ObjectCount /\ t.Object = u.Object
          /\ t.Entry = u.Entry
          /\ t.SourceBuffer = [u.SourceBuffer EXCEPT ![a] = r]
          /\ t.Pool = [u.Pool EXCEPT ![b] = NULL]
          /\ t = [ObjectCount |-> u.ObjectCount, Object |-> u.Object,
                  Entry |-> u.Entry,
                  SourceBuffer |-> [u.SourceBuffer EXCEPT ![a] = r],
                  Pool |-> [u.Pool EXCEPT ![b] = NULL]]
      BY <3>1, <3>4 DEF SymbolContext
    <3>6. /\ [u.SourceBuffer EXCEPT ![a] = r] \in [Slots -> Seq(Buffers)]
          /\ [u.Pool EXCEPT ![b] = NULL] \in [Buffers -> CodFiles \cup {NULL}]
      BY <3>3, <3>4 DEF SymbolContext
    <3>7. t \in SymbolContext
      BY <3>4, <3>5, <3>6 DEF SymbolContext
    <3>8. t \in Tables
      BY <3>4, <3>5, <3>7 DEF Tables, Named
    <3>9. /\ t.SourceBuffer[a] = r
          /\ \A c \in Slots \ {a} : t.SourceBuffer[c] = u.SourceBuffer[c]
      BY <3>4, <3>5 DEF SymbolContext
    <3>10. \A x \in EntrySlots : EntryOf(t, i, x) = EntryOf(u, i, x)
      BY <3>5 DEF EntryOf
    <3>11. \A c : CodeEntries(t, i, c) = CodeEntries(u, i, c)
      BY <3>5 DEF CodeEntries, Entries, EntryOf
    <3>12. OnlyCode(s, t, i, cod, NULL)
      BY <2>4, <3>5, <3>9, <3>10, <3>11 DEF OnlyCode, a
    <3>13. IsWithout(ListOf(t, i), ListOf(s, i), k)
      BY <2>5, <3>2, <3>5, <3>9 DEF a, ListOf
    <3>14. t.Pool = [s.Pool EXCEPT ![ListOf(s, i)[k]] = NULL]
      BY <2>4, <3>2, <3>5
    <3>. QED
      BY <2>1, <3>2, <3>8, <3>12, <3>13, <3>14
  <2>. QED
    BY <2>7, <2>8
<1>. QED
  BY <1>2, <1>3

\* The part of loading code that follows once the old code is gone.
Attached(s, i, cod, buffer) ==
  EdbAddCodeBuffer(
    SetCode(s, i, cod, [name \in Names |-> EdbLoadCodBySymbol(name, cod, buffer)]),
    i, cod, buffer)

LEMMA AttachEffect ==
  ASSUME NEW s \in Tables, NEW i \in Slots, NEW cod \in CodFiles,
         NEW buffer \in Buffers, NEW t, t = Attached(s, i, cod, buffer)
  PROVE  /\ t \in Tables
         /\ OnlyCode(s, t, i, cod, buffer)
         /\ ListOf(t, i) = Append(ListOf(s, i), buffer)
         /\ t.Pool = [s.Pool EXCEPT ![buffer] = cod]
<1>. DEFINE code == [name \in Names |-> EdbLoadCodBySymbol(name, cod, buffer)]
            u == SetCode(s, i, cod, code)
            a == s.Object[i].Arrays
<1>1. a \in Slots /\ CodeEntries(s, i, cod) \subseteq EntrySlots
  BY TableType DEF CodeEntries
<1>2. code \in [Names -> Buffers \cup {NULL}]
  BY DEF EdbLoadCodBySymbol
<1>3. \A e \in CodeEntries(s, i, cod) :
        code[EntryOf(s, i, e).Name] =
          EdbLoadCodBySymbol(EntryOf(s, i, e).Name, cod, buffer)
  <2>1. \A e \in CodeEntries(s, i, cod) :
          EntryOf(s, i, e).ObjName = cod /\ cod # NULL
    BY NullAssumption DEF CodeEntries
  <2>2. \A e \in CodeEntries(s, i, cod) : EntryOf(s, i, e).Name \in Names
    BY <1>1, <2>1, TableType
  <2>. QED
    BY <2>2
<1>4. t = EdbAddCodeBuffer(u, i, cod, buffer)
  BY DEF Attached
<1>. HIDE DEF code
<1>5. /\ u \in Tables
      /\ u.ObjectCount = s.ObjectCount /\ u.Object = s.Object
      /\ u.SourceBuffer = s.SourceBuffer /\ u.Pool = s.Pool
      /\ \A c \in Slots \ {s.Object[i].Arrays} : u.Entry[c] = s.Entry[c]
      /\ \A x \in EntrySlots :
           /\ EntryOf(u, i, x).Name = EntryOf(s, i, x).Name
           /\ EntryOf(u, i, x).Rva = EntryOf(s, i, x).Rva
           /\ EntryOf(u, i, x).Type = EntryOf(s, i, x).Type
           /\ EntryOf(u, i, x).ObjName = EntryOf(s, i, x).ObjName
           /\ EntryOf(u, i, x).CodBuffer =
                IF x \in CodeEntries(s, i, cod)
                THEN code[EntryOf(s, i, x).Name]
                ELSE EntryOf(s, i, x).CodBuffer
      /\ \A c : CodeEntries(u, i, c) = CodeEntries(s, i, c)
  BY <1>2, SetCodeEffect
<1>. HIDE DEF u
<1>6. u \in SymbolContext /\ Named(u) /\ u.Object[i].Arrays = a
  BY <1>5 DEF Tables
<1>7. t = [u EXCEPT !.SourceBuffer[a] = Append(u.SourceBuffer[a], buffer),
                    !.Pool[buffer] = cod]
  BY <1>1, <1>4, <1>6 DEF EdbAddCodeBuffer, SymbolContext
<1>. DEFINE r == Append(u.SourceBuffer[a], buffer)
<1>8. r \in Seq(Buffers)
  BY <1>1, <1>6 DEF SymbolContext
<1>. HIDE DEF r, a
<1>9. /\ t.ObjectCount = u.ObjectCount /\ t.Object = u.Object
      /\ t.Entry = u.Entry
      /\ t.SourceBuffer = [u.SourceBuffer EXCEPT ![a] = r]
      /\ t.Pool = [u.Pool EXCEPT ![buffer] = cod]
      /\ t = [ObjectCount |-> u.ObjectCount, Object |-> u.Object,
              Entry |-> u.Entry,
              SourceBuffer |-> [u.SourceBuffer EXCEPT ![a] = r],
              Pool |-> [u.Pool EXCEPT ![buffer] = cod]]
  BY <1>6, <1>7 DEF SymbolContext, r
<1>10. /\ [u.SourceBuffer EXCEPT ![a] = r] \in [Slots -> Seq(Buffers)]
       /\ [u.Pool EXCEPT ![buffer] = cod] \in [Buffers -> CodFiles \cup {NULL}]
  BY <1>6, <1>8 DEF SymbolContext
<1>11. t \in SymbolContext
  BY <1>6, <1>9, <1>10 DEF SymbolContext
<1>12. t \in Tables
  BY <1>6, <1>9, <1>11 DEF Tables, Named
<1>13. /\ t.SourceBuffer[a] = r
       /\ \A c \in Slots \ {a} : t.SourceBuffer[c] = u.SourceBuffer[c]
  BY <1>1, <1>6, <1>9 DEF SymbolContext
<1>14. /\ \A x \in EntrySlots : EntryOf(t, i, x) = EntryOf(u, i, x)
       /\ \A c : CodeEntries(t, i, c) = CodeEntries(u, i, c)
  BY <1>9 DEF EntryOf, CodeEntries, Entries
<1>15. OnlyCode(s, t, i, cod, buffer)
  BY <1>3, <1>5, <1>9, <1>13, <1>14 DEF OnlyCode, a
<1>16. ListOf(t, i) = Append(ListOf(s, i), buffer)
  BY <1>5, <1>9, <1>13 DEF ListOf, a, r
<1>. QED
  BY <1>5, <1>9, <1>12, <1>15, <1>16
-----------------------------------------------------------------------------
(* Types.                                                                  *)

\* Loading a map file: the one of this name is taken out, the new one is put
\* behind the others if there is room.
LEMMA LoadTables ==
  ASSUME NEW s \in Tables, NEW file \in MapFiles, NEW base \in Nat
  PROVE  EdbPatchSymbolRVA(EdbLoadSymbol(s, file), file, base) \in Tables
<1>. DEFINE t == EdbUnloadSymbol(s, file)
            u == EdbLoadSymbol(s, file)
<1>1. t \in Tables
  <2>1. CASE IsLoaded(s, file)
    BY <2>1, UnloadEffect
  <2>2. CASE ~IsLoaded(s, file)
    BY <2>2 DEF EdbUnloadSymbol
  <2>. QED
    BY <2>1, <2>2
<1>2. u = IF t.ObjectCount >= MaxObjects THEN t ELSE FillObject(t, file)
  BY DEF EdbLoadSymbol
<1>. HIDE DEF t, u
<1>3. u \in Tables
  <2>1. t.ObjectCount \in Nat /\ MaxObjects \in Nat
    BY <1>1, TableType, SizeAssumption
  <2>2. CASE t.ObjectCount >= MaxObjects
    BY <1>1, <1>2, <2>2
  <2>3. CASE t.ObjectCount < MaxObjects
    <3>1. FillObject(t, file) \in Tables
      BY <1>1, <2>3, FillEffect
    <3>. QED
      BY <1>2, <2>1, <2>3, <3>1
  <2>. QED
    BY <2>1, <2>2, <2>3
<1>4. EdbPatchSymbolRVA(u, file, base) \in Tables
  <2>1. CASE IsLoaded(u, file)
    BY <1>3, <2>1, PatchEffect
  <2>2. CASE ~IsLoaded(u, file)
    BY <1>3, <2>2 DEF EdbPatchSymbolRVA
  <2>. QED
    BY <2>1, <2>2
<1>. QED
  BY <1>4 DEF u

\* Loading code is dropping the old and attaching the new.
LEMMA LoadCodSplit ==
  ASSUME NEW s \in Tables, NEW file, NEW cod \in CodFiles, IsLoaded(s, file),
         FreeBuffers(s) # {}
  PROVE  LET i == IndexOf(s, file)
             buffer == ReadFileToBuffer(s)
         IN /\ buffer \in Buffers /\ s.Pool[buffer] = NULL
            /\ LoadCodFile(s, file, cod) =
                 Attached(DropCode(s, i, cod), i, cod, buffer)
<1>1. ReadFileToBuffer(s) \in FreeBuffers(s)
  BY DEF ReadFileToBuffer
<1>. QED
  BY <1>1 DEF FreeBuffers, LoadCodFile, EdbLoadCode, Attached

LEMMA CodTables ==
  ASSUME NEW s \in Tables, NEW file, NEW cod \in CodFiles
  PROVE  /\ FreeBuffers(s) # {} => LoadCodFile(s, file, cod) \in Tables
         /\ UnloadCodFile(s, file, cod) \in Tables
<1>. DEFINE i == IndexOf(s, file)
            buffer == ReadFileToBuffer(s)
            d == DropCode(s, i, cod)
<1>1. CASE ~IsLoaded(s, file)
  BY <1>1 DEF LoadCodFile, UnloadCodFile
<1>2. CASE IsLoaded(s, file)
  <2>1. i \in Slots
    BY <1>2, IndexOfLoaded
  <2>. HIDE DEF i
  <2>2. d \in Tables
    BY <2>1, DropEffect
  <2>3. ASSUME FreeBuffers(s) # {}
        PROVE  LoadCodFile(s, file, cod) \in Tables
    <3>1. /\ buffer \in Buffers
          /\ LoadCodFile(s, file, cod) = Attached(d, i, cod, buffer)
      BY <1>2, <2>3, LoadCodSplit DEF i
    <3>. HIDE DEF buffer, d
    <3>2. Attached(d, i, cod, buffer) \in Tables
      BY <2>1, <2>2, <3>1, AttachEffect
    <3>. QED
      BY <3>1, <3>2
  <2>4. UnloadCodFile(s, file, cod) = d
    BY <1>2 DEF UnloadCodFile, i
  <2>. QED
    BY <2>2, <2>3, <2>4
<1>. QED
  BY <1>1, <1>2

LoadedOK(l) ==
  /\ DOMAIN l \subseteq MapFiles
  /\ \A file \in DOMAIN l :
       l[file] \in [Base : Bases[file], Code : SUBSET CodFiles]
LoadCommand == [Op : {"load"}, File : MapFiles, Next : 1..Len(Directory)]
UnloadCommand == [Op : {"unload"}, File : MapFiles,
                  Next : 1..Len(Directory) + 1]
CommandOK(c) == c = Idle \/ c \in LoadCommand \/ c \in UnloadCommand

LEMMA TInvParts ==
  TInv <=> /\ sym \in Tables /\ CommandOK(command) /\ LoadedOK(loaded)
           /\ intact \in BOOLEAN
BY DEF TInv, TypeOK, Tables, CommandOK, LoadCommand, UnloadCommand, LoadedOK

LEMMA TInvPartsNext ==
  TInv' <=> /\ sym' \in Tables /\ CommandOK(command') /\ LoadedOK(loaded')
            /\ intact' \in BOOLEAN
BY DEF TInv, TypeOK, Tables, CommandOK, LoadCommand, UnloadCommand, LoadedOK

LEMMA CommandTypes ==
  /\ Len(Directory) \in Nat
  /\ \A n \in 1..Len(Directory) : Directory[n] \in CodFiles
  /\ CommandOK(Idle)
  /\ \A op \in {"load", "unload"}, file \in MapFiles : CommandOK(Walk(op, file))
  /\ \A c : CommandOK(c) /\ c.Op = "load" =>
       c \in LoadCommand /\ CommandOK(NextFile(c))
  /\ \A c : CommandOK(c) /\ c.Op = "unload" =>
       c \in UnloadCommand /\ (c.Next <= Len(Directory) => CommandOK(NextFile(c)))
<1>1. /\ Len(Directory) \in Nat /\ (Directory # <<>> => Len(Directory) > 0)
      /\ \A n \in 1..Len(Directory) : Directory[n] \in CodFiles
  BY FileAssumption
<1>2. ASSUME NEW op \in {"load", "unload"}, NEW file \in MapFiles
      PROVE  CommandOK(Walk(op, file))
  BY <1>1 DEF CommandOK, Walk, LoadCommand, UnloadCommand
<1>3. ASSUME NEW c, CommandOK(c), c.Op = "load"
      PROVE  c \in LoadCommand /\ CommandOK(NextFile(c))
  <2>1. c \in LoadCommand
    BY <1>3 DEF CommandOK, Idle, UnloadCommand
  <2>2. CASE c.Next = Len(Directory)
    BY <1>3, <2>1, <2>2 DEF NextFile, CommandOK
  <2>3. CASE c.Next # Len(Directory)
    <3>1. NextFile(c) = [c EXCEPT !.Next = c.Next + 1]
      BY <2>1, <2>3 DEF NextFile, LoadCommand
    <3>2. c.Next + 1 \in 1..Len(Directory)
      BY <1>1, <2>1, <2>3 DEF LoadCommand
    <3>3. NextFile(c) \in LoadCommand
      BY <2>1, <3>1, <3>2 DEF LoadCommand
    <3>. QED
      BY <2>1, <3>3 DEF CommandOK
  <2>. QED
    BY <2>1, <2>2, <2>3
<1>4. ASSUME NEW c, CommandOK(c), c.Op = "unload"
      PROVE  c \in UnloadCommand
             /\ (c.Next <= Len(Directory) => CommandOK(NextFile(c)))
  <2>1. c \in UnloadCommand
    BY <1>4 DEF CommandOK, Idle, LoadCommand
  <2>2. ASSUME c.Next <= Len(Directory)
        PROVE  CommandOK(NextFile(c))
    <3>1. NextFile(c) = [c EXCEPT !.Next = c.Next + 1]
      BY <1>4, <2>1 DEF NextFile, UnloadCommand
    <3>2. c.Next + 1 \in 1..Len(Directory) + 1
      BY <1>1, <2>1, <2>2 DEF UnloadCommand
    <3>3. NextFile(c) \in UnloadCommand
      BY <2>1, <3>1, <3>2 DEF UnloadCommand
    <3>. QED
      BY <3>3 DEF CommandOK
  <2>. QED
    BY <2>1, <2>2
<1>. QED
  BY <1>1, <1>2, <1>3, <1>4 DEF CommandOK

LEMMA LoadedTypes ==
  ASSUME LoadedOK(loaded)
  PROVE  /\ \A file : LoadedOK(Forget(file))
         /\ \A file, cods : cods \subseteq CodFiles \/ file \notin DOMAIN loaded
              => LoadedOK(WithCode(file, cods))
         /\ \A file \in DOMAIN loaded : loaded[file].Code \subseteq CodFiles
<1>1. \A file \in DOMAIN loaded : loaded[file].Code \subseteq CodFiles
  BY DEF LoadedOK
<1>2. ASSUME NEW file PROVE LoadedOK(Forget(file))
  BY DEF LoadedOK, Forget
<1>3. ASSUME NEW file, NEW cods,
             cods \subseteq CodFiles \/ file \notin DOMAIN loaded
      PROVE  LoadedOK(WithCode(file, cods))
  <2>1. CASE file \notin DOMAIN loaded
    BY <2>1 DEF WithCode
  <2>2. CASE file \in DOMAIN loaded
    <3>1. /\ cods \subseteq CodFiles
          /\ WithCode(file, cods) = [loaded EXCEPT ![file].Code = cods]
      BY <1>3, <2>2 DEF WithCode
    <3>2. [loaded[file] EXCEPT !.Code = cods]
            \in [Base : Bases[file], Code : SUBSET CodFiles]
      BY <2>2, <3>1 DEF LoadedOK
    <3>. QED
      BY <2>2, <3>1, <3>2 DEF LoadedOK
  <2>. QED
    BY <2>1, <2>2
<1>. QED
  BY <1>1, <1>2, <1>3

LEMMA EmptyTableOK ==
  /\ EmptyTable \in Tables
  /\ \A s \in Tables : [s EXCEPT !.ObjectCount = 0] \in Tables
<1>1. EmptyTable \in SymbolContext
  <2>1. /\ 0 \in 0..MaxObjects
        /\ [i \in Slots |-> ZeroObject(i)] \in [Slots -> ObjectRecord]
        /\ [i \in Slots |-> [e \in EntrySlots |-> ZeroEntry]]
             \in [Slots -> [EntrySlots -> EntryRecord]]
        /\ [i \in Slots |-> <<>>] \in [Slots -> Seq(Buffers)]
        /\ [b \in Buffers |-> NULL] \in [Buffers -> CodFiles \cup {NULL}]
    BY ZeroTypes, SizeAssumption
  <2>. QED
    BY <2>1 DEF EmptyTable, SymbolContext
<1>2. Named(EmptyTable)
  BY ZeroTypes DEF Named, EmptyTable
<1>3. ASSUME NEW s \in Tables PROVE [s EXCEPT !.ObjectCount = 0] \in Tables
  <2>1. s \in SymbolContext /\ Named(s) /\ 0 \in 0..MaxObjects
    BY SizeAssumption DEF Tables
  <2>2. [s EXCEPT !.ObjectCount = 0] \in SymbolContext
    BY <2>1 DEF SymbolContext
  <2>3. [s EXCEPT !.ObjectCount = 0].Entry = s.Entry
    BY <2>1 DEF SymbolContext
  <2>4. Named([s EXCEPT !.ObjectCount = 0])
    BY <2>1, <2>3 DEF Named
  <2>. QED
    BY <2>2, <2>4 DEF Tables
<1>. QED
  BY <1>1, <1>2, <1>3 DEF Tables

LEMMA TInvInit == Init => TInv
<1>1. LoadedOK(<<>>)
  BY DEF LoadedOK
<1>. QED
  BY <1>1, EmptyTableOK, TInvParts DEF Init, CommandOK

LEMMA TInvNext == TInv /\ [Next]_vars => TInv'
<1>. SUFFICES ASSUME TInv, [Next]_vars
              PROVE  /\ sym' \in Tables /\ CommandOK(command')
                     /\ LoadedOK(loaded') /\ intact' \in BOOLEAN
  BY TInvPartsNext
<1>1. /\ sym \in Tables /\ CommandOK(command) /\ LoadedOK(loaded)
      /\ intact \in BOOLEAN
  BY TInvParts
<1>2. ASSUME NEW file \in MapFiles, NEW withCode \in BOOLEAN,
             NEW base \in Bases[file],
             DebuggerLoadSymbol(file, withCode, base)
      PROVE  /\ sym' \in Tables /\ CommandOK(command')
             /\ LoadedOK(loaded') /\ intact' \in BOOLEAN
  <2>1. base \in Nat
    BY AddressAssumption
  <2>2. sym' \in Tables
    BY <1>1, <1>2, <2>1, LoadTables DEF DebuggerLoadSymbol
  <2>3. CommandOK(command')
    BY <1>1, <1>2, CommandTypes DEF DebuggerLoadSymbol
  <2>4. LoadedOK([f \in DOMAIN loaded \cup {file} |->
           IF f = file THEN [Base |-> base, Code |-> {}] ELSE loaded[f]])
    BY <1>1 DEF LoadedOK
  <2>5. LoadedOK(loaded') /\ intact' \in BOOLEAN
    BY <1>1, <1>2, <2>4 DEF DebuggerLoadSymbol
  <2>. QED
    BY <2>2, <2>3, <2>5
<1>3. CASE LoadNextCod
  <2>. DEFINE cod == Directory[command.Next]
  <2>1. command \in LoadCommand /\ CommandOK(command')
    BY <1>1, <1>3, CommandTypes DEF LoadNextCod
  <2>2. cod \in CodFiles
    BY <2>1, CommandTypes DEF LoadCommand
  <2>3. \/ UNCHANGED <<sym, loaded>>
        \/ /\ FreeBuffers(sym) # {}
           /\ sym' = LoadCodFile(sym, command.File, cod)
           /\ loaded' = WithCode(command.File,
                                 loaded[command.File].Code \cup {cod})
    BY <1>3 DEF LoadNextCod
  <2>4. intact' = intact
    BY <1>3 DEF LoadNextCod
  <2>5. LoadedOK(WithCode(command.File, loaded[command.File].Code \cup {cod}))
    BY <1>1, <2>2, LoadedTypes
  <2>. QED
    BY <1>1, <2>1, <2>2, <2>3, <2>4, <2>5, CodTables
<1>4. ASSUME NEW file \in MapFiles, DebuggerUnloadSymbol(file)
      PROVE  /\ sym' \in Tables /\ CommandOK(command')
             /\ LoadedOK(loaded') /\ intact' \in BOOLEAN
  BY <1>1, <1>4, CommandTypes DEF DebuggerUnloadSymbol
<1>5. CASE UnloadNextCod
  <2>. DEFINE cod == Directory[command.Next]
  <2>1. /\ command \in UnloadCommand /\ CommandOK(command')
        /\ command.Next <= Len(Directory)
    BY <1>1, <1>5, CommandTypes DEF UnloadNextCod
  <2>2. cod \in CodFiles
    BY <2>1, CommandTypes DEF UnloadCommand
  <2>3. /\ sym' = UnloadCodFile(sym, command.File, cod)
        /\ loaded' = WithCode(command.File, loaded[command.File].Code \ {cod})
        /\ intact' = intact
    BY <1>5 DEF UnloadNextCod
  <2>4. LoadedOK(WithCode(command.File, loaded[command.File].Code \ {cod}))
    BY <1>1, LoadedTypes
  <2>. QED
    BY <1>1, <2>1, <2>2, <2>3, <2>4, CodTables
<1>6. CASE FinishUnload
  <2>1. EdbUnloadSymbol(sym, command.File) \in Tables
    <3>1. CASE IsLoaded(sym, command.File)
      BY <1>1, <3>1, UnloadEffect
    <3>2. CASE ~IsLoaded(sym, command.File)
      BY <1>1, <3>2 DEF EdbUnloadSymbol
    <3>. QED
      BY <3>1, <3>2
  <2>. QED
    BY <1>1, <1>6, <2>1, CommandTypes, LoadedTypes DEF FinishUnload
<1>7. ASSUME NEW file \in MapFiles, NEW cod \in CodFiles,
             DebuggerLoadCode(file, cod)
      PROVE  /\ sym' \in Tables /\ CommandOK(command')
             /\ LoadedOK(loaded') /\ intact' \in BOOLEAN
  <2>1. LoadedOK(WithCode(file, loaded[file].Code \cup {cod}))
    BY <1>1, LoadedTypes
  <2>. QED
    BY <1>1, <1>7, <2>1, CodTables DEF DebuggerLoadCode
<1>8. ASSUME NEW file \in MapFiles, NEW cod \in CodFiles,
             DebuggerUnloadCode(file, cod)
      PROVE  /\ sym' \in Tables /\ CommandOK(command')
             /\ LoadedOK(loaded') /\ intact' \in BOOLEAN
  <2>1. LoadedOK(WithCode(file, loaded[file].Code \ {cod}))
    BY <1>1, LoadedTypes
  <2>. QED
    BY <1>1, <1>8, <2>1, CodTables DEF DebuggerUnloadCode
<1>9. CASE BeginSession
  <2>1. LoadedOK(<<>>)
    BY DEF LoadedOK
  <2>. QED
    BY <1>1, <1>9, <2>1, EmptyTableOK DEF BeginSession
<1>10. CASE Quit
  <2>1. EdbClearSymbol(sym) \in Tables
    BY <1>1, ClearEffect
  <2>2. LoadedOK(<<>>)
    BY DEF LoadedOK
  <2>. QED
    BY <1>1, <1>10, <2>1, <2>2 DEF Quit
<1>11. CASE UNCHANGED vars
  BY <1>1, <1>11 DEF vars
<1>. QED
  BY <1>2, <1>3, <1>4, <1>5, <1>6, <1>7, <1>8, <1>9, <1>10, <1>11 DEF Next

\* The table of symbols stays within the arrays that were allocated for it:
\* no load, of symbols or of code, and no unload fills or reads an entry, an
\* object or a list outside them (EdbSymbol.c).
THEOREM TypeCorrect == Spec => []TypeOK
<1>1. TInv => TypeOK
  BY DEF TInv
<1>. QED
  BY <1>1, TInvInit, TInvNext, PTL DEF Spec
-----------------------------------------------------------------------------
(* The source buffers: each in one list, and none lost.                    *)

LEMMA UnloadSources ==
  ASSUME NEW s \in Tables, NEW file, IsLoaded(s, file), AllDistinct(s),
         NEW t, t = EdbUnloadSymbol(s, file)
  PROVE  /\ AllDistinct(t)
         /\ IndexOf(s, file) = 0 /\ ArraysApart(s) /\ AllListed(s)
            => ArraysApart(t) /\ AllListed(t)
<1>. DEFINE old == s.Object[0]
            last == s.ObjectCount - 1
            a0 == old.Arrays
<1>1. /\ t \in Tables
      /\ last \in Slots /\ last \in Nat /\ t.ObjectCount = last
      /\ 0 \in Indices(s) /\ 0 \in Slots
      /\ \A i \in Slots : t.Object[i] =
           IF i = last THEN ZeroObject(a0)
           ELSE IF i \in IndexOf(s, file)..last - 1 THEN s.Object[i + 1]
           ELSE s.Object[i]
      /\ \A a \in Slots : t.SourceBuffer[a] =
           IF a = a0 THEN <<>> ELSE s.SourceBuffer[a]
      /\ \A b \in Buffers : t.Pool[b] =
           IF \E m \in 1..Len(ListOf(s, 0)) : ListOf(s, 0)[m] = b THEN NULL
           ELSE s.Pool[b]
  <2>1. ASSUME NEW o, o = old, NEW l, l = last
        PROVE  /\ t \in Tables
               /\ l \in Slots /\ l \in Nat /\ t.ObjectCount = l
               /\ 0 \in Indices(s) /\ 0 \in Slots
               /\ \A i \in Slots : t.Object[i] =
                    IF i = l THEN ZeroObject(o.Arrays)
                    ELSE IF i \in IndexOf(s, file)..l - 1 THEN s.Object[i + 1]
                    ELSE s.Object[i]
               /\ \A a \in Slots : t.SourceBuffer[a] =
                    IF a = o.Arrays THEN <<>> ELSE s.SourceBuffer[a]
               /\ \A b \in Buffers : t.Pool[b] =
                    IF \E m \in 1..Len(ListOf(s, 0)) : ListOf(s, 0)[m] = b
                    THEN NULL ELSE s.Pool[b]
    BY <2>1, UnloadEffect
  <2>. QED
    BY <2>1
<1>2. /\ a0 \in Slots /\ ListOf(s, 0) = s.SourceBuffer[a0]
      /\ \A a \in Slots : s.SourceBuffer[a] \in Seq(Buffers)
  BY <1>1, TableType DEF ListOf
<1>. HIDE DEF a0
<1>3. AllDistinct(t)
  <2>1. ASSUME NEW a \in Slots, NEW m \in 1..Len(t.SourceBuffer[a])
        PROVE  /\ a # a0 /\ t.SourceBuffer[a] = s.SourceBuffer[a]
               /\ t.Pool[t.SourceBuffer[a][m]] # NULL
    <3>1. a # a0
      <4>1. ASSUME a = a0 PROVE FALSE
        <5>1. t.SourceBuffer[a] = <<>>
          BY <1>1, <4>1
        <5>. QED
          BY <5>1
      <4>. QED
        BY <4>1
    <3>2. t.SourceBuffer[a] = s.SourceBuffer[a]
      BY <1>1, <3>1
    <3>3. /\ m \in 1..Len(s.SourceBuffer[a])
          /\ s.SourceBuffer[a][m] \in Buffers
      BY <1>2, <3>2
    <3>4. s.Pool[s.SourceBuffer[a][m]] # NULL
      BY <3>3 DEF AllDistinct
    <3>5. ASSUME NEW n \in 1..Len(ListOf(s, 0)),
                 ListOf(s, 0)[n] = s.SourceBuffer[a][m]
          PROVE  FALSE
      BY <1>2, <3>1, <3>3, <3>5 DEF AllDistinct
    <3>. QED
      BY <1>1, <3>1, <3>2, <3>3, <3>4, <3>5
  <2>2. ASSUME NEW a \in Slots, NEW m \in 1..Len(t.SourceBuffer[a]),
               NEW b \in Slots, NEW n \in 1..Len(t.SourceBuffer[b]),
               t.SourceBuffer[b][n] = t.SourceBuffer[a][m]
        PROVE  a = b /\ m = n
    <3>1. t.SourceBuffer[a] = s.SourceBuffer[a] /\ t.SourceBuffer[b] = s.SourceBuffer[b]
      BY <2>1
    <3>. QED
      BY <2>2, <3>1 DEF AllDistinct
  <2>. QED
    BY <2>1, <2>2 DEF AllDistinct
<1>4. ASSUME IndexOf(s, file) = 0, ArraysApart(s), AllListed(s)
      PROVE  ArraysApart(t) /\ AllListed(t)
  <2>. DEFINE From(i) == IF i = last THEN 0 ELSE IF i < last THEN i + 1 ELSE i
  <2>1. ASSUME NEW i \in Slots
        PROVE  /\ From(i) \in Slots
               /\ t.Object[i].Arrays = s.Object[From(i)].Arrays
               /\ i < last => t.Object[i] = s.Object[i + 1]
    <3>1. i \in Nat /\ (i < last => i + 1 \in Slots /\ i \in 0..last - 1)
      BY <1>1, SizeAssumption DEF Slots
    <3>2. CASE i = last
      <4>1. t.Object[i] = ZeroObject(a0)
        BY <1>1, <3>2
      <4>2. t.Object[i].Arrays = a0
        BY <1>2, <4>1, ZeroTypes
      <4>. QED
        BY <1>1, <3>2, <4>2 DEF a0
    <3>3. CASE i < last
      BY <1>1, <1>4, <3>1, <3>3
    <3>4. CASE ~(i <= last)
      <4>1. i \notin 0..last - 1 /\ i # last
        BY <1>1, <3>1, <3>4
      <4>. QED
        BY <1>1, <1>4, <3>1, <3>4, <4>1
    <3>. QED
      BY <1>1, <3>1, <3>2, <3>3, <3>4
  <2>2. \A i, j \in Slots : From(i) = From(j) => i = j
    BY <1>1 DEF Slots
  <2>3. ArraysApart(t)
    <3>. HIDE DEF From
    <3>1. ASSUME NEW i \in Slots, NEW j \in Slots,
                 t.Object[i].Arrays = t.Object[j].Arrays
          PROVE  i = j
      BY <1>4, <2>1, <2>2, <3>1 DEF ArraysApart
    <3>. QED
      BY <3>1 DEF ArraysApart
  <2>4. ASSUME NEW b \in Buffers, t.Pool[b] # NULL
        PROVE  \E i \in Indices(t) : \E m \in 1..Len(ListOf(t, i)) :
                 ListOf(t, i)[m] = b
    <3>1. /\ s.Pool[b] # NULL
          /\ \A m \in 1..Len(ListOf(s, 0)) : ListOf(s, 0)[m] # b
      BY <1>1, <2>4
    <3>2. PICK i \in Indices(s), m \in Nat :
            m \in 1..Len(ListOf(s, i)) /\ ListOf(s, i)[m] = b
      BY <1>4, <3>1 DEF AllListed
    <3>3. i # 0 /\ i \in Slots
      BY <3>1, <3>2, TableType
    <3>4. i - 1 \in Slots /\ i - 1 < last /\ i - 1 \in Indices(t) /\ (i - 1) + 1 = i
      <4>1. i \in 0..last
        BY <3>2 DEF Indices, last
      <4>2. i \in Nat /\ i - 1 \in 0..last - 1 /\ (i - 1) + 1 = i
        BY <1>1, <3>3, <4>1
      <4>3. last \in 0..MaxObjects - 1
        BY <1>1 DEF Slots
      <4>. QED
        BY <1>1, <4>2, <4>3, SizeAssumption DEF Indices, Slots
    <3>5. t.Object[i - 1] = s.Object[i]
      BY <2>1, <3>4
    <3>6. s.Object[i].Arrays \in Slots /\ s.Object[i].Arrays # a0
      BY <1>1, <1>4, <3>3, TableType DEF ArraysApart, a0
    <3>7. ListOf(t, i - 1) = ListOf(s, i)
      BY <1>1, <3>5, <3>6 DEF ListOf
    <3>. QED
      BY <3>2, <3>4, <3>7
  <2>. QED
    BY <2>3, <2>4 DEF AllListed
<1>. QED
  BY <1>3, <1>4

\* An object is added, without sources: or its base is set.
LEMMA SameSources ==
  ASSUME NEW s \in Tables, NEW t \in Tables,
         t.SourceBuffer = s.SourceBuffer, t.Pool = s.Pool,
         \A i \in Slots : t.Object[i].Arrays = s.Object[i].Arrays,
         s.ObjectCount <= t.ObjectCount
  PROVE  /\ AllDistinct(s) => AllDistinct(t)
         /\ ArraysApart(s) => ArraysApart(t)
         /\ AllListed(s) => AllListed(t)
<1>1. AllDistinct(s) => AllDistinct(t)
  BY DEF AllDistinct
<1>2. ArraysApart(s) => ArraysApart(t)
  BY DEF ArraysApart
<1>3. Indices(s) \subseteq Indices(t) /\ Indices(s) \subseteq Slots
  BY TableType DEF Indices
<1>4. \A i \in Indices(s) : ListOf(t, i) = ListOf(s, i)
  BY <1>3 DEF ListOf
<1>5. AllListed(s) => AllListed(t)
  BY <1>3, <1>4 DEF AllListed
<1>. QED
  BY <1>1, <1>2, <1>5

LEMMA ClearSources ==
  ASSUME NEW s \in Tables, AllDistinct(s), NEW t, t = EdbClearSymbol(s),
         NEW C, C = ClearedArrays(s)
  PROVE  /\ AllDistinct(t)
         /\ ArraysApart(s) /\ AllListed(s) => ArraysApart(t) /\ AllListed(t)
<1>2. /\ t \in Tables
      /\ \A i \in Slots : t.Object[i].Arrays = s.Object[i].Arrays
      /\ \A a \in Slots : t.SourceBuffer[a] =
           IF a \in C THEN <<>> ELSE s.SourceBuffer[a]
      /\ \A b \in Buffers : t.Pool[b] =
           IF \E a \in C : \E m \in 1..Len(s.SourceBuffer[a]) :
                s.SourceBuffer[a][m] = b
           THEN NULL ELSE s.Pool[b]
      /\ \A i \in Slots : s.Object[i].Arrays \in Slots
  <2>1. \A i \in Slots : s.Object[i].Arrays \in Slots
    BY TableType
  <2>2. t \in Tables /\ \A i \in Slots : t.Object[i].Arrays = s.Object[i].Arrays
    BY ClearEffect
  <2>3. /\ \A a \in Slots : t.SourceBuffer[a] =
             IF a \in C THEN <<>> ELSE s.SourceBuffer[a]
        /\ \A b \in Buffers : t.Pool[b] =
             IF \E a \in C : \E m \in 1..Len(s.SourceBuffer[a]) :
                  s.SourceBuffer[a][m] = b
             THEN NULL ELSE s.Pool[b]
    BY ClearEffect
  <2>. QED
    BY <2>1, <2>2, <2>3
<1>3. C \subseteq Slots /\ \A a \in Slots : s.SourceBuffer[a] \in Seq(Buffers)
  BY TableType DEF ClearedArrays
<1>4. ASSUME NEW a \in Slots, NEW m \in 1..Len(t.SourceBuffer[a])
      PROVE  /\ t.SourceBuffer[a] = s.SourceBuffer[a]
             /\ t.Pool[t.SourceBuffer[a][m]] # NULL
  <2>1. a \notin C
    <3>1. ASSUME a \in C PROVE FALSE
      <4>1. t.SourceBuffer[a] = <<>>
        BY <1>2, <3>1
      <4>. QED
        BY <4>1
    <3>. QED
      BY <3>1
  <2>2. t.SourceBuffer[a] = s.SourceBuffer[a]
    BY <1>2, <2>1
  <2>3. m \in 1..Len(s.SourceBuffer[a]) /\ s.SourceBuffer[a][m] \in Buffers
    BY <1>3, <2>2
  <2>4. s.Pool[s.SourceBuffer[a][m]] # NULL
    BY <2>3 DEF AllDistinct
  <2>5. ASSUME NEW c \in C, NEW n \in 1..Len(s.SourceBuffer[c]),
               s.SourceBuffer[c][n] = s.SourceBuffer[a][m]
        PROVE  FALSE
    BY <1>3, <2>1, <2>3, <2>5 DEF AllDistinct
  <2>. QED
    BY <1>2, <2>2, <2>3, <2>4, <2>5
<1>5. AllDistinct(t)
  <2>1. ASSUME NEW a \in Slots, NEW m \in 1..Len(t.SourceBuffer[a]),
               NEW b \in Slots, NEW n \in 1..Len(t.SourceBuffer[b]),
               t.SourceBuffer[b][n] = t.SourceBuffer[a][m]
        PROVE  a = b /\ m = n
    <3>1. t.SourceBuffer[a] = s.SourceBuffer[a] /\ t.SourceBuffer[b] = s.SourceBuffer[b]
      BY <1>4
    <3>. QED
      BY <2>1, <3>1 DEF AllDistinct
  <2>. QED
    BY <1>4, <2>1 DEF AllDistinct
<1>6. ArraysApart(s) => ArraysApart(t)
  BY <1>2 DEF ArraysApart
<1>7. ASSUME AllListed(s), NEW b \in Buffers PROVE t.Pool[b] = NULL
  <2>1. CASE s.Pool[b] = NULL
    BY <1>2, <2>1
  <2>2. CASE s.Pool[b] # NULL
    <3>1. PICK i \in Indices(s), m \in Nat :
            m \in 1..Len(ListOf(s, i)) /\ ListOf(s, i)[m] = b
      BY <1>7, <2>2 DEF AllListed
    <3>2. s.Object[i].Arrays \in C
      BY DEF ClearedArrays
    <3>. QED
      BY <1>2, <3>1, <3>2 DEF ListOf
  <2>. QED
    BY <2>1, <2>2
<1>. QED
  BY <1>5, <1>6, <1>7 DEF AllListed

LEMMA DropSources ==
  ASSUME NEW s \in Tables, NEW i \in Slots, NEW cod \in CodFiles,
         AllDistinct(s), NEW t, t = DropCode(s, i, cod)
  PROVE  /\ AllDistinct(t) /\ FreeBuffers(s) \subseteq FreeBuffers(t)
         /\ ArraysApart(s) => ArraysApart(t)
         /\ ArraysApart(s) /\ AllListed(s) => AllListed(t)
<1>1. t \in Tables /\ OnlyCode(s, t, i, cod, NULL)
  BY DropEffect
<1>2. t.Object = s.Object /\ t.ObjectCount = s.ObjectCount
  BY <1>1 DEF OnlyCode
<1>3. CASE t.SourceBuffer = s.SourceBuffer /\ t.Pool = s.Pool
  <2>1. s.ObjectCount <= t.ObjectCount
    BY <1>2, TableType
  <2>2. FreeBuffers(s) \subseteq FreeBuffers(t)
    BY <1>3 DEF FreeBuffers
  <2>. QED
    BY <1>1, <1>2, <1>3, <2>1, <2>2, SameSources
<1>4. ASSUME NEW k \in 1..Len(ListOf(s, i)),
             IsWithout(ListOf(t, i), ListOf(s, i), k),
             t.Pool = [s.Pool EXCEPT ![ListOf(s, i)[k]] = NULL]
      PROVE  /\ AllDistinct(t) /\ FreeBuffers(s) \subseteq FreeBuffers(t)
             /\ ArraysApart(s) => ArraysApart(t)
             /\ ArraysApart(s) /\ AllListed(s) => AllListed(t)
  <2>. DEFINE a == s.Object[i].Arrays
              q == ListOf(s, i)
              r == ListOf(t, i)
              At(m) == IF m < k THEN m ELSE m + 1
  <2>1. /\ a \in Slots /\ q = s.SourceBuffer[a] /\ r = t.SourceBuffer[a]
        /\ \A c \in Slots \ {a} : t.SourceBuffer[c] = s.SourceBuffer[c]
    BY <1>1, <1>2, TableType DEF ListOf, OnlyCode
  <2>2. /\ q \in Seq(Buffers) /\ r \in Seq(Buffers)
        /\ s.Pool \in [Buffers -> CodFiles \cup {NULL}]
        /\ \A c \in Slots : s.SourceBuffer[c] \in Seq(Buffers)
    BY <1>1, TableType
  <2>3. /\ Len(r) = Len(q) - 1 /\ Len(q) \in Nat /\ k \in 1..Len(q)
        /\ \A m \in 1..Len(q) - 1 : r[m] = q[At(m)]
    BY <1>4, <2>2 DEF IsWithout
  <2>. HIDE DEF q, r, a
  <2>4. \A m \in 1..Len(r) : At(m) \in 1..Len(q) /\ At(m) # k
    BY <2>3
  <2>5. \A m, n \in 1..Len(r) : At(m) = At(n) => m = n
    BY <2>3
  \* Where each element of a list was before.
  <2>. DEFINE Was(c, m) == IF c = a THEN At(m) ELSE m
  <2>6. ASSUME NEW c \in Slots, NEW m \in 1..Len(t.SourceBuffer[c])
        PROVE  /\ Was(c, m) \in 1..Len(s.SourceBuffer[c])
               /\ t.SourceBuffer[c][m] = s.SourceBuffer[c][Was(c, m)]
               /\ ~(c = a /\ Was(c, m) = k)
    <3>. HIDE DEF At
    <3>1. CASE c = a
      BY <2>1, <2>3, <2>4, <2>6, <3>1
    <3>2. CASE c # a
      BY <2>1, <2>6, <3>2
    <3>. QED
      BY <3>1, <3>2
  <2>7. ASSUME NEW c \in Slots, NEW m \in 1..Len(t.SourceBuffer[c])
        PROVE  t.Pool[t.SourceBuffer[c][m]] # NULL
    <3>. DEFINE n == Was(c, m)
    <3>1. /\ n \in 1..Len(s.SourceBuffer[c])
          /\ t.SourceBuffer[c][m] = s.SourceBuffer[c][n]
          /\ ~(c = a /\ n = k)
      BY <2>6
    <3>. HIDE DEF n
    <3>2. s.SourceBuffer[c][n] # q[k] /\ s.Pool[s.SourceBuffer[c][n]] # NULL
      BY <2>1, <2>3, <3>1 DEF AllDistinct
    <3>3. s.SourceBuffer[c][n] \in Buffers
      BY <2>2, <3>1
    <3>. QED
      BY <1>4, <2>2, <3>1, <3>2, <3>3 DEF q
  <2>8. ASSUME NEW c \in Slots, NEW m \in 1..Len(t.SourceBuffer[c]),
               NEW d \in Slots, NEW n \in 1..Len(t.SourceBuffer[d]),
               t.SourceBuffer[d][n] = t.SourceBuffer[c][m]
        PROVE  c = d /\ m = n
    <3>. HIDE DEF Was
    <3>1. c = d /\ Was(c, m) = Was(d, n)
      <4>1. PICK u, v : u = Was(c, m) /\ v = Was(d, n)
        OBVIOUS
      <4>2. /\ u \in 1..Len(s.SourceBuffer[c]) /\ v \in 1..Len(s.SourceBuffer[d])
            /\ s.SourceBuffer[d][v] = s.SourceBuffer[c][u]
        BY <2>6, <2>8, <4>1
      <4>3. c = d /\ u = v
        BY <4>2 DEF AllDistinct
      <4>. QED
        BY <4>1, <4>3
    <3>. HIDE DEF At
    <3>2. m = n
      BY <2>1, <2>5, <3>1 DEF Was
    <3>. QED
      BY <3>1, <3>2
  <2>9. AllDistinct(t)
    BY <2>7, <2>8 DEF AllDistinct
  <2>10. FreeBuffers(s) \subseteq FreeBuffers(t)
    BY <1>4, <2>2 DEF FreeBuffers
  <2>11. ArraysApart(s) => ArraysApart(t)
    BY <1>2 DEF ArraysApart
  <2>12. ASSUME ArraysApart(s), AllListed(s), NEW b \in Buffers, t.Pool[b] # NULL
         PROVE  \E j \in Indices(t) : \E m \in 1..Len(ListOf(t, j)) :
                  ListOf(t, j)[m] = b
    <3>1. b # q[k] /\ s.Pool[b] # NULL
      BY <1>4, <2>2, <2>12 DEF q
    <3>2. PICK j \in Indices(s), m \in Nat :
            m \in 1..Len(ListOf(s, j)) /\ ListOf(s, j)[m] = b
      BY <2>12, <3>1 DEF AllListed
    <3>3. j \in Indices(t) /\ j \in Slots
      BY <1>2, TableType DEF Indices
    <3>4. CASE j = i
      <4>1. m # k /\ m \in 1..Len(q) /\ q[m] = b
        BY <3>1, <3>2, <3>4 DEF q
      <4>2. CASE m < k
        <5>1. m \in 1..Len(r) /\ At(m) = m
          BY <2>3, <4>1, <4>2
        <5>2. r[m] = b
          BY <2>3, <4>1, <5>1
        <5>. QED
          BY <3>3, <3>4, <5>1, <5>2 DEF r
      <4>3. CASE m > k
        <5>1. m - 1 \in 1..Len(r) /\ At(m - 1) = m
          BY <2>3, <4>1, <4>3
        <5>2. r[m - 1] = b
          BY <2>3, <4>1, <5>1
        <5>. QED
          BY <3>3, <3>4, <5>1, <5>2 DEF r
      <4>. QED
        BY <2>3, <4>1, <4>2, <4>3
    <3>5. CASE j # i
      <4>1. s.Object[j].Arrays \in Slots \ {a}
        BY <2>12, <3>3, <3>5, TableType DEF ArraysApart, a
      <4>2. ListOf(t, j) = ListOf(s, j)
        BY <1>2, <2>1, <4>1 DEF ListOf
      <4>. QED
        BY <3>2, <3>3, <4>2
    <3>. QED
      BY <3>4, <3>5
  <2>. QED
    BY <2>9, <2>10, <2>11, <2>12 DEF AllListed
<1>. QED
  BY <1>3, <1>4, DropEffect

LEMMA AttachSources ==
  ASSUME NEW s \in Tables, NEW i \in Indices(s), NEW cod \in CodFiles,
         NEW buffer \in FreeBuffers(s), AllDistinct(s),
         NEW t, t = Attached(s, i, cod, buffer)
  PROVE  /\ AllDistinct(t)
         /\ ArraysApart(s) => ArraysApart(t)
         /\ ArraysApart(s) /\ AllListed(s) => AllListed(t)
<1>1. i \in Slots /\ buffer \in Buffers /\ s.Pool[buffer] = NULL
  BY TableType DEF FreeBuffers
<1>2. /\ t \in Tables /\ OnlyCode(s, t, i, cod, buffer)
      /\ ListOf(t, i) = Append(ListOf(s, i), buffer)
      /\ t.Pool = [s.Pool EXCEPT ![buffer] = cod]
  BY <1>1, AttachEffect
<1>3. t.Object = s.Object /\ t.ObjectCount = s.ObjectCount
  BY <1>2 DEF OnlyCode
<1>. DEFINE a == s.Object[i].Arrays
            q == ListOf(s, i)
<1>4. /\ a \in Slots /\ q = s.SourceBuffer[a]
      /\ t.SourceBuffer[a] = Append(q, buffer)
      /\ \A c \in Slots \ {a} : t.SourceBuffer[c] = s.SourceBuffer[c]
  BY <1>1, <1>2, <1>3, TableType DEF ListOf, OnlyCode
<1>5. /\ q \in Seq(Buffers)
      /\ s.Pool \in [Buffers -> CodFiles \cup {NULL}]
      /\ \A c \in Slots : s.SourceBuffer[c] \in Seq(Buffers)
  BY <1>1, TableType
<1>. HIDE DEF a, q
<1>6. ASSUME NEW c \in Slots, NEW m \in 1..Len(s.SourceBuffer[c])
      PROVE  /\ s.SourceBuffer[c][m] \in Buffers
             /\ s.SourceBuffer[c][m] # buffer
             /\ s.Pool[s.SourceBuffer[c][m]] # NULL
  BY <1>1, <1>5 DEF AllDistinct
\* An element of a list was there before, or is the new one.
<1>7. ASSUME NEW c \in Slots, NEW m \in 1..Len(t.SourceBuffer[c])
      PROVE  \/ /\ m \in 1..Len(s.SourceBuffer[c])
                /\ t.SourceBuffer[c][m] = s.SourceBuffer[c][m]
             \/ c = a /\ m = Len(q) + 1 /\ t.SourceBuffer[c][m] = buffer
  BY <1>4, <1>5
<1>8. ASSUME NEW c \in Slots, NEW m \in 1..Len(t.SourceBuffer[c])
      PROVE  t.Pool[t.SourceBuffer[c][m]] # NULL
  <2>1. cod # NULL
    BY NullAssumption
  <2>2. t.Pool[buffer] = cod /\ \A b \in Buffers \ {buffer} : t.Pool[b] = s.Pool[b]
    BY <1>1, <1>2, <1>5
  <2>. QED
    BY <1>6, <1>7, <2>1, <2>2
<1>9. ASSUME NEW c \in Slots, NEW m \in 1..Len(t.SourceBuffer[c]),
             NEW d \in Slots, NEW n \in 1..Len(t.SourceBuffer[d]),
             t.SourceBuffer[d][n] = t.SourceBuffer[c][m]
      PROVE  c = d /\ m = n
  <2>1. CASE t.SourceBuffer[c][m] = buffer
    <3>1. c = a /\ m = Len(q) + 1
      BY <1>6, <1>7, <2>1
    <3>2. d = a /\ n = Len(q) + 1
      BY <1>6, <1>7, <1>9, <2>1
    <3>. QED
      BY <3>1, <3>2
  <2>2. CASE t.SourceBuffer[c][m] # buffer
    <3>1. /\ m \in 1..Len(s.SourceBuffer[c]) /\ n \in 1..Len(s.SourceBuffer[d])
          /\ s.SourceBuffer[d][n] = s.SourceBuffer[c][m]
      BY <1>7, <1>9, <2>2
    <3>. QED
      BY <3>1 DEF AllDistinct
  <2>. QED
    BY <2>1, <2>2
<1>10. AllDistinct(t)
  BY <1>8, <1>9 DEF AllDistinct
<1>11. ArraysApart(s) => ArraysApart(t)
  BY <1>3 DEF ArraysApart
<1>12. ASSUME ArraysApart(s), AllListed(s), NEW b \in Buffers, t.Pool[b] # NULL
       PROVE  \E j \in Indices(t) : \E m \in 1..Len(ListOf(t, j)) :
                ListOf(t, j)[m] = b
  <2>1. i \in Indices(t) /\ Indices(t) = Indices(s)
    BY <1>3 DEF Indices
  <2>2. CASE b = buffer
    <3>1. Len(q) + 1 \in 1..Len(ListOf(t, i)) /\ ListOf(t, i)[Len(q) + 1] = buffer
      BY <1>2, <1>5 DEF q
    <3>. QED
      BY <2>1, <2>2, <3>1
  <2>3. CASE b # buffer
    <3>1. s.Pool[b] # NULL
      BY <1>2, <1>5, <1>12, <2>3
    <3>2. PICK j \in Indices(s), m \in Nat :
            m \in 1..Len(ListOf(s, j)) /\ ListOf(s, j)[m] = b
      BY <1>12, <3>1 DEF AllListed
    <3>3. CASE j = i
      <4>1. m \in 1..Len(ListOf(t, i)) /\ ListOf(t, i)[m] = b
        BY <1>2, <1>5, <3>2, <3>3 DEF q
      <4>. QED
        BY <2>1, <4>1
    <3>4. CASE j # i
      <4>1. j \in Slots /\ s.Object[j].Arrays \in Slots \ {a}
        BY <1>1, <1>12, <3>4, TableType DEF ArraysApart, a
      <4>2. ListOf(t, j) = ListOf(s, j)
        BY <1>3, <1>4, <4>1 DEF ListOf
      <4>. QED
        BY <2>1, <3>2, <4>2
    <3>. QED
      BY <3>3, <3>4
  <2>. QED
    BY <2>2, <2>3
<1>. QED
  BY <1>10, <1>11, <1>12 DEF AllListed
\* A map file is loaded, perhaps again.
LEMMA LoadSources ==
  ASSUME NEW s \in Tables, NEW file \in MapFiles, NEW base \in Nat,
         AllDistinct(s),
         NEW t, t = EdbPatchSymbolRVA(EdbLoadSymbol(s, file), file, base)
  PROVE  /\ AllDistinct(t)
         /\ /\ IsLoaded(s, file) => IndexOf(s, file) = 0
            /\ ArraysApart(s) /\ AllListed(s)
            => ArraysApart(t) /\ AllListed(t)
<1>. DEFINE InPlace == IsLoaded(s, file) => IndexOf(s, file) = 0
            Listed(v) == ArraysApart(v) /\ AllListed(v)
            u == EdbUnloadSymbol(s, file)
            v == EdbLoadSymbol(s, file)
<1>1. u \in Tables /\ AllDistinct(u) /\ (InPlace /\ Listed(s) => Listed(u))
  <2>1. CASE IsLoaded(s, file)
    <3>1. u \in Tables
      BY <2>1, UnloadEffect
    <3>. QED
      BY <2>1, <3>1, UnloadSources
  <2>2. CASE ~IsLoaded(s, file)
    BY <2>2 DEF EdbUnloadSymbol
  <2>. QED
    BY <2>1, <2>2
<1>2. v = IF u.ObjectCount >= MaxObjects THEN u ELSE FillObject(u, file)
  BY DEF EdbLoadSymbol
<1>3. t = EdbPatchSymbolRVA(v, file, base)
  OBVIOUS
<1>. HIDE DEF u, v
<1>4. v \in Tables /\ AllDistinct(v) /\ (Listed(u) => Listed(v))
  <2>1. u.ObjectCount \in Nat /\ MaxObjects \in Nat
    BY <1>1, TableType, SizeAssumption
  <2>2. CASE u.ObjectCount >= MaxObjects
    BY <1>1, <1>2, <2>2
  <2>3. CASE u.ObjectCount < MaxObjects
    <3>1. v = FillObject(u, file)
      BY <1>2, <2>1, <2>3
    <3>2. /\ v \in Tables /\ u.ObjectCount <= v.ObjectCount
          /\ v.SourceBuffer = u.SourceBuffer /\ v.Pool = u.Pool
          /\ \A i \in Slots : v.Object[i].Arrays = u.Object[i].Arrays
      <4>1. ASSUME NEW k, k = u.ObjectCount
            PROVE  /\ v \in Tables /\ v.ObjectCount = k + 1
                   /\ v.SourceBuffer = u.SourceBuffer /\ v.Pool = u.Pool
                   /\ \A i \in Slots \ {k} : v.Object[i] = u.Object[i]
                   /\ v.Object[k].Arrays = u.Object[k].Arrays
        BY <1>1, <2>3, <3>1, <4>1, FillEffect
      <4>. QED
        BY <2>1, <4>1
    <3>. QED
      BY <1>1, <3>2, SameSources
  <2>. QED
    BY <2>1, <2>2, <2>3
<1>5. AllDistinct(t) /\ (Listed(v) => Listed(t))
  <2>1. CASE IsLoaded(v, file)
    <3>1. /\ t \in Tables /\ v.ObjectCount <= t.ObjectCount
          /\ t.SourceBuffer = v.SourceBuffer /\ t.Pool = v.Pool
          /\ \A i \in Slots : t.Object[i].Arrays = v.Object[i].Arrays
      <4>1. ASSUME NEW k, k = IndexOf(v, file)
            PROVE  /\ t \in Tables /\ t.ObjectCount = v.ObjectCount
                   /\ t.SourceBuffer = v.SourceBuffer /\ t.Pool = v.Pool
                   /\ \A i \in Slots \ {k} : t.Object[i] = v.Object[i]
                   /\ t.Object[k].Arrays = v.Object[k].Arrays
        BY <1>3, <1>4, <2>1, <4>1, PatchEffect
      <4>2. v.ObjectCount \in Nat
        BY <1>4, TableType
      <4>. QED
        BY <4>1, <4>2
    <3>. QED
      BY <1>4, <3>1, SameSources
  <2>2. CASE ~IsLoaded(v, file)
    BY <1>3, <1>4, <2>2 DEF EdbPatchSymbolRVA
  <2>. QED
    BY <2>1, <2>2
<1>. QED
  BY <1>1, <1>4, <1>5

\* The code of a .cod file is loaded, perhaps again, or unloaded.
LEMMA CodSources ==
  ASSUME NEW s \in Tables, NEW file, NEW cod \in CodFiles, AllDistinct(s),
         NEW t, \/ t = LoadCodFile(s, file, cod) /\ FreeBuffers(s) # {}
                \/ t = UnloadCodFile(s, file, cod)
  PROVE  /\ AllDistinct(t)
         /\ ArraysApart(s) /\ AllListed(s) => ArraysApart(t) /\ AllListed(t)
<1>1. CASE ~IsLoaded(s, file)
  BY <1>1 DEF LoadCodFile, UnloadCodFile
<1>2. CASE IsLoaded(s, file)
  <2>. DEFINE i == IndexOf(s, file)
              d == DropCode(s, i, cod)
              buffer == ReadFileToBuffer(s)
  <2>1. i \in Slots /\ i \in Indices(s)
    BY <1>2, IndexOfLoaded
  <2>2. UnloadCodFile(s, file, cod) = d
    BY <1>2 DEF UnloadCodFile
  <2>3. FreeBuffers(s) # {} =>
          /\ buffer \in Buffers /\ s.Pool[buffer] = NULL
          /\ LoadCodFile(s, file, cod) = Attached(d, i, cod, buffer)
    BY <1>2, LoadCodSplit
  <2>. HIDE DEF i, buffer
  <2>4. /\ d \in Tables /\ AllDistinct(d) /\ FreeBuffers(s) \subseteq FreeBuffers(d)
        /\ ArraysApart(s) => ArraysApart(d)
        /\ ArraysApart(s) /\ AllListed(s) => AllListed(d)
        /\ Indices(d) = Indices(s)
    <3>1. d \in Tables /\ OnlyCode(s, d, i, cod, NULL)
      BY <2>1, DropEffect
    <3>2. Indices(d) = Indices(s)
      BY <3>1 DEF OnlyCode, Indices
    <3>. QED
      BY <2>1, <3>1, <3>2, DropSources
  <2>. HIDE DEF d
  <2>5. CASE t = d
    BY <2>4, <2>5
  <2>6. CASE t = LoadCodFile(s, file, cod) /\ FreeBuffers(s) # {}
    <3>1. buffer \in FreeBuffers(d) /\ t = Attached(d, i, cod, buffer)
      BY <2>3, <2>4, <2>6 DEF FreeBuffers
    <3>2. /\ AllDistinct(t)
          /\ ArraysApart(d) => ArraysApart(t)
          /\ ArraysApart(d) /\ AllListed(d) => AllListed(t)
      BY <2>1, <2>4, <3>1, AttachSources
    <3>. QED
      BY <2>4, <3>2
  <2>. QED
    BY <2>2, <2>5, <2>6
<1>. QED
  BY <1>1, <1>2

LEMMA SourceInit == Init => SourceInv
<1>. SUFFICES ASSUME Init PROVE AllDistinct(sym) /\ ArraysApart(sym) /\ AllListed(sym)
  BY DEF SourceInv
<1>1. /\ \A a \in Slots : sym.SourceBuffer[a] = <<>>
      /\ \A b \in Buffers : sym.Pool[b] = NULL
      /\ \A i \in Slots : sym.Object[i] = ZeroObject(i)
  BY DEF Init, EmptyTable
<1>2. \A i \in Slots : sym.Object[i].Arrays = i
  BY <1>1, ZeroTypes
<1>3. AllDistinct(sym)
  <2>1. \A a \in Slots : Len(sym.SourceBuffer[a]) = 0
    BY <1>1
  <2>. QED
    BY <2>1 DEF AllDistinct
<1>. QED
  BY <1>1, <1>2, <1>3 DEF ArraysApart, AllListed

LEMMA SourceNext == TInv /\ SourceInv /\ [Next]_vars => SourceInv'
<1>. DEFINE Listed(s) == ArraysApart(s) /\ AllListed(s)
<1>. SUFFICES ASSUME TInv, SourceInv, [Next]_vars
              PROVE  AllDistinct(sym') /\ (intact' => Listed(sym'))
  BY DEF SourceInv, AllDistinct, ArraysApart, AllListed, Indices, ListOf
<1>1. /\ sym \in Tables /\ CommandOK(command) /\ intact \in BOOLEAN
      /\ AllDistinct(sym) /\ (intact => Listed(sym))
  BY TInvParts DEF SourceInv
<1>2. ASSUME NEW file \in MapFiles, NEW withCode \in BOOLEAN,
             NEW base \in Bases[file],
             DebuggerLoadSymbol(file, withCode, base)
      PROVE  AllDistinct(sym') /\ (intact' => Listed(sym'))
  <2>1. base \in Nat
    BY AddressAssumption
  <2>2. /\ sym' = EdbPatchSymbolRVA(EdbLoadSymbol(sym, file), file, base)
        /\ intact' = (intact /\ (IsLoaded(sym, file) => IndexOf(sym, file) = 0))
    BY <1>2 DEF DebuggerLoadSymbol, UnloadsInPlace
  <2>. QED
    BY <1>1, <2>1, <2>2, LoadSources
<1>3. CASE LoadNextCod
  <2>. DEFINE cod == Directory[command.Next]
  <2>1. cod \in CodFiles
    BY <1>1, <1>3, CommandTypes DEF LoadNextCod, LoadCommand
  <2>2. /\ \/ UNCHANGED sym
           \/ FreeBuffers(sym) # {} /\ sym' = LoadCodFile(sym, command.File, cod)
        /\ intact' = intact
    BY <1>3 DEF LoadNextCod
  <2>. HIDE DEF cod
  <2>. QED
    BY <1>1, <2>1, <2>2, CodSources
<1>4. ASSUME NEW file \in MapFiles, DebuggerUnloadSymbol(file)
      PROVE  AllDistinct(sym') /\ (intact' => Listed(sym'))
  BY <1>1, <1>4 DEF DebuggerUnloadSymbol
<1>5. CASE UnloadNextCod
  <2>. DEFINE cod == Directory[command.Next]
  <2>1. command \in UnloadCommand /\ command.Next <= Len(Directory)
    BY <1>1, <1>5, CommandTypes DEF UnloadNextCod
  <2>2. cod \in CodFiles
    BY <2>1, CommandTypes DEF UnloadCommand
  <2>3. sym' = UnloadCodFile(sym, command.File, cod) /\ intact' = intact
    BY <1>5 DEF UnloadNextCod
  <2>. HIDE DEF cod
  <2>. QED
    BY <1>1, <2>2, <2>3, CodSources
<1>6. CASE FinishUnload
  <2>1. /\ sym' = EdbUnloadSymbol(sym, command.File)
        /\ intact' = (intact /\ (IsLoaded(sym, command.File) =>
                                   IndexOf(sym, command.File) = 0))
    BY <1>6 DEF FinishUnload, UnloadsInPlace
  <2>2. CASE IsLoaded(sym, command.File)
    BY <1>1, <2>1, <2>2, UnloadSources
  <2>3. CASE ~IsLoaded(sym, command.File)
    BY <1>1, <2>1, <2>3 DEF EdbUnloadSymbol
  <2>. QED
    BY <2>2, <2>3
<1>7. ASSUME NEW file \in MapFiles, NEW cod \in CodFiles,
             DebuggerLoadCode(file, cod) \/ DebuggerUnloadCode(file, cod)
      PROVE  AllDistinct(sym') /\ (intact' => Listed(sym'))
  <2>1. /\ \/ sym' = LoadCodFile(sym, file, cod) /\ FreeBuffers(sym) # {}
           \/ sym' = UnloadCodFile(sym, file, cod)
        /\ intact' = intact
    BY <1>7 DEF DebuggerLoadCode, DebuggerUnloadCode
  <2>. QED
    BY <1>1, <2>1, CodSources
<1>8. CASE BeginSession
  <2>1. /\ sym' \in Tables /\ sym'.Object = sym.Object
        /\ sym'.SourceBuffer = sym.SourceBuffer /\ sym'.Pool = sym.Pool
        /\ intact' => intact /\ sym.ObjectCount = 0 /\ sym'.ObjectCount = 0
    <3>1. /\ sym' = [sym EXCEPT !.ObjectCount = 0]
          /\ intact' = (intact /\ sym.ObjectCount = 0)
      BY <1>8 DEF BeginSession
    <3>2. sym \in SymbolContext /\ sym' \in Tables
      BY <1>1, <3>1, EmptyTableOK DEF Tables
    <3>. QED
      BY <1>1, <3>1, <3>2 DEF SymbolContext
  <2>2. AllDistinct(sym')
    BY <1>1, <2>1 DEF AllDistinct
  <2>3. intact' => Listed(sym')
    BY <1>1, <2>1 DEF ArraysApart, AllListed, Indices, ListOf
  <2>. QED
    BY <2>2, <2>3
<1>9. CASE Quit
  <2>1. sym' = EdbClearSymbol(sym) /\ intact' = intact
    BY <1>9 DEF Quit
  <2>. QED
    BY <1>1, <2>1, ClearSources
<1>10. CASE UNCHANGED vars
  BY <1>1, <1>10 DEF vars
<1>. QED
  BY <1>2, <1>3, <1>4, <1>5, <1>6, <1>7, <1>8, <1>9, <1>10 DEF Next

\* No source buffer is in two lists, or twice in one, and all that are in a
\* list are allocated: whatever is loaded, unloaded and loaded again, over
\* sessions too, none is freed twice (EdbDeleteCodeBuffer, EdbClearSymbol).
THEOREM SourcesDistinct == Spec => []SourcesListedOnce
<1>1. SourceInv => SourcesListedOnce
  BY DEF SourceInv, SourcesListedOnce, AllDistinct
<1>. QED
  BY <1>1, TInvInit, TInvNext, SourceInit, SourceNext, PTL DEF Spec

\* As long as only the first file is taken out and no session begins over
\* loaded files, every allocated source buffer is in the list of an object of
\* the table, so that QUIT frees it, and each object has arrays of its own.
THEOREM SourcesKept == Spec => []NoSourceLost
<1>1. TInv /\ SourceInv => NoSourceLost
  <2>. SUFFICES ASSUME TInv, SourceInv, intact PROVE
         /\ \A b \in Buffers : sym.Pool[b] # NULL =>
              \E i \in Indices(sym) :
                b \in ToSet(sym.SourceBuffer[sym.Object[i].Arrays])
         /\ ArraysApart(sym)
    BY DEF NoSourceLost, ArraysApart
  <2>1. ArraysApart(sym) /\ AllListed(sym)
    BY DEF SourceInv
  <2>2. ASSUME NEW b \in Buffers, sym.Pool[b] # NULL
        PROVE  \E i \in Indices(sym) :
                 b \in ToSet(sym.SourceBuffer[sym.Object[i].Arrays])
    <3>1. PICK i \in Indices(sym), m \in Nat :
            m \in 1..Len(ListOf(sym, i)) /\ ListOf(sym, i)[m] = b
      BY <2>1, <2>2 DEF AllListed
    <3>2. b \in ToSet(ListOf(sym, i))
      BY <3>1 DEF ToSet
    <3>. QED
      BY <3>2 DEF ListOf
  <2>. QED
    BY <2>1, <2>2
<1>. QED
  BY <1>1, TInvInit, TInvNext, SourceInit, SourceNext, PTL DEF Spec
-----------------------------------------------------------------------------
(* Looking symbols up.                                                     *)

\* A symbol found by name is the only one of that name.
THEOREM NamesUnique == Spec => []SymbolUnique
<1>1. ASSUME TInv PROVE SymbolUnique
  <2>. SUFFICES ASSUME NEW name \in Names
       PROVE LET address == Symboltoi(sym, name)
                 found == {p \in Symbols(sym) :
                             EntryOf(sym, p[1], p[2]).Name = name}
             IN /\ \A p \in found :
                     found = {p} => address = AddressOf(sym, p[1], p[2])
                /\ address # 0 =>
                     \E p \in found :
                       /\ address = AddressOf(sym, p[1], p[2])
                       /\ \A q \in found \ {p} : AddressOf(sym, q[1], q[2]) = 0
    BY DEF SymbolUnique
  <2>. DEFINE At(p) == AddressOf(sym, p[1], p[2])
              found == {p \in Symbols(sym) :
                          EntryOf(sym, p[1], p[2]).Name = name}
              nonzero == {p \in found : At(p) # 0}
              Before(p, q) == p[1] < q[1] \/ (p[1] = q[1] /\ p[2] < q[2])
              address == Symboltoi(sym, name)
  <2>1. address = IF \E p \in nonzero, q \in found : Before(p, q) THEN 0
                  ELSE IF nonzero = {} THEN 0
                  ELSE At(CHOOSE p \in nonzero : TRUE)
    BY DEF Symboltoi
  \* Of two symbols one is before the other.
  <2>2. \A p, q \in found : p # q => Before(p, q) \/ Before(q, p)
    <3>1. ASSUME NEW p \in found
          PROVE  p = <<p[1], p[2]>> /\ p[1] \in Int /\ p[2] \in Int
      <4>1. p \in Indices(sym) \X EntrySlots
        BY DEF Symbols
      <4>2. PICK i \in Indices(sym), e \in EntrySlots : p = <<i, e>>
        BY <4>1
      <4>3. i \in Int /\ e \in Int
        BY DEF Indices, EntrySlots
      <4>. QED
        BY <4>2, <4>3
    <3>. HIDE DEF found
    <3>. QED
      BY <3>1
  <2>. HIDE DEF At, found, Before, address
  <2>3. ASSUME NEW p \in found, found = {p} PROVE address = At(p)
    <3>1. ~Before(p, p)
      <4>1. p \in Indices(sym) \X EntrySlots
        BY DEF Symbols, found
      <4>2. Indices(sym) \subseteq Int /\ EntrySlots \subseteq Int
        BY DEF Indices, EntrySlots
      <4>3. p[1] \in Int /\ p[2] \in Int
        BY <4>1, <4>2
      <4>. QED
        BY <4>3 DEF Before
    <3>2. CASE At(p) = 0
      BY <2>1, <2>3, <3>2
    <3>3. CASE At(p) # 0
      <4>1. nonzero = {p}
        BY <2>3, <3>3
      <4>. QED
        BY <2>1, <2>3, <3>1, <4>1
    <3>. QED
      BY <3>2, <3>3
  <2>4. ASSUME address # 0
        PROVE  \E p \in found : /\ address = At(p)
                                /\ \A q \in found \ {p} : At(q) = 0
    <3>1. PICK p \in nonzero : address = At(p)
      BY <2>1, <2>4
    <3>2. ASSUME NEW q \in found \ {p}, At(q) # 0 PROVE FALSE
      <4>1. q \in nonzero /\ p \in found /\ (Before(p, q) \/ Before(q, p))
        BY <2>2, <3>1, <3>2
      <4>. QED
        BY <2>1, <2>4, <3>1, <4>1
    <3>. QED
      BY <3>1, <3>2
  <2>. QED
    BY <2>3, <2>4 DEF At, found, address
<1>. QED
  BY <1>1, TInvInit, TInvNext, PTL DEF Spec

LEMMA AddressesType ==
  ASSUME sym \in Tables
  PROVE  Addresses(sym) \subseteq 0..MaxAddress
<1>1. ASSUME NEW i \in Indices(sym), NEW e \in EntrySlots
      PROVE  AddressOf(sym, i, e) \in 0..MaxAddress
  <2>1. EntryOf(sym, i, e) \in EntryRecord /\ sym.Object[i].BaseAddress \in Nat
    BY TableType
  <2>2. EntryOf(sym, i, e).Rva \in Nat
    BY <2>1, AddressAssumption DEF EntryRecord
  <2>. DEFINE sum == EntryOf(sym, i, e).Rva + sym.Object[i].BaseAddress
              size == MaxAddress + 1
  <2>3. sum \in Nat /\ size \in Nat /\ size > 0
    BY <2>1, <2>2, AddressAssumption
  <2>. HIDE DEF sum
  <2>4. sum % size \in 0..size - 1
    BY <2>3
  <2>. QED
    BY <2>4, AddressAssumption DEF AddressOf, sum
<1>2. ASSUME NEW p \in Symbols(sym)
      PROVE  p[1] \in Indices(sym) /\ p[2] \in EntrySlots
  BY DEF Symbols
<1>. QED
  BY <1>1, <1>2 DEF Addresses

LEMMA Extremes ==
  ASSUME NEW N \in Nat, NEW S \in SUBSET (0..N), S # {}
  PROVE  /\ Greatest(S) \in S /\ \A x \in S : x <= Greatest(S)
         /\ Least(S) \in S /\ \A x \in S : Least(S) <= x
<1>1. \E n \in S : \A m \in S : m <= n
  BY GreatestExists
<1>2. \E n \in S : \A m \in S : n <= m
  <2>1. S \in SUBSET Nat
    OBVIOUS
  <2>. QED
    BY <2>1, LeastExists
<1>. QED
  BY <1>1, <1>2 DEF Greatest, Least

\* The symbol shown for an address is one of the table, none that would do is
\* nearer, and one within Delta is found.
THEOREM NearestFound == Spec => []NearestSymbol
<1>1. ASSUME TInv PROVE NearestSymbol
  <2>. DEFINE addresses == Addresses(sym)
  <2>1. addresses \subseteq 0..MaxAddress /\ MaxAddress \in Nat /\ Delta \in Nat
    BY <1>1, TInvParts, AddressesType, AddressAssumption
  <2>. HIDE DEF addresses
  <2>2. ASSUME NEW address \in 1..MaxAddress - 1,
               NEW type \in {"lower", "upper", "nearest"}
        PROVE  LET found == EbdFindSymbolAddress(addresses, address, type)
                   Distance(a) == IF a < address THEN address - a
                                  ELSE a - address
                   candidates == {a \in addresses \ {0} :
                                    CASE type = "lower" -> a <= address
                                      [] type = "upper" -> a >= address
                                      [] OTHER -> TRUE}
                   near == {a \in candidates : Distance(a) < Delta}
               IN /\ found \notin {0, MaxAddress} =>
                       /\ found \in candidates
                       /\ \A a \in candidates : Distance(found) <= Distance(a)
                  /\ type # "nearest" /\ near # {} => found \in near
    <3>. DEFINE found == EbdFindSymbolAddress(addresses, address, type)
                Distance(a) == IF a < address THEN address - a ELSE a - address
                Fits(a) == CASE type = "lower" -> a <= address
                             [] type = "upper" -> a >= address
                             [] OTHER -> TRUE
                candidates == {a \in addresses \ {0} : Fits(a)}
                near == {a \in candidates : Distance(a) < Delta}
                L == {0} \cup {a \in addresses : a < address}
                U == {MaxAddress} \cup {a \in addresses : a > address}
                lower == Greatest(L)
                upper == Least(U)
                Good == /\ found \notin {0, MaxAddress} =>
                             /\ found \in candidates
                             /\ \A a \in candidates : Distance(found) <= Distance(a)
                        /\ type # "nearest" /\ near # {} => found \in near
    <3>1. lower \in L /\ \A a \in L : a <= lower
      <4>1. L \in SUBSET (0..MaxAddress) /\ 0 \in L
        <5>1. \A a \in addresses : a \in 0..MaxAddress
          BY <2>1
        <5>2. 0 \in 0..MaxAddress
          BY <2>1
        <5>. QED
          BY <5>1, <5>2
      <4>. HIDE DEF L
      <4>. QED
        BY <2>1, <4>1, Extremes
    <3>2. upper \in U /\ \A a \in U : upper <= a
      <4>1. U \in SUBSET (0..MaxAddress) /\ MaxAddress \in U
        <5>1. \A a \in addresses : a \in 0..MaxAddress
          BY <2>1
        <5>2. MaxAddress \in 0..MaxAddress
          BY <2>1
        <5>. QED
          BY <5>1, <5>2
      <4>. HIDE DEF U
      <4>. QED
        BY <2>1, <4>1, Extremes
    <3>3. found = IF address \in addresses THEN address
                  ELSE IF address - lower < Delta
                          /\ (type = "lower" \/
                              (type = "nearest" /\
                               upper - address > address - lower))
                  THEN lower
                  ELSE IF upper - address < Delta
                          /\ (type = "upper" \/
                              (type = "nearest" /\
                               upper - address < address - lower))
                  THEN upper
                  ELSE 0
      BY DEF EbdFindSymbolAddress
    <3>. HIDE DEF found, lower, upper
    <3>4. /\ lower \in 0..address - 1 /\ upper \in address + 1..MaxAddress
          /\ lower = 0 \/ lower \in addresses
          /\ upper = MaxAddress \/ upper \in addresses
          /\ \A a \in addresses : /\ a \in 0..MaxAddress
                                  /\ a < address => a <= lower
                                  /\ a > address => upper <= a
      BY <2>1, <3>1, <3>2
    <3>. HIDE DEF L, U
    <3>5. ASSUME address \in addresses PROVE Good
      <4>1. found = address /\ address \in Nat /\ address # 0
        BY <3>3, <3>5
      <4>2. Fits(address) /\ Distance(address) = 0
        OBVIOUS
      <4>3. \A a \in candidates : Distance(a) >= 0
        BY <3>4
      <4>4. ASSUME near # {} PROVE Delta > 0
        <5>1. PICK a \in near : TRUE
          BY <4>4
        <5>. QED
          BY <2>1, <3>4, <5>1
      <4>. HIDE DEF Fits, Distance
      <4>. QED
        BY <2>1, <3>5, <4>1, <4>2, <4>3, <4>4
    <3>6. ASSUME address \notin addresses PROVE Good
      <4>1. \A a \in candidates :
              /\ a \in addresses /\ a # 0 /\ a \in Nat
              /\ type = "lower" => a <= lower
              /\ type = "upper" => a >= upper
              /\ a <= lower \/ a >= upper
        BY <3>4, <3>6
      <4>2. CASE type = "lower"
        <5>1. found = IF address - lower < Delta THEN lower ELSE 0
          BY <3>3, <3>6, <4>2
        <5>2. \A a \in candidates : Distance(a) >= address - lower
          BY <3>4, <4>1, <4>2
        <5>3. Fits(lower) /\ Distance(lower) = address - lower
          BY <3>4, <4>2
        <5>4. lower # 0 => lower \in candidates
          BY <3>4, <5>3
        <5>5. ASSUME NEW a \in near PROVE found = lower /\ lower # 0
          <6>1. a \in candidates /\ Distance(a) < Delta
            OBVIOUS
          <6>2. Distance(a) \in Int /\ address - lower < Delta
            BY <2>1, <3>4, <4>1, <5>2, <6>1
          <6>3. lower # 0
            BY <3>4, <4>1, <4>2, <6>1
          <6>. QED
            BY <5>1, <6>2, <6>3
        <5>6. found # 0 => address - lower < Delta
          BY <5>1
        <5>. HIDE DEF Fits, Distance, candidates
        <5>. QED
          BY <4>2, <5>1, <5>2, <5>3, <5>4, <5>5, <5>6
      <4>3. CASE type = "upper"
        <5>1. found = IF upper - address < Delta THEN upper ELSE 0
          BY <3>3, <3>6, <4>3
        <5>2. \A a \in candidates : Distance(a) >= upper - address
          BY <3>4, <4>1, <4>3
        <5>3. Fits(upper) /\ Distance(upper) = upper - address
          BY <3>4, <4>3
        <5>4. upper \in addresses => upper \in candidates
          BY <3>4, <5>3
        <5>5. ASSUME NEW a \in near
              PROVE found = upper /\ upper \in addresses
          <6>1. a \in candidates /\ Distance(a) < Delta
            OBVIOUS
          <6>2. Distance(a) \in Int /\ upper - address < Delta
            BY <2>1, <3>4, <4>1, <5>2, <6>1
          <6>3. upper \in addresses
            BY <3>4, <4>1, <4>3, <6>1
          <6>. QED
            BY <5>1, <6>2, <6>3
        <5>6. found # 0 => upper - address < Delta
          BY <5>1
        <5>. HIDE DEF Fits, Distance, candidates
        <5>. QED
          BY <3>4, <4>3, <5>1, <5>2, <5>3, <5>4, <5>5, <5>6
      <4>4. CASE type = "nearest"
        <5>1. /\ found \in {0, lower, upper}
              /\ found = lower /\ found # 0 => upper - address > address - lower
              /\ found = upper => upper - address < address - lower
          BY <3>3, <3>4, <3>6, <4>4
        <5>2. \A a \in candidates :
                Distance(a) >= upper - address \/ Distance(a) >= address - lower
          BY <3>4, <4>1, <4>4
        <5>3. /\ Fits(upper) /\ Distance(upper) = upper - address
              /\ Fits(lower) /\ Distance(lower) = address - lower
          BY <3>4, <4>4
        <5>4. \A a \in candidates : Distance(a) \in Int
          BY <3>4, <4>1
        <5>5. found \notin {0, MaxAddress} => found \in candidates
          BY <3>4, <5>1, <5>3
        <5>. HIDE DEF Fits, Distance, candidates
        <5>. QED
          BY <3>4, <4>4, <5>1, <5>2, <5>3, <5>4, <5>5
      <4>. QED
        BY <4>2, <4>3, <4>4
    <3>7. Good
      <4>. HIDE DEF Good
      <4>. QED
        BY <3>5, <3>6
    <3>. QED
      BY <3>7 DEF found
  <2>. QED
    BY <2>2 DEF NearestSymbol, addresses
<1>. QED
  BY <1>1, TInvInit, TInvNext, PTL DEF Spec
-----------------------------------------------------------------------------
(* A map file is read as the linker wrote it.                              *)

\* What the lines up to n have.
HeaderBy(lines, n) == \E m \in 1..n : lines[m].Kind = "Address"
StaticBy(lines, n) == \E m \in 1..n : lines[m].Kind = "Static"
IsOf(line, prefix) == line.Kind = "symbol" /\ Prefix[line.Name] = prefix
IsOther(line) == line.Kind = "symbol" /\ Prefix[line.Name] # "SeHandler"
SeenBy(lines, n, prefix) == \E m \in 1..n : IsOf(lines[m], prefix)
OtherBy(lines, n) == \E m \in 1..n : IsOther(lines[m])

\* The state of the parser after line n of a file in the linker's order.
StateBy(lines, n, at) ==
  IF StaticBy(lines, n) THEN at = "StaticFunction"
  ELSE IF SeenBy(lines, n, "Crt") THEN at \in {"Crt", "Variable"}
  ELSE IF OtherBy(lines, n) THEN at \in {"Function", "VarbssInit"}
  ELSE IF SeenBy(lines, n, "SeHandler") THEN at = "SeHandler"
  ELSE at = IF HeaderBy(lines, n) THEN "SymbolStart" ELSE "Uninitialized"

LEMMA ByLine ==
  ASSUME NEW lines, NEW n \in Nat \ {0}
  PROVE  /\ HeaderBy(lines, n) <=> HeaderBy(lines, n - 1) \/ lines[n].Kind = "Address"
         /\ StaticBy(lines, n) <=> StaticBy(lines, n - 1) \/ lines[n].Kind = "Static"
         /\ \A prefix : SeenBy(lines, n, prefix) <=>
                          SeenBy(lines, n - 1, prefix) \/ IsOf(lines[n], prefix)
         /\ OtherBy(lines, n) <=> OtherBy(lines, n - 1) \/ IsOther(lines[n])
<1>1. 1..n = (1..n - 1) \cup {n}
  OBVIOUS
<1>2. HeaderBy(lines, n) <=> HeaderBy(lines, n - 1) \/ lines[n].Kind = "Address"
  BY <1>1, Zenon DEF HeaderBy
<1>3. StaticBy(lines, n) <=> StaticBy(lines, n - 1) \/ lines[n].Kind = "Static"
  BY <1>1, Zenon DEF StaticBy
<1>4. ASSUME NEW prefix
      PROVE  SeenBy(lines, n, prefix) <=>
               SeenBy(lines, n - 1, prefix) \/ IsOf(lines[n], prefix)
  BY <1>1, Zenon DEF SeenBy
<1>5. OtherBy(lines, n) <=> OtherBy(lines, n - 1) \/ IsOther(lines[n])
  BY <1>1, Zenon DEF OtherBy
<1>. QED
  BY <1>2, <1>3, <1>4, <1>5

\* The order of the linker, in these terms.
LEMMA LinkerOrder ==
  ASSUME NEW file \in MapFiles, NEW lines, lines = Lines[file],
         NEW n \in 1..Len(lines), NEW line, line = lines[n]
  PROVE  /\ line.Kind = "symbol" => HeaderBy(lines, n)
         /\ line.Kind = "Address" =>
              /\ ~StaticBy(lines, n - 1) /\ ~OtherBy(lines, n - 1)
              /\ \A prefix : ~SeenBy(lines, n - 1, prefix)
         /\ IsOf(line, "SeHandler") =>
              ~StaticBy(lines, n) /\ ~OtherBy(lines, n - 1)
         /\ IsOther(line) =>
              IF StaticBy(lines, n) THEN IsOf(line, "none") /\ line.F
              ELSE /\ SeenBy(lines, n - 1, "SeHandler")
                   /\ line.F <=> ~IsOf(line, "Crt") /\ ~SeenBy(lines, n - 1, "Crt")
                   /\ IsOf(line, "VarbssInit") => line.F
<1>. DEFINE IsSymbol(m) == lines[m].Kind = "symbol"
            Is(m, prefix) == IsSymbol(m) /\ Prefix[lines[m].Name] = prefix
            Static(m) == \E k \in 1..m : lines[k].Kind = "Static"
            Follows(m, prefix) == \E k \in 1..m - 1 : Is(k, prefix)
<1>1. /\ IsSymbol(n) => \E m \in 1..n : lines[m].Kind = "Address"
      /\ lines[n].Kind = "Address" =>
           \A m \in 1..n - 1 : lines[m].Kind \notin {"symbol", "Static"}
      /\ Is(n, "SeHandler") =>
           /\ ~Static(n)
           /\ \A m \in 1..n - 1 : IsSymbol(m) => Is(m, "SeHandler")
      /\ IsSymbol(n) /\ ~Is(n, "SeHandler") =>
           IF Static(n) THEN Is(n, "none") /\ lines[n].F
           ELSE /\ Follows(n, "SeHandler")
                /\ lines[n].F <=> ~Is(n, "Crt") /\ ~Follows(n, "Crt")
                /\ Is(n, "VarbssInit") => lines[n].F
  BY LinkerAssumption DEF InLinkerOrder
<1>2. Is(n, "SeHandler") \/ IsSymbol(n) => (IsOther(line) <=> ~Is(n, "SeHandler"))
  BY DEF IsOther
<1>3. line.Kind = "Address" =>
        /\ ~StaticBy(lines, n - 1) /\ ~OtherBy(lines, n - 1)
        /\ \A prefix : ~SeenBy(lines, n - 1, prefix)
  BY <1>1 DEF StaticBy, OtherBy, SeenBy, IsOther, IsOf
<1>4. IsOf(line, "SeHandler") =>
        ~StaticBy(lines, n) /\ ~OtherBy(lines, n - 1)
  BY <1>1 DEF StaticBy, OtherBy, IsOther, IsOf
<1>5. \A prefix : /\ IsOf(line, prefix) <=> Is(n, prefix)
                  /\ SeenBy(lines, n - 1, prefix) <=> Follows(n, prefix)
  BY DEF IsOf, SeenBy
<1>6. StaticBy(lines, n) <=> Static(n)
  BY DEF StaticBy
<1>7. line.Kind = "symbol" => HeaderBy(lines, n)
  BY <1>1 DEF HeaderBy
<1>8. IsOther(line) =>
        IF StaticBy(lines, n) THEN IsOf(line, "none") /\ line.F
        ELSE /\ SeenBy(lines, n - 1, "SeHandler")
             /\ line.F <=> ~IsOf(line, "Crt") /\ ~SeenBy(lines, n - 1, "Crt")
             /\ IsOf(line, "VarbssInit") => line.F
  <2>1. IsOther(line) => IsSymbol(n) /\ ~Is(n, "SeHandler")
    BY DEF IsOther
  <2>. HIDE DEF IsSymbol, Is, Static, Follows
  <2>. QED
    BY <1>1, <1>5, <1>6, <2>1
<1>. QED
  BY <1>3, <1>4, <1>7, <1>8

LEMMA ParserFollows ==
  ASSUME NEW file \in MapFiles, NEW lines, lines = Lines[file],
         NEW n \in 1..Len(lines), NEW line, line = lines[n],
         NEW at, StateBy(lines, n - 1, at),
         NEW next, next = NextParseState(at, line)
  PROVE  /\ StateBy(lines, n, next)
         /\ IsOf(line, "SeHandler") => next = "SeHandler"
         /\ IsOther(line) =>
              /\ next \notin {"Uninitialized", "SeHandler"}
              /\ SymbolType(next, line) = LinkedSymbol(lines, n).Type
              /\ SymbolType(next, line) # "Max"
<1>1. line \in Line /\ n \in Nat \ {0}
  BY LineType
<1>2. /\ Prefix[line.Name] \in {"SeHandler", "VarbssInit", "Crt", "none"}
      /\ line.Kind \in {"Address", "Static", "entry", "symbol", "other"}
      /\ line.F \in BOOLEAN
  BY <1>1, FileAssumption DEF Line
<1>3. /\ HeaderBy(lines, n) <=> HeaderBy(lines, n - 1) \/ line.Kind = "Address"
      /\ StaticBy(lines, n) <=> StaticBy(lines, n - 1) \/ line.Kind = "Static"
      /\ SeenBy(lines, n, "Crt") <=>
           SeenBy(lines, n - 1, "Crt") \/ IsOf(line, "Crt")
      /\ SeenBy(lines, n, "SeHandler") <=>
           SeenBy(lines, n - 1, "SeHandler") \/ IsOf(line, "SeHandler")
      /\ OtherBy(lines, n) <=> OtherBy(lines, n - 1) \/ IsOther(line)
  BY <1>1, ByLine
<1>4. SeenBy(lines, n - 1, "Crt") => OtherBy(lines, n - 1)
  BY DEF SeenBy, OtherBy, IsOf, IsOther
<1>5. /\ line.Kind = "symbol" => HeaderBy(lines, n)
      /\ line.Kind = "Address" =>
           /\ ~StaticBy(lines, n - 1) /\ ~OtherBy(lines, n - 1)
           /\ ~SeenBy(lines, n - 1, "SeHandler") /\ ~SeenBy(lines, n - 1, "Crt")
      /\ IsOf(line, "SeHandler") =>
           ~StaticBy(lines, n) /\ ~OtherBy(lines, n - 1)
      /\ IsOther(line) =>
           IF StaticBy(lines, n) THEN IsOf(line, "none") /\ line.F
           ELSE /\ SeenBy(lines, n - 1, "SeHandler")
                /\ line.F <=> ~IsOf(line, "Crt") /\ ~SeenBy(lines, n - 1, "Crt")
                /\ IsOf(line, "VarbssInit") => line.F
  BY LinkerOrder
<1>6. LinkedSymbol(lines, n).Type =
        IF ~line.F THEN "GlobalVariable"
        ELSE IF StaticBy(lines, n) THEN "StaticFunction" ELSE "Function"
  BY DEF LinkedSymbol, StaticBy
<1>7. ASSUME line.Kind # "symbol"
      PROVE  ~IsOther(line) /\ \A prefix : ~IsOf(line, prefix)
  BY <1>7 DEF IsOf, IsOther
<1>8. CASE line.Kind = "Address"
  <2>1. next = "SymbolStart"
    BY <1>8 DEF NextParseState
  <2>2. ~IsOther(line) /\ \A prefix : ~IsOf(line, prefix)
    BY <1>7, <1>8
  <2>3. /\ HeaderBy(lines, n) /\ ~StaticBy(lines, n) /\ ~OtherBy(lines, n)
        /\ ~SeenBy(lines, n, "Crt") /\ ~SeenBy(lines, n, "SeHandler")
    BY <1>3, <1>5, <1>8, <2>2
  <2>4. StateBy(lines, n, next)
    BY <2>1, <2>3 DEF StateBy
  <2>. QED
    BY <2>2, <2>4
<1>9. CASE line.Kind = "Static"
  <2>1. next = "StaticFunction"
    BY <1>9 DEF NextParseState
  <2>2. StateBy(lines, n, next)
    BY <1>3, <1>9, <2>1 DEF StateBy
  <2>. QED
    BY <1>7, <1>9, <2>2
<1>12. CASE line.Kind \notin {"Address", "Static", "symbol"}
  <2>1. next = at
    BY <1>12 DEF NextParseState
  <2>2. ~IsOther(line) /\ \A prefix : ~IsOf(line, prefix)
    BY <1>7, <1>12
  <2>3. /\ HeaderBy(lines, n) <=> HeaderBy(lines, n - 1)
        /\ StaticBy(lines, n) <=> StaticBy(lines, n - 1)
        /\ SeenBy(lines, n, "Crt") <=> SeenBy(lines, n - 1, "Crt")
        /\ SeenBy(lines, n, "SeHandler") <=> SeenBy(lines, n - 1, "SeHandler")
        /\ OtherBy(lines, n) <=> OtherBy(lines, n - 1)
    BY <1>3, <1>12, <2>2
  <2>4. StateBy(lines, n, next)
    BY <2>1, <2>3 DEF StateBy
  <2>. QED
    BY <2>2, <2>4
<1>10. CASE IsOf(line, "SeHandler")
  <2>1. /\ line.Kind = "symbol" /\ Prefix[line.Name] = "SeHandler"
        /\ ~IsOther(line) /\ ~IsOf(line, "Crt")
    BY <1>10 DEF IsOf, IsOther
  <2>2. at \in {"SeHandler", "SymbolStart"}
    <3>1. /\ ~StaticBy(lines, n - 1) /\ ~OtherBy(lines, n - 1)
          /\ ~SeenBy(lines, n - 1, "Crt") /\ HeaderBy(lines, n - 1)
      BY <1>3, <1>4, <1>5, <1>10, <2>1
    <3>. QED
      BY <3>1 DEF StateBy
  <2>3. next = "SeHandler"
    BY <2>1, <2>2 DEF NextParseState
  <2>4. /\ ~StaticBy(lines, n) /\ ~OtherBy(lines, n)
        /\ ~SeenBy(lines, n, "Crt") /\ SeenBy(lines, n, "SeHandler")
    BY <1>3, <1>4, <1>5, <1>10, <2>1
  <2>5. StateBy(lines, n, next)
    BY <2>3, <2>4 DEF StateBy
  <2>. QED
    BY <2>1, <2>3, <2>5
<1>11. CASE IsOther(line)
  <2>1. line.Kind = "symbol" /\ Prefix[line.Name] \in {"VarbssInit", "Crt", "none"}
        /\ \A prefix : IsOf(line, prefix) <=> Prefix[line.Name] = prefix
    BY <1>2, <1>11 DEF IsOther, IsOf
  <2>2. CASE StaticBy(lines, n)
    <3>1. StaticBy(lines, n - 1) /\ at = "StaticFunction" /\ line.F
          /\ Prefix[line.Name] = "none"
      BY <1>3, <1>5, <1>11, <2>1, <2>2 DEF StateBy
    <3>2. next = "StaticFunction"
      BY <2>1, <3>1 DEF NextParseState
    <3>. QED
      BY <1>6, <1>11, <2>1, <2>2, <3>1, <3>2 DEF StateBy, SymbolType
  <2>3. CASE ~StaticBy(lines, n) /\ SeenBy(lines, n, "Crt")
    <3>1. /\ ~line.F /\ Prefix[line.Name] # "VarbssInit"
          /\ Prefix[line.Name] = "Crt" \/ at \in {"Crt", "Variable"}
          /\ at # "Uninitialized"
      <4>1. /\ ~StaticBy(lines, n - 1) /\ SeenBy(lines, n - 1, "SeHandler")
            /\ ~line.F /\ Prefix[line.Name] # "VarbssInit"
            /\ Prefix[line.Name] = "Crt" \/ SeenBy(lines, n - 1, "Crt")
        BY <1>2, <1>3, <1>5, <1>11, <2>1, <2>3
      <4>. QED
        BY <4>1 DEF StateBy
    <3>2. next \in {"Crt", "Variable"}
      BY <2>1, <3>1 DEF NextParseState
    <3>3. StateBy(lines, n, next)
      BY <2>3, <3>2 DEF StateBy
    <3>4. SymbolType(next, line) = "GlobalVariable"
      BY <3>1, <3>2 DEF SymbolType
    <3>. QED
      BY <1>6, <1>11, <2>1, <3>1, <3>2, <3>3, <3>4
  <2>4. CASE ~StaticBy(lines, n) /\ ~SeenBy(lines, n, "Crt")
    <3>1. /\ line.F /\ Prefix[line.Name] # "Crt"
          /\ at \in {"SeHandler", "Function", "VarbssInit"}
      <4>1. /\ ~StaticBy(lines, n - 1) /\ SeenBy(lines, n - 1, "SeHandler")
            /\ ~SeenBy(lines, n - 1, "Crt") /\ ~IsOf(line, "Crt") /\ line.F
        BY <1>3, <1>5, <1>11, <2>4
      <4>. QED
        BY <2>1, <4>1 DEF StateBy
    <3>2. next \in {"Function", "VarbssInit"}
      BY <2>1, <3>1 DEF NextParseState
    <3>3. StateBy(lines, n, next)
      BY <1>3, <1>11, <2>4, <3>2 DEF StateBy
    <3>4. SymbolType(next, line) = "Function"
      BY <3>1, <3>2 DEF SymbolType
    <3>. QED
      BY <1>6, <1>11, <2>1, <2>4, <3>1, <3>2, <3>3, <3>4
  <2>. QED
    BY <2>2, <2>3, <2>4
<1>. QED
  BY <1>2, <1>8, <1>9, <1>10, <1>11, <1>12 DEF IsOf, IsOther
LEMMA ParsedStates ==
  ASSUME NEW file \in MapFiles, NEW lines, lines = Lines[file],
         NEW g, g = ParsedLines(file)
  PROVE  \A n \in 0..Len(lines) : StateBy(lines, n, g[n].At)
<1>. DEFINE N == Len(lines)
            T == {n \in Nat : n <= N => StateBy(lines, n, g[n].At)}
<1>1. /\ N \in Nat /\ g[0] = ParserStart
      /\ \A n \in 1..N : g[n] = ParseLine(g[n - 1], lines[n])
  BY LineType, ParsedStep
<1>2. 0 \in T
  <2>1. /\ ~HeaderBy(lines, 0) /\ ~StaticBy(lines, 0) /\ ~OtherBy(lines, 0)
        /\ \A prefix : ~SeenBy(lines, 0, prefix)
    BY DEF HeaderBy, StaticBy, OtherBy, SeenBy
  <2>. QED
    BY <1>1, <2>1 DEF StateBy, ParserStart
<1>3. ASSUME NEW n \in Nat, n \in T PROVE n + 1 \in T
  <2>1. SUFFICES ASSUME n + 1 <= N PROVE StateBy(lines, n + 1, g[n + 1].At)
    OBVIOUS
  <2>2. n + 1 \in 1..N /\ (n + 1) - 1 = n /\ StateBy(lines, n, g[n].At)
    BY <1>1, <1>3, <2>1
  <2>3. g[n + 1].At = NextParseState(g[n].At, lines[n + 1])
    <3>1. g[n + 1] = ParseLine(g[n], lines[n + 1])
      BY <1>1, <2>2
    <3>2. \A p, l : ParseLine(p, l).At = NextParseState(p.At, l)
      BY DEF ParseLine
    <3>. QED
      BY <3>1, <3>2
  <2>4. PICK m, at, next : m = n + 1 /\ at = g[n].At /\ next = g[n + 1].At
    OBVIOUS
  <2>5. m \in 1..Len(lines) /\ StateBy(lines, m - 1, at)
        /\ next = NextParseState(at, lines[m])
    BY <2>2, <2>3, <2>4
  <2>6. StateBy(lines, m, next)
    BY <2>5, ParserFollows
  <2>. QED
    BY <2>4, <2>6
<1>4. \A n \in Nat : n \in T
  <2>. HIDE DEF T
  <2>. QED
    BY <1>2, <1>3, NatBySet
<1>. QED
  BY <1>1, <1>4

LEMMA ParsedEntries ==
  ASSUME NEW file \in MapFiles, NEW lines, lines = Lines[file],
         NEW g, g = ParsedLines(file), NEW n \in 1..Len(lines)
  PROVE  g[n].Entries =
           IF lines[n].Kind = "symbol" /\ Prefix[lines[n].Name] # "SeHandler"
           THEN Append(g[n - 1].Entries, LinkedSymbol(lines, n))
           ELSE g[n - 1].Entries
<1>. DEFINE line == lines[n]
            next == NextParseState(g[n - 1].At, line)
            type == SymbolType(next, line)
<1>1. g[n] = ParseLine(g[n - 1], line) /\ n - 1 \in 0..Len(lines)
  BY LineType, ParsedStep
<1>2. g[n].Entries =
        IF line.Kind = "symbol" /\ next \notin {"Uninitialized", "SeHandler"}
           /\ type # "Max"
        THEN Append(g[n - 1].Entries,
                    [Name |-> line.Name, Rva |-> line.Address % LinkBase,
                     Type |-> type, ObjName |-> line.Obj])
        ELSE g[n - 1].Entries
  BY <1>1 DEF ParseLine
<1>3. /\ IsOf(line, "SeHandler") => next = "SeHandler"
      /\ IsOther(line) => /\ next \notin {"Uninitialized", "SeHandler"}
                          /\ type = LinkedSymbol(lines, n).Type /\ type # "Max"
  <2>1. StateBy(lines, n - 1, g[n - 1].At)
    BY <1>1, ParsedStates
  <2>2. ASSUME NEW at, at = g[n - 1].At, NEW l, l = line,
               NEW x, x = NextParseState(at, l)
        PROVE  /\ IsOf(l, "SeHandler") => x = "SeHandler"
               /\ IsOther(l) => /\ x \notin {"Uninitialized", "SeHandler"}
                                /\ SymbolType(x, l) = LinkedSymbol(lines, n).Type
                                /\ SymbolType(x, l) # "Max"
    <3>1. l = lines[n] /\ StateBy(lines, n - 1, at)
      BY <2>1, <2>2
    <3>. HIDE DEF line, next, type
    <3>. QED
      BY <2>2, <3>1, ParserFollows
  <2>. QED
    BY <2>2
<1>4. IsOther(line) => LinkedSymbol(lines, n) =
        [Name |-> line.Name, Rva |-> line.Address % LinkBase,
         Type |-> type, ObjName |-> line.Obj]
  <2>1. LinkedSymbol(lines, n) =
          [Name |-> line.Name, Rva |-> line.Address % LinkBase,
           Type |-> LinkedSymbol(lines, n).Type, ObjName |-> line.Obj]
    BY DEF LinkedSymbol
  <2>. HIDE DEF type
  <2>. QED
    BY <1>3, <2>1
<1>. HIDE DEF next, type
<1>. QED
  BY <1>2, <1>3, <1>4 DEF IsOf, IsOther

LEMMA ReadAsLinked ==
  ASSUME NEW file \in MapFiles
  PROVE  EdbLoadSymbolEntryByIec(file) = LinkedSymbols(file)
<1>. DEFINE lines == Lines[file]
            N == Len(lines)
            g == ParsedLines(file)
            After(h, n) ==
              IF n = 0 THEN <<>>
              ELSE IF /\ lines[n].Kind = "symbol"
                      /\ Prefix[lines[n].Name] # "SeHandler"
              THEN Append(h[n - 1], LinkedSymbol(lines, n))
              ELSE h[n - 1]
            IsLinked(h) == h = [n \in 0..N |-> After(h, n)]
            e == [n \in 0..N |-> g[n].Entries]
            f == CHOOSE h : IsLinked(h)
<1>1. N \in Nat /\ g[0] = ParserStart
  BY LineType, ParsedStep
<1>2. \A n \in 0..N : e[n] = After(e, n)
  <2>1. CASE N \in Nat
    <3>1. e[0] = After(e, 0)
      BY <1>1 DEF ParserStart
    <3>2. ASSUME NEW n \in 1..N PROVE e[n] = After(e, n)
      <4>1. ASSUME NEW l, l = lines, NEW p, p = g, NEW k, k = n
            PROVE  p[k].Entries =
                     IF l[k].Kind = "symbol" /\ Prefix[l[k].Name] # "SeHandler"
                     THEN Append(p[k - 1].Entries, LinkedSymbol(l, k))
                     ELSE p[k - 1].Entries
        BY <4>1, ParsedEntries
      <4>2. g[n].Entries =
              IF lines[n].Kind = "symbol" /\ Prefix[lines[n].Name] # "SeHandler"
              THEN Append(g[n - 1].Entries, LinkedSymbol(lines, n))
              ELSE g[n - 1].Entries
        BY <4>1
      <4>. HIDE DEF lines, g
      <4>3. n # 0 /\ e[n] = g[n].Entries /\ e[n - 1] = g[n - 1].Entries
        BY <1>1
      <4>. QED
        BY <4>2, <4>3
    <3>3. \A n \in 0..N : n = 0 \/ n \in 1..N
      BY <2>1
    <3>. HIDE DEF e, After, N
    <3>. QED
      BY <3>1, <3>2, <3>3
  <2>. QED
    BY <1>1, <2>1
<1>3. IsLinked(e)
  <2>1. ASSUME NEW h, h = e PROVE h = [n \in 0..N |-> After(h, n)]
    <3>1. h = [n \in 0..N |-> h[n]]
      BY <2>1
    <3>2. \A n \in 0..N : h[n] = After(h, n)
      BY <1>2, <2>1
    <3>. HIDE DEF After, e
    <3>. QED
      BY <3>1, <3>2
  <2>. QED
    BY <2>1
<1>4. IsLinked(f)
  <2>. HIDE DEF IsLinked, e
  <2>. QED
    BY <1>3
<1>5. \A n \in 0..N : f[n] = After(f, n)
  <2>1. ASSUME NEW h, h = [n \in 0..N |-> After(h, n)], NEW n \in 0..N
        PROVE  h[n] = After(h, n)
    <3>. DEFINE A(m) == After(h, m)
    <3>1. h = [m \in 0..N |-> A(m)]
      BY <2>1
    <3>. HIDE DEF A
    <3>2. h[n] = A(n)
      BY <3>1
    <3>. QED
      BY <3>2 DEF A
  <2>. HIDE DEF f, After
  <2>. QED
    BY <1>4, <2>1
<1>6. \A n \in 0..N : f[n] = e[n]
  <2>. DEFINE T == {n \in Nat : n <= N => f[n] = e[n]}
  <2>. HIDE DEF f, e
  <2>1. 0 \in T
    <3>1. 0 \in 0..N
      BY <1>1
    <3>. QED
      BY <1>2, <1>5, <3>1
  <2>2. ASSUME NEW n \in Nat, n \in T PROVE n + 1 \in T
    <3>1. SUFFICES ASSUME n + 1 <= N PROVE f[n + 1] = e[n + 1]
      OBVIOUS
    <3>2. n + 1 \in 0..N /\ (n + 1) - 1 = n /\ f[n] = e[n]
      BY <1>1, <2>2, <3>1
    <3>3. After(f, n + 1) = After(e, n + 1)
      BY <3>2
    <3>. HIDE DEF After
    <3>. QED
      BY <1>2, <1>5, <3>2, <3>3
  <2>3. \A n \in Nat : n \in T
    <3>. HIDE DEF T
    <3>. QED
      BY <2>1, <2>2, NatBySet
  <2>. QED
    BY <1>1, <2>3
<1>7. LinkedSymbols(file) = f[N]
  BY DEF LinkedSymbols
<1>8. EdbLoadSymbolEntryByIec(file) = g[N].Entries
  BY DEF EdbLoadSymbolEntryByIec
<1>9. e[N] = g[N].Entries /\ N \in 0..N
  <2>. HIDE DEF g
  <2>. QED
    BY <1>1
<1>. HIDE DEF f, e, N
<1>. QED
  BY <1>6, <1>7, <1>8, <1>9
-----------------------------------------------------------------------------
(* The table holds what has been loaded.                                   *)

\* An object that is as before, perhaps at another place of the table.
LEMMA ObjectKept ==
  ASSUME NEW s, NEW t, NEW i, NEW j, NEW l, NEW m, ObjectAsRead(s, l, i),
         t.Object[j].Name = s.Object[i].Name,
         t.Object[j].EntryCount = s.Object[i].EntryCount,
         t.Object[j].BaseAddress = m[s.Object[i].Name].Base,
         m[s.Object[i].Name].Code = l[s.Object[i].Name].Code,
         \A e \in Entries(s, i) : EntryOf(t, j, e) = EntryOf(s, i, e),
         ListOf(t, j) = ListOf(s, i),
         \A n \in 1..Len(ListOf(s, i)) :
           t.Pool[ListOf(s, i)[n]] = s.Pool[ListOf(s, i)[n]]
  PROVE  ObjectAsRead(t, m, j)
<1>. DEFINE name == s.Object[i].Name
<1>1. Entries(t, j) = Entries(s, i)
  BY DEF Entries
<1>2. /\ name \in MapFiles /\ s.Object[i].EntryCount = CountOf(name)
      /\ \A e \in Entries(s, i) :
           SymbolAsRead(s, i, e) /\ CodeAsLoaded(s, i, e, l[name].Code)
      /\ OneText(s, i)
  BY DEF ObjectAsRead
<1>3. ASSUME NEW e \in Entries(s, i)
      PROVE  SymbolAsRead(t, j, e) /\ CodeAsLoaded(t, j, e, m[name].Code)
  <2>1. SymbolAsRead(t, j, e)
    BY <1>2 DEF SymbolAsRead
  <2>2. PICK entry : entry = EntryOf(s, i, e) /\ entry = EntryOf(t, j, e)
    OBVIOUS
  <2>3. CASE HasCode(entry, l[name].Code)
    <3>1. PICK n \in 1..Len(ListOf(s, i)) : ListOf(s, i)[n] = entry.CodBuffer
      BY <1>2, <2>2, <2>3 DEF CodeAsLoaded
    <3>2. s.Pool[entry.CodBuffer] = entry.ObjName
      BY <1>2, <2>2, <2>3 DEF CodeAsLoaded
    <3>. QED
      BY <2>1, <2>2, <2>3, <3>1, <3>2 DEF CodeAsLoaded
  <2>4. CASE ~HasCode(entry, l[name].Code)
    <3>1. entry.CodBuffer = NULL
      BY <1>2, <2>2, <2>4 DEF CodeAsLoaded
    <3>. QED
      BY <2>1, <2>2, <2>4, <3>1 DEF CodeAsLoaded
  <2>. QED
    BY <2>3, <2>4
<1>4. OneText(t, j)
  BY <1>1, <1>2 DEF OneText
<1>. QED
  BY <1>1, <1>2, <1>3, <1>4 DEF ObjectAsRead

Without(l, file) == [f \in DOMAIN l \ {file} |-> l[f]]
WithFile(l, file, base) ==
  [f \in DOMAIN l \cup {file} |->
     IF f = file THEN [Base |-> base, Code |-> {}] ELSE l[f]]

LEMMA UnloadHolds ==
  ASSUME NEW s \in Tables, NEW l, Holds(s, l), AllDistinct(s), ArraysApart(s),
         NEW file, IsLoaded(s, file), IndexOf(s, file) = 0,
         NEW t, t = EdbUnloadSymbol(s, file)
  PROVE  Holds(t, Without(l, file))
<1>1. PICK old, last : old = s.Object[0] /\ last = s.ObjectCount - 1
  OBVIOUS
<1>2. PICK a0 : a0 = old.Arrays
  OBVIOUS
<1>3. /\ t \in Tables
      /\ last \in Slots /\ last \in Nat /\ t.ObjectCount = last
      /\ 0 \in Indices(s) /\ 0 \in Slots
      /\ \A i \in Slots : t.Object[i] =
           IF i = last THEN ZeroObject(a0)
           ELSE IF i \in 0..last - 1 THEN s.Object[i + 1]
           ELSE s.Object[i]
      /\ \A a \in Slots, e \in EntrySlots : t.Entry[a][e] =
           IF a = a0 /\ e < old.EntryCount THEN ZeroEntry ELSE s.Entry[a][e]
      /\ \A a \in Slots : t.SourceBuffer[a] =
           IF a = a0 THEN <<>> ELSE s.SourceBuffer[a]
      /\ \A b \in Buffers : t.Pool[b] =
           IF \E m \in 1..Len(ListOf(s, 0)) : ListOf(s, 0)[m] = b THEN NULL
           ELSE s.Pool[b]
  <2>1. ASSUME NEW o, o = s.Object[0], NEW k, k = s.ObjectCount - 1
        PROVE  /\ t \in Tables
               /\ k \in Slots /\ k \in Nat /\ t.ObjectCount = k
               /\ 0 \in Indices(s) /\ 0 \in Slots
               /\ \A i \in Slots : t.Object[i] =
                    IF i = k THEN ZeroObject(o.Arrays)
                    ELSE IF i \in IndexOf(s, file)..k - 1 THEN s.Object[i + 1]
                    ELSE s.Object[i]
               /\ \A a \in Slots, e \in EntrySlots : t.Entry[a][e] =
                    IF a = o.Arrays /\ e < o.EntryCount THEN ZeroEntry
                    ELSE s.Entry[a][e]
               /\ \A a \in Slots : t.SourceBuffer[a] =
                    IF a = o.Arrays THEN <<>> ELSE s.SourceBuffer[a]
               /\ \A b \in Buffers : t.Pool[b] =
                    IF \E m \in 1..Len(ListOf(s, 0)) : ListOf(s, 0)[m] = b
                    THEN NULL ELSE s.Pool[b]
    BY <2>1, UnloadEffect
  <2>. QED
    BY <1>1, <1>2, <2>1
<1>4. /\ a0 \in Slots /\ a0 = s.Object[0].Arrays /\ ListOf(s, 0) = s.SourceBuffer[a0]
      /\ old.EntryCount \in 0..MaxEntries
  BY <1>1, <1>2, <1>3, TableType DEF ListOf
<1>5. /\ Indices(t) = 0..last - 1 /\ Indices(s) = 0..last
      /\ Indices(t) \subseteq Slots /\ Indices(s) \subseteq Slots
  BY <1>1, <1>3, TableType DEF Indices
<1>6. s.Object[0].Name = file
  BY IndexOfLoaded
\* The objects move down, and keep their arrays.
<1>7. ASSUME NEW i \in Indices(t)
      PROVE  /\ i + 1 \in Indices(s) /\ t.Object[i] = s.Object[i + 1]
             /\ s.Object[i + 1].Arrays \in Slots \ {a0}
  <2>1. /\ i + 1 \in Indices(s) /\ i + 1 # 0 /\ i # last /\ i \in 0..last - 1
        /\ i \in Slots /\ i + 1 \in Slots
    BY <1>3, <1>5
  <2>2. s.Object[i + 1].Arrays # a0
    BY <1>3, <1>4, <2>1 DEF ArraysApart
  <2>. QED
    BY <1>3, <2>1, <2>2, TableType
<1>8. ASSUME NEW i \in Slots, i > last
      PROVE  /\ t.Object[i] = s.Object[i] /\ i \in Slots \ Indices(s)
             /\ s.Object[i].Arrays \in Slots \ {a0}
  <2>1. i \notin 0..last /\ i # last /\ i \notin 0..last - 1 /\ i # 0
    BY <1>3, <1>8 DEF Slots
  <2>2. s.Object[i].Arrays # a0
    BY <1>3, <1>4, <2>1 DEF ArraysApart
  <2>. QED
    BY <1>3, <1>5, <2>1, <2>2, TableType
<1>9. ASSUME NEW a \in Slots \ {a0}
      PROVE  /\ \A e \in EntrySlots : t.Entry[a][e] = s.Entry[a][e]
             /\ t.SourceBuffer[a] = s.SourceBuffer[a]
             /\ \A n \in 1..Len(s.SourceBuffer[a]) :
                  t.Pool[s.SourceBuffer[a][n]] = s.Pool[s.SourceBuffer[a][n]]
  <2>1. ASSUME NEW n \in 1..Len(s.SourceBuffer[a])
        PROVE  t.Pool[s.SourceBuffer[a][n]] = s.Pool[s.SourceBuffer[a][n]]
    <3>1. s.SourceBuffer[a][n] \in Buffers
      BY TableType
    <3>2. \A m \in 1..Len(ListOf(s, 0)) : ListOf(s, 0)[m] # s.SourceBuffer[a][n]
      BY <1>4 DEF AllDistinct
    <3>. QED
      BY <1>3, <3>1, <3>2
  <2>. QED
    BY <1>3, <2>1
<1>10. /\ DOMAIN l = {s.Object[i].Name : i \in Indices(s)}
       /\ \A i, j \in Indices(s) : s.Object[i].Name = s.Object[j].Name => i = j
       /\ \A i \in Slots \ Indices(s) : s.Object[i].EntryCount = 0
       /\ \A i \in Slots : \A e \in EntrySlots \ Entries(s, i) :
            EntryOf(s, i, e).CodBuffer = NULL
       /\ \A i \in Indices(s) : ObjectAsRead(s, l, i)
  BY DEF Holds
<1>11. DOMAIN Without(l, file) = {t.Object[i].Name : i \in Indices(t)}
  <2>1. ASSUME NEW f \in DOMAIN l \ {file}
        PROVE  \E i \in Indices(t) : f = t.Object[i].Name
    <3>1. PICK i \in Indices(s) : f = s.Object[i].Name
      BY <1>10
    <3>2. i # 0
      BY <1>6, <3>1
    <3>3. i - 1 \in Indices(t) /\ (i - 1) + 1 = i
      BY <1>3, <1>5, <3>2
    <3>4. t.Object[i - 1] = s.Object[i]
      BY <1>7, <3>3
    <3>. QED
      BY <3>1, <3>3, <3>4
  <2>2. ASSUME NEW i \in Indices(t) PROVE t.Object[i].Name \in DOMAIN l \ {file}
    <3>1. i + 1 # 0 /\ i + 1 \in Indices(s) /\ t.Object[i] = s.Object[i + 1]
      BY <1>5, <1>7
    <3>. QED
      BY <1>3, <1>6, <1>10, <3>1
  <2>3. DOMAIN Without(l, file) = DOMAIN l \ {file}
    BY DEF Without
  <2>. QED
    BY <2>1, <2>2, <2>3
<1>12. ASSUME NEW i \in Indices(t), NEW j \in Indices(t),
              t.Object[i].Name = t.Object[j].Name
       PROVE  i = j
  <2>1. i + 1 = j + 1
    BY <1>7, <1>10, <1>12
  <2>. QED
    BY <1>5, <2>1
<1>13. ASSUME NEW i \in Slots \ Indices(t) PROVE t.Object[i].EntryCount = 0
  <2>1. i = last \/ i > last
    BY <1>3, <1>5 DEF Slots
  <2>. QED
    BY <1>3, <1>4, <1>8, <1>10, <2>1, ZeroTypes
<1>14. ASSUME NEW i \in Slots, NEW e \in EntrySlots \ Entries(t, i)
       PROVE  EntryOf(t, i, e).CodBuffer = NULL
  <2>1. i \in Indices(t) \/ i = last \/ i > last
    BY <1>3, <1>5 DEF Slots
  <2>2. CASE i \in Indices(t)
    <3>1. /\ i + 1 \in Slots /\ Entries(t, i) = Entries(s, i + 1)
          /\ EntryOf(t, i, e) = EntryOf(s, i + 1, e)
      BY <1>5, <1>7, <1>9, <2>2 DEF Entries, EntryOf
    <3>. QED
      BY <1>10, <3>1
  <2>3. CASE i = last
    <3>1. EntryOf(t, i, e) = t.Entry[a0][e]
      <4>1. t.Object[i] = ZeroObject(a0)
        BY <1>3, <2>3
      <4>2. t.Object[i].Arrays = a0
        BY <1>4, <4>1, ZeroTypes
      <4>. QED
        BY <4>2 DEF EntryOf
    <3>2. CASE e < old.EntryCount
      BY <1>3, <1>4, <3>1, <3>2, ZeroTypes
    <3>3. CASE ~(e < old.EntryCount)
      <4>1. t.Entry[a0][e] = EntryOf(s, 0, e)
        BY <1>3, <1>4, <3>3 DEF EntryOf
      <4>2. e \notin Entries(s, 0)
        BY <1>1, <1>4, <3>3 DEF Entries
      <4>. QED
        BY <1>3, <1>10, <3>1, <4>1, <4>2
    <3>. QED
      BY <3>2, <3>3
  <2>4. CASE i > last
    <3>1. /\ Entries(t, i) = Entries(s, i) /\ EntryOf(t, i, e) = EntryOf(s, i, e)
      BY <1>8, <1>9, <2>4 DEF Entries, EntryOf
    <3>. QED
      BY <1>10, <3>1
  <2>. QED
    BY <2>1, <2>2, <2>3, <2>4
<1>15. ASSUME NEW i \in Indices(t) PROVE ObjectAsRead(t, Without(l, file), i)
  <2>1. PICK j : j = i + 1
    OBVIOUS
  <2>2. /\ j \in Indices(s) /\ j # 0 /\ t.Object[i] = s.Object[j]
        /\ s.Object[j].Arrays \in Slots \ {a0} /\ ObjectAsRead(s, l, j)
    BY <1>5, <1>7, <1>10, <2>1
  <2>3. /\ s.Object[j].Name # file /\ s.Object[j].Name \in DOMAIN l
        /\ Without(l, file)[s.Object[j].Name] = l[s.Object[j].Name]
    BY <1>3, <1>6, <1>10, <2>2 DEF Without
  <2>4. /\ \A e \in Entries(s, j) : EntryOf(t, i, e) = EntryOf(s, j, e)
        /\ ListOf(t, i) = ListOf(s, j)
        /\ \A n \in 1..Len(ListOf(s, j)) :
             t.Pool[ListOf(s, j)[n]] = s.Pool[ListOf(s, j)[n]]
    <3>1. Entries(s, j) \subseteq EntrySlots
      BY <1>5, <2>2, TableType
    <3>. QED
      BY <1>9, <2>2, <3>1 DEF EntryOf, ListOf
  <2>5. s.Object[j].BaseAddress = l[s.Object[j].Name].Base
    BY <2>2 DEF ObjectAsRead
  <2>6. PICK m : m = Without(l, file)
    OBVIOUS
  <2>7. ObjectAsRead(t, m, i)
    BY <2>2, <2>3, <2>4, <2>5, <2>6, ObjectKept
  <2>. QED
    BY <2>6, <2>7
<1>. QED
  BY <1>11, <1>12, <1>13, <1>14, <1>15 DEF Holds
LEMMA FillHolds ==
  ASSUME NEW s \in Tables, NEW l, Holds(s, l), ArraysApart(s),
         NEW file \in MapFiles, file \notin DOMAIN l,
         s.ObjectCount < MaxObjects, NEW t, t = FillObject(s, file)
  PROVE  Holds(t, WithFile(l, file, 0)) /\ IsLoaded(t, file)
<1>1. PICK k, a, m : /\ k = s.ObjectCount /\ a = s.Object[k].Arrays
                     /\ m = WithFile(l, file, 0)
  OBVIOUS
<1>2. PICK entries : entries = EdbLoadSymbolEntryByIec(file)
  OBVIOUS
<1>3. /\ t \in Tables /\ k \in Slots /\ k \in Nat
      /\ t.ObjectCount = k + 1
      /\ CountOf(file) \in 0..MaxEntries
      /\ \A i \in Slots \ {k} : t.Object[i] = s.Object[i]
      /\ t.Object[k].Name = file
      /\ t.Object[k].EntryCount = CountOf(file)
      /\ t.Object[k].BaseAddress = 0
      /\ t.Object[k].Arrays = a
      /\ t.SourceBuffer = s.SourceBuffer /\ t.Pool = s.Pool
  BY <1>1, FillEffect
<1>4. /\ \A c \in Slots \ {a} : t.Entry[c] = s.Entry[c]
      /\ \A e \in EntrySlots :
           IF e < CountOf(file)
           THEN /\ t.Entry[a][e].Name = entries[e + 1].Name
                /\ t.Entry[a][e].Rva = entries[e + 1].Rva
                /\ t.Entry[a][e].Type = entries[e + 1].Type
                /\ t.Entry[a][e].ObjName = entries[e + 1].ObjName
                /\ t.Entry[a][e].CodBuffer = s.Entry[a][e].CodBuffer
           ELSE t.Entry[a][e] = s.Entry[a][e]
  <2>1. /\ \A c \in Slots \ {s.Object[k].Arrays} : t.Entry[c] = s.Entry[c]
        /\ \A e \in EntrySlots : IsFilled(s, t, file, s.Object[k].Arrays, e)
    BY <1>1, FillEffect
  <2>. QED
    BY <1>1, <1>2, <2>1 DEF IsFilled
<1>5. /\ DOMAIN l = {s.Object[i].Name : i \in Indices(s)}
      /\ \A i, j \in Indices(s) : s.Object[i].Name = s.Object[j].Name => i = j
      /\ \A i \in Slots \ Indices(s) : s.Object[i].EntryCount = 0
      /\ \A i \in Slots : \A e \in EntrySlots \ Entries(s, i) :
           EntryOf(s, i, e).CodBuffer = NULL
      /\ \A i \in Indices(s) : ObjectAsRead(s, l, i)
  BY DEF Holds
<1>6. /\ Indices(t) = Indices(s) \cup {k} /\ k \notin Indices(s)
      /\ Indices(s) \subseteq Slots /\ k \in Indices(t)
  <2>1. Indices(s) = 0..k - 1 /\ Indices(t) = 0..k
    BY <1>1, <1>3 DEF Indices
  <2>2. Indices(s) \subseteq Slots
    BY TableType
  <2>. QED
    BY <1>3, <2>1, <2>2
<1>7. a \in Slots
  BY <1>1, <1>3, TableType
\* The new object has no code, and the others are as before.
<1>8. \A e \in EntrySlots : EntryOf(s, k, e).CodBuffer = NULL
  <2>1. s.Object[k].EntryCount = 0
    BY <1>3, <1>5, <1>6
  <2>2. Entries(s, k) = {}
    BY <2>1 DEF Entries
  <2>. QED
    BY <1>3, <1>5, <2>2
<1>9. ASSUME NEW e \in EntrySlots
      PROVE  EntryOf(t, k, e) = t.Entry[a][e] /\ EntryOf(t, k, e).CodBuffer = NULL
  <2>1. EntryOf(t, k, e) = t.Entry[a][e] /\ EntryOf(s, k, e) = s.Entry[a][e]
    BY <1>1, <1>3 DEF EntryOf
  <2>. QED
    BY <1>4, <1>8, <2>1
<1>10. ASSUME NEW i \in Slots \ {k}
       PROVE  /\ t.Object[i] = s.Object[i] /\ ListOf(t, i) = ListOf(s, i)
              /\ \A e : EntryOf(t, i, e) = EntryOf(s, i, e)
              /\ Entries(t, i) = Entries(s, i)
  <2>1. s.Object[i].Arrays \in Slots \ {a}
    BY <1>1, <1>3, TableType DEF ArraysApart
  <2>. QED
    BY <1>3, <1>4, <2>1 DEF EntryOf, Entries, ListOf
<1>11. /\ DOMAIN m = DOMAIN l \cup {file}
       /\ m[file] = [Base |-> 0, Code |-> {}]
       /\ \A f \in DOMAIN l : m[f] = l[f]
  BY <1>1 DEF WithFile
<1>12. DOMAIN m = {t.Object[i].Name : i \in Indices(t)}
  BY <1>3, <1>5, <1>6, <1>10, <1>11
<1>13. \A i, j \in Indices(t) : t.Object[i].Name = t.Object[j].Name => i = j
  <2>1. \A i \in Indices(s) : t.Object[i].Name = s.Object[i].Name
                              /\ s.Object[i].Name \in DOMAIN l
    BY <1>5, <1>6, <1>10
  <2>. QED
    BY <1>3, <1>5, <1>6, <2>1
<1>14. \A i \in Slots \ Indices(t) : t.Object[i].EntryCount = 0
  BY <1>5, <1>6, <1>10
<1>15. ASSUME NEW i \in Slots, NEW e \in EntrySlots \ Entries(t, i)
       PROVE  EntryOf(t, i, e).CodBuffer = NULL
  <2>1. CASE i = k
    BY <1>9, <2>1
  <2>2. CASE i # k
    BY <1>5, <1>10, <2>2
  <2>. QED
    BY <2>1, <2>2
<1>16. ASSUME NEW i \in Indices(s) PROVE ObjectAsRead(t, m, i)
  <2>1. i \in Slots \ {k} /\ s.Object[i].Name \in DOMAIN l
    BY <1>5, <1>6
  <2>2. s.Object[i].BaseAddress = l[s.Object[i].Name].Base /\ ObjectAsRead(s, l, i)
    BY <1>5 DEF ObjectAsRead
  <2>. QED
    BY <1>3, <1>10, <1>11, <2>1, <2>2, ObjectKept
<1>17. ObjectAsRead(t, m, k)
  <2>1. ASSUME NEW e \in Entries(t, k)
        PROVE  SymbolAsRead(t, k, e) /\ CodeAsLoaded(t, k, e, {})
    <3>1. e \in EntrySlots /\ e < CountOf(file)
      BY <1>3, TableType DEF Entries
    <3>2. SymbolAsRead(t, k, e)
      BY <1>2, <1>3, <1>4, <1>9, <3>1 DEF SymbolAsRead
    <3>3. ~HasCode(EntryOf(t, k, e), {})
      BY DEF HasCode
    <3>. QED
      BY <1>9, <3>1, <3>2, <3>3 DEF CodeAsLoaded
  <2>2. OneText(t, k)
    <3>1. Entries(t, k) \subseteq EntrySlots
      BY <1>3, TableType
    <3>. QED
      BY <1>9, <3>1 DEF OneText
  <2>. QED
    BY <1>3, <1>11, <2>1, <2>2 DEF ObjectAsRead
<1>18. Holds(t, m)
  BY <1>6, <1>12, <1>13, <1>14, <1>15, <1>16, <1>17 DEF Holds
<1>19. IsLoaded(t, file)
  BY <1>3, <1>6 DEF IsLoaded, EdbFindSymbolFile
<1>. QED
  BY <1>1, <1>18, <1>19

LEMMA PatchHolds ==
  ASSUME NEW s \in Tables, NEW l, NEW file, NEW base \in Nat,
         Holds(s, WithFile(l, file, 0)), IsLoaded(s, file),
         NEW t, t = EdbPatchSymbolRVA(s, file, base)
  PROVE  Holds(t, WithFile(l, file, base)) /\ IsLoaded(t, file)
<1>1. PICK k, old, new : /\ k = IndexOf(s, file)
                         /\ old = WithFile(l, file, 0)
                         /\ new = WithFile(l, file, base)
  OBVIOUS
<1>2. /\ t \in Tables
      /\ t.ObjectCount = s.ObjectCount /\ t.Entry = s.Entry
      /\ t.SourceBuffer = s.SourceBuffer /\ t.Pool = s.Pool
      /\ \A j \in Slots \ {k} : t.Object[j] = s.Object[j]
      /\ t.Object[k].Name = s.Object[k].Name
      /\ t.Object[k].EntryCount = s.Object[k].EntryCount
      /\ t.Object[k].Arrays = s.Object[k].Arrays
      /\ t.Object[k].BaseAddress =
           IF base = 0 THEN s.Object[k].BaseAddress ELSE base
  BY <1>1, PatchEffect
<1>3. /\ k \in Indices(s) /\ k \in Slots /\ s.Object[k].Name = file
  BY <1>1, IndexOfLoaded
<1>4. /\ Indices(t) = Indices(s) /\ Indices(s) \subseteq Slots
      /\ \A i \in Slots : /\ t.Object[i].Name = s.Object[i].Name
                          /\ t.Object[i].EntryCount = s.Object[i].EntryCount
                          /\ t.Object[i].Arrays = s.Object[i].Arrays
  BY <1>2, TableType DEF Indices
<1>5. \A i \in Slots : /\ Entries(t, i) = Entries(s, i)
                       /\ ListOf(t, i) = ListOf(s, i)
                       /\ \A e : EntryOf(t, i, e) = EntryOf(s, i, e)
  BY <1>2, <1>4 DEF Entries, ListOf, EntryOf
<1>6. /\ DOMAIN old = {s.Object[i].Name : i \in Indices(s)}
      /\ \A i, j \in Indices(s) : s.Object[i].Name = s.Object[j].Name => i = j
      /\ \A i \in Slots \ Indices(s) : s.Object[i].EntryCount = 0
      /\ \A i \in Slots : \A e \in EntrySlots \ Entries(s, i) :
           EntryOf(s, i, e).CodBuffer = NULL
      /\ \A i \in Indices(s) : ObjectAsRead(s, old, i)
  BY <1>1 DEF Holds
<1>7. /\ DOMAIN new = DOMAIN old
      /\ old[file] = [Base |-> 0, Code |-> {}]
      /\ new[file] = [Base |-> base, Code |-> {}]
      /\ \A f \in DOMAIN old \ {file} : new[f] = old[f]
  BY <1>1 DEF WithFile
<1>8. ASSUME NEW i \in Indices(s) PROVE ObjectAsRead(t, new, i)
  <2>1. /\ ObjectAsRead(s, old, i) /\ i \in Slots /\ s.Object[i].Name \in DOMAIN old
        /\ s.Object[i].BaseAddress = old[s.Object[i].Name].Base
    BY <1>4, <1>6 DEF ObjectAsRead
  <2>2. CASE i = k
    <3>1. t.Object[i].BaseAddress = base
      BY <1>2, <1>3, <1>7, <2>1, <2>2
    <3>2. /\ s.Object[i].Name = file
          /\ t.Object[i].BaseAddress = new[s.Object[i].Name].Base
          /\ new[s.Object[i].Name].Code = old[s.Object[i].Name].Code
      BY <1>3, <1>7, <2>2, <3>1
    <3>. QED
      BY <1>2, <1>4, <1>5, <2>1, <3>2, ObjectKept
  <2>3. CASE i # k
    <3>1. s.Object[i].Name # file /\ t.Object[i] = s.Object[i]
      BY <1>2, <1>3, <1>6, <2>1, <2>3
    <3>. QED
      BY <1>2, <1>4, <1>5, <1>7, <2>1, <3>1, ObjectKept
  <2>. QED
    BY <2>2, <2>3
<1>9. DOMAIN new = {t.Object[i].Name : i \in Indices(t)}
  BY <1>4, <1>6, <1>7
<1>10. /\ \A i, j \in Indices(t) : t.Object[i].Name = t.Object[j].Name => i = j
       /\ \A i \in Slots \ Indices(t) : t.Object[i].EntryCount = 0
       /\ \A i \in Slots : \A e \in EntrySlots \ Entries(t, i) :
            EntryOf(t, i, e).CodBuffer = NULL
  BY <1>4, <1>5, <1>6
<1>11. Holds(t, new)
  BY <1>4, <1>8, <1>9, <1>10 DEF Holds
<1>12. IsLoaded(t, file)
  BY <1>3, <1>4 DEF IsLoaded, EdbFindSymbolFile
<1>. QED
  BY <1>1, <1>11, <1>12

LEMMA ClearHolds ==
  ASSUME NEW s \in Tables, NEW l, Holds(s, l), NEW t, t = EdbClearSymbol(s)
  PROVE  Holds(t, <<>>)
<1>1. /\ t \in Tables /\ t.ObjectCount = 0
      /\ \A i \in Slots :
           /\ t.Object[i].Arrays = s.Object[i].Arrays
           /\ IF i \in Indices(s) THEN t.Object[i].EntryCount = 0
              ELSE t.Object[i] = s.Object[i]
      /\ \A a \in Slots, e \in EntrySlots :
           t.Entry[a][e] \in {ZeroEntry, s.Entry[a][e]}
      /\ \A i \in Indices(s) : \A e \in Entries(s, i) :
           t.Entry[s.Object[i].Arrays][e] = ZeroEntry
  BY ClearEffect
<1>2. /\ \A i \in Slots \ Indices(s) : s.Object[i].EntryCount = 0
      /\ \A i \in Slots : \A e \in EntrySlots \ Entries(s, i) :
           EntryOf(s, i, e).CodBuffer = NULL
  BY DEF Holds
<1>3. Indices(t) = {} /\ DOMAIN <<>> = {}
  BY <1>1 DEF Indices
<1>4. \A i \in Slots : t.Object[i].EntryCount = 0
  BY <1>1, <1>2
<1>5. ASSUME NEW i \in Slots, NEW e \in EntrySlots
      PROVE  EntryOf(t, i, e).CodBuffer = NULL
  <2>1. /\ s.Object[i].Arrays \in Slots
        /\ EntryOf(t, i, e) = t.Entry[s.Object[i].Arrays][e]
        /\ EntryOf(s, i, e) = s.Entry[s.Object[i].Arrays][e]
    BY <1>1, TableType DEF EntryOf
  <2>2. CASE e \in Entries(s, i)
    <3>1. i \in Indices(s)
      <4>1. ASSUME i \notin Indices(s) PROVE FALSE
        <5>1. Entries(s, i) = {}
          BY <1>2, <4>1 DEF Entries
        <5>. QED
          BY <2>2, <5>1
      <4>. QED
        BY <4>1
    <3>. QED
      BY <1>1, <2>1, <2>2, <3>1, ZeroTypes
  <2>3. CASE e \notin Entries(s, i)
    BY <1>1, <1>2, <2>1, <2>3, ZeroTypes
  <2>. QED
    BY <2>2, <2>3
<1>. QED
  BY <1>3, <1>4, <1>5 DEF Holds
\* The history m is l, where the file has the code of these .cod files.
IsCoded(l, m, file, cods) ==
  /\ DOMAIN m = DOMAIN l
  /\ m[file].Base = l[file].Base /\ m[file].Code = cods
  /\ \A f \in DOMAIN l \ {file} : m[f] = l[f]

LEMMA CodeEntryOf ==
  ASSUME NEW s \in Tables, NEW i \in Slots, NEW e \in Entries(s, i),
         NEW cod, NEW cods, NEW entry, entry = EntryOf(s, i, e)
  PROVE  /\ HasCode(entry, cods) =>
              /\ entry.ObjName \in cods
              /\ entry.ObjName = cod => e \in CodeEntries(s, i, cod)
         /\ e \in CodeEntries(s, i, cod) =>
              /\ entry.ObjName = cod
              /\ HasCode(entry, cods) <=> cod \in cods /\ entry.Name \in Functions[cod]
<1>1. entry \in EntryRecord
  BY TableType
<1>2. entry.Type \in {"Function", "StaticFunction", "GlobalVariable"}
  BY <1>1 DEF EntryRecord, SymbolTypes
<1>. QED
  BY <1>2 DEF HasCode, CodeEntries

LEMMA SameCode ==
  ASSUME NEW x, NEW y, NEW cods,
         x.Name = y.Name, x.Type = y.Type, x.ObjName = y.ObjName
  PROVE  HasCode(x, cods) <=> HasCode(y, cods)
BY DEF HasCode

\* The code of one .cod file, in one object, is changed.
LEMMA OnlyCodeHolds ==
  ASSUME NEW s \in Tables, NEW t \in Tables, NEW l, NEW m,
         NEW i \in Indices(s), Holds(s, l), ArraysApart(s),
         NEW cod, NEW text, OnlyCode(s, t, i, cod, text),
         NEW cods, IsCoded(l, m, s.Object[i].Name, cods),
         \A a \in Slots \ {s.Object[i].Arrays} :
           \A n \in 1..Len(s.SourceBuffer[a]) :
             t.Pool[s.SourceBuffer[a][n]] = s.Pool[s.SourceBuffer[a][n]],
         \A e \in Entries(s, i) : CodeAsLoaded(t, i, e, cods),
         OneText(t, i)
  PROVE  Holds(t, m)
<1>1. /\ t.Object = s.Object /\ Indices(t) = Indices(s) /\ i \in Slots
      /\ \A j : Entries(t, j) = Entries(s, j)
      /\ Indices(s) \subseteq Slots
  BY TableType DEF OnlyCode, Indices, Entries
<1>2. ASSUME NEW j \in Slots \ {i}
      PROVE  /\ \A e : EntryOf(t, j, e) = EntryOf(s, j, e)
             /\ ListOf(t, j) = ListOf(s, j)
             /\ \A n \in 1..Len(ListOf(s, j)) :
                  t.Pool[ListOf(s, j)[n]] = s.Pool[ListOf(s, j)[n]]
  <2>1. s.Object[j].Arrays \in Slots \ {s.Object[i].Arrays}
    BY <1>1, TableType DEF ArraysApart
  <2>. QED
    BY <1>1, <2>1 DEF EntryOf, ListOf, OnlyCode
<1>3. /\ DOMAIN l = {s.Object[j].Name : j \in Indices(s)}
      /\ \A j, k \in Indices(s) : s.Object[j].Name = s.Object[k].Name => j = k
      /\ \A j \in Slots \ Indices(s) : s.Object[j].EntryCount = 0
      /\ \A j \in Slots : \A e \in EntrySlots \ Entries(s, j) :
           EntryOf(s, j, e).CodBuffer = NULL
      /\ \A j \in Indices(s) : ObjectAsRead(s, l, j)
  BY DEF Holds
<1>4. ASSUME NEW e \in EntrySlots
      PROVE  /\ EntryOf(t, i, e).Name = EntryOf(s, i, e).Name
             /\ EntryOf(t, i, e).Rva = EntryOf(s, i, e).Rva
             /\ EntryOf(t, i, e).Type = EntryOf(s, i, e).Type
             /\ EntryOf(t, i, e).ObjName = EntryOf(s, i, e).ObjName
             /\ e \notin Entries(s, i) =>
                  EntryOf(t, i, e).CodBuffer = EntryOf(s, i, e).CodBuffer
  BY DEF OnlyCode, CodeEntries
<1>5. ASSUME NEW j \in Slots, NEW e \in EntrySlots \ Entries(t, j)
      PROVE  EntryOf(t, j, e).CodBuffer = NULL
  <2>1. CASE j = i
    BY <1>1, <1>3, <1>4, <2>1
  <2>2. CASE j # i
    BY <1>1, <1>2, <1>3, <2>2
  <2>. QED
    BY <2>1, <2>2
<1>6. ASSUME NEW j \in Indices(s) PROVE ObjectAsRead(t, m, j)
  <2>1. ObjectAsRead(s, l, j) /\ j \in Slots /\ s.Object[j].Name \in DOMAIN l
    BY <1>1, <1>3
  <2>2. CASE j = i
    <3>1. /\ s.Object[i].Name \in MapFiles
          /\ s.Object[i].BaseAddress = m[s.Object[i].Name].Base
          /\ s.Object[i].EntryCount = CountOf(s.Object[i].Name)
          /\ m[s.Object[i].Name].Code = cods
      BY <2>1, <2>2 DEF ObjectAsRead, IsCoded
    <3>2. ASSUME NEW e \in Entries(s, i) PROVE SymbolAsRead(t, i, e)
      <4>1. SymbolAsRead(s, i, e)
        BY <2>1, <2>2 DEF ObjectAsRead
      <4>2. e \in EntrySlots
        BY <1>1, TableType
      <4>. QED
        BY <1>1, <1>4, <4>1, <4>2 DEF SymbolAsRead
    <3>. QED
      BY <1>1, <2>2, <3>1, <3>2 DEF ObjectAsRead
  <2>3. CASE j # i
    <3>1. /\ s.Object[j].Name # s.Object[i].Name
          /\ m[s.Object[j].Name] = l[s.Object[j].Name]
      BY <1>3, <2>1, <2>3 DEF IsCoded
    <3>2. s.Object[j].BaseAddress = l[s.Object[j].Name].Base
      BY <2>1 DEF ObjectAsRead
    <3>3. j \in Slots \ {i}
      BY <2>1, <2>3
    <3>. QED
      BY <1>1, <1>2, <2>1, <3>1, <3>2, <3>3, ObjectKept
  <2>. QED
    BY <2>2, <2>3
<1>7. DOMAIN m = {t.Object[j].Name : j \in Indices(t)}
  BY <1>1, <1>3 DEF IsCoded
<1>. QED
  BY <1>1, <1>3, <1>5, <1>6, <1>7 DEF Holds

LEMMA DropHolds ==
  ASSUME NEW s \in Tables, NEW l, NEW m, NEW i \in Indices(s),
         NEW cod \in CodFiles, Holds(s, l), ArraysApart(s), AllDistinct(s),
         NEW cods, cods = l[s.Object[i].Name].Code,
         IsCoded(l, m, s.Object[i].Name, cods \ {cod}),
         NEW t, t = DropCode(s, i, cod)
  PROVE  Holds(t, m)
<1>1. /\ i \in Slots /\ t \in Tables /\ OnlyCode(s, t, i, cod, NULL)
      /\ Entries(s, i) \subseteq EntrySlots /\ Entries(t, i) = Entries(s, i)
  <2>1. i \in Slots
    BY TableType
  <2>. QED
    BY <2>1, DropEffect, TableType DEF OnlyCode, Entries
<1>2. /\ \A e \in Entries(s, i) : CodeAsLoaded(s, i, e, cods)
      /\ OneText(s, i)
  BY DEF Holds, ObjectAsRead
\* What entries have that are not of this .cod file, and that are.
<1>3. ASSUME NEW e \in Entries(s, i)
      PROVE  /\ EntryOf(t, i, e).ObjName = EntryOf(s, i, e).ObjName
             /\ \A c : HasCode(EntryOf(t, i, e), c) <=> HasCode(EntryOf(s, i, e), c)
             /\ EntryOf(s, i, e).ObjName = cod => EntryOf(t, i, e).CodBuffer = NULL
             /\ EntryOf(s, i, e).ObjName # cod =>
                  EntryOf(t, i, e).CodBuffer = EntryOf(s, i, e).CodBuffer
  <2>1. PICK x, y : x = EntryOf(s, i, e) /\ y = EntryOf(t, i, e)
    OBVIOUS
  <2>2. /\ y.Name = x.Name /\ y.Type = x.Type /\ y.ObjName = x.ObjName
        /\ y.CodBuffer = IF e \in CodeEntries(s, i, cod)
                         THEN EdbLoadCodBySymbol(x.Name, cod, NULL)
                         ELSE x.CodBuffer
    BY <1>1, <2>1 DEF OnlyCode
  <2>3. \A c : HasCode(y, c) <=> HasCode(x, c)
    BY <2>2, SameCode
  <2>4. EdbLoadCodBySymbol(x.Name, cod, NULL) = NULL
    BY DEF EdbLoadCodBySymbol
  <2>5. CASE e \in CodeEntries(s, i, cod)
    <3>1. x.ObjName = cod
      BY <2>1, <2>5 DEF CodeEntries
    <3>. QED
      BY <2>1, <2>2, <2>3, <2>4, <2>5, <3>1
  <2>6. CASE e \notin CodeEntries(s, i, cod)
    <3>1. ASSUME x.ObjName = cod PROVE x.CodBuffer = NULL
      <4>1. ~HasCode(x, cods)
        BY <1>1, <2>1, <2>6, <3>1, CodeEntryOf
      <4>. QED
        BY <1>2, <2>1, <4>1 DEF CodeAsLoaded
    <3>. QED
      BY <2>1, <2>2, <2>3, <2>6, <3>1
  <2>. QED
    BY <2>5, <2>6
<1>4. OneText(t, i)
  BY <1>1, <1>2, <1>3 DEF OneText
\* The text that is freed, if one is, was that of this .cod file.
<1>5. ASSUME \A n \in 1..Len(ListOf(s, i)) :
               s.Pool[ListOf(s, i)[n]] # cod =>
                 /\ t.Pool[ListOf(s, i)[n]] = s.Pool[ListOf(s, i)[n]]
                 /\ \E k \in 1..Len(ListOf(t, i)) :
                      ListOf(t, i)[k] = ListOf(s, i)[n],
             NEW e \in Entries(s, i)
      PROVE  CodeAsLoaded(t, i, e, cods \ {cod})
  <2>1. PICK x, y : x = EntryOf(s, i, e) /\ y = EntryOf(t, i, e)
    OBVIOUS
  <2>2. HasCode(x, cods \ {cod}) <=> HasCode(x, cods) /\ x.ObjName # cod
    BY DEF HasCode
  <2>3. CASE HasCode(x, cods) /\ x.ObjName # cod
    <3>1. PICK n \in 1..Len(ListOf(s, i)) : ListOf(s, i)[n] = x.CodBuffer
      BY <1>2, <2>1, <2>3 DEF CodeAsLoaded
    <3>2. s.Pool[x.CodBuffer] = x.ObjName
      BY <1>2, <2>1, <2>3 DEF CodeAsLoaded
    <3>3. /\ t.Pool[x.CodBuffer] = x.ObjName /\ y.CodBuffer = x.CodBuffer
          /\ \E k \in 1..Len(ListOf(t, i)) : ListOf(t, i)[k] = x.CodBuffer
      BY <1>3, <1>5, <2>1, <2>3, <3>1, <3>2
    <3>. QED
      BY <1>3, <2>1, <2>2, <2>3, <3>3 DEF CodeAsLoaded
  <2>4. CASE ~(HasCode(x, cods) /\ x.ObjName # cod)
    <3>1. CASE x.ObjName = cod
      BY <1>3, <2>1, <2>2, <2>4, <3>1 DEF CodeAsLoaded
    <3>2. CASE x.ObjName # cod
      <4>1. x.CodBuffer = NULL
        BY <1>2, <2>1, <2>4, <3>2 DEF CodeAsLoaded
      <4>. QED
        BY <1>3, <2>1, <2>2, <2>4, <3>2, <4>1 DEF CodeAsLoaded
    <3>. QED
      BY <3>1, <3>2
  <2>. QED
    BY <2>3, <2>4
<1>6. CASE t.SourceBuffer = s.SourceBuffer /\ t.Pool = s.Pool
  <2>1. ListOf(t, i) = ListOf(s, i)
    BY <1>1, <1>6 DEF ListOf, OnlyCode
  <2>2. \A e \in Entries(s, i) : CodeAsLoaded(t, i, e, cods \ {cod})
    BY <1>5, <1>6, <2>1
  <2>. QED
    BY <1>1, <1>4, <1>6, <2>2, OnlyCodeHolds
<1>7. ASSUME NEW k \in 1..Len(ListOf(s, i)),
             IsWithout(ListOf(t, i), ListOf(s, i), k),
             t.Pool = [s.Pool EXCEPT ![ListOf(s, i)[k]] = NULL],
             NEW c \in CodeEntries(s, i, cod),
             EntryOf(s, i, c).CodBuffer = ListOf(s, i)[k]
      PROVE  Holds(t, m)
  <2>. DEFINE q == ListOf(s, i)
              r == ListOf(t, i)
  <2>1. /\ q \in Seq(Buffers) /\ r \in Seq(Buffers)
        /\ s.Pool \in [Buffers -> CodFiles \cup {NULL}]
    BY <1>1, TableType
  <2>2. /\ Len(r) = Len(q) - 1 /\ Len(q) \in Nat /\ k \in 1..Len(q)
        /\ \A n \in 1..Len(q) - 1 : r[n] = IF n < k THEN q[n] ELSE q[n + 1]
        /\ q[k] \in Buffers
    BY <1>7, <2>1 DEF IsWithout
  <2>3. t.Pool = [s.Pool EXCEPT ![q[k]] = NULL]
    BY <1>7
  <2>4. s.Pool[q[k]] = cod
    <3>1. c \in Entries(s, i) /\ EntryOf(s, i, c).ObjName = cod
      BY DEF CodeEntries
    <3>2. EntryOf(s, i, c).CodBuffer # NULL
      BY <1>7, <2>2, NullAssumption
    <3>. QED
      BY <1>2, <1>7, <3>1, <3>2 DEF CodeAsLoaded
  <2>5. q = s.SourceBuffer[s.Object[i].Arrays] /\ s.Object[i].Arrays \in Slots
    BY <1>1, TableType DEF ListOf
  <2>. HIDE DEF q, r
  <2>6. ASSUME NEW n \in 1..Len(q), s.Pool[q[n]] # cod
        PROVE  /\ t.Pool[q[n]] = s.Pool[q[n]]
               /\ \E p \in 1..Len(r) : r[p] = q[n]
    <3>1. q[n] # q[k] /\ n # k /\ q[n] \in Buffers
      BY <2>1, <2>4, <2>6
    <3>2. t.Pool[q[n]] = s.Pool[q[n]]
      BY <2>1, <2>3, <3>1
    <3>3. CASE n < k
      BY <2>2, <3>2, <3>3
    <3>4. CASE n > k
      <4>1. n - 1 \in 1..Len(r) /\ r[n - 1] = q[n]
        BY <2>2, <3>4
      <4>. QED
        BY <3>2, <4>1
    <3>. QED
      BY <2>2, <3>1, <3>3, <3>4
  <2>7. \A e \in Entries(s, i) : CodeAsLoaded(t, i, e, cods \ {cod})
    BY <1>5, <2>6 DEF q, r
  <2>8. ASSUME NEW a \in Slots \ {s.Object[i].Arrays},
               NEW n \in 1..Len(s.SourceBuffer[a])
        PROVE  t.Pool[s.SourceBuffer[a][n]] = s.Pool[s.SourceBuffer[a][n]]
    <3>1. s.SourceBuffer[a][n] \in Buffers
      BY TableType
    <3>2. s.SourceBuffer[a][n] # q[k]
      BY <2>2, <2>5 DEF AllDistinct
    <3>. QED
      BY <2>1, <2>3, <3>1, <3>2
  <2>. QED
    BY <1>1, <1>4, <2>7, <2>8, OnlyCodeHolds
<1>8. \/ t.SourceBuffer = s.SourceBuffer /\ t.Pool = s.Pool
      \/ \E k \in 1..Len(ListOf(s, i)) :
           /\ IsWithout(ListOf(t, i), ListOf(s, i), k)
           /\ t.Pool = [s.Pool EXCEPT ![ListOf(s, i)[k]] = NULL]
           /\ \E e \in CodeEntries(s, i, cod) :
                EntryOf(s, i, e).CodBuffer = ListOf(s, i)[k]
  BY <1>1, DropEffect
<1>9. CASE t.SourceBuffer # s.SourceBuffer \/ t.Pool # s.Pool
  <2>1. PICK k \in 1..Len(ListOf(s, i)) :
          /\ IsWithout(ListOf(t, i), ListOf(s, i), k)
          /\ t.Pool = [s.Pool EXCEPT ![ListOf(s, i)[k]] = NULL]
          /\ \E e \in CodeEntries(s, i, cod) :
               EntryOf(s, i, e).CodBuffer = ListOf(s, i)[k]
    BY <1>8, <1>9
  <2>2. PICK c \in CodeEntries(s, i, cod) :
          EntryOf(s, i, c).CodBuffer = ListOf(s, i)[k]
    BY <2>1
  <2>. QED
    BY <1>7, <2>1, <2>2
<1>. QED
  BY <1>6, <1>9
LEMMA AttachHolds ==
  ASSUME NEW s \in Tables, NEW l, NEW m, NEW i \in Indices(s),
         NEW cod \in CodFiles, Holds(s, l), ArraysApart(s), AllDistinct(s),
         NEW cods, cods = l[s.Object[i].Name].Code, cod \notin cods,
         IsCoded(l, m, s.Object[i].Name, cods \cup {cod}),
         NEW buffer \in FreeBuffers(s), NEW t, t = Attached(s, i, cod, buffer)
  PROVE  Holds(t, m)
<1>1. i \in Slots /\ buffer \in Buffers /\ s.Pool[buffer] = NULL
  BY TableType DEF FreeBuffers
<1>2. /\ t \in Tables /\ OnlyCode(s, t, i, cod, buffer)
      /\ ListOf(t, i) = Append(ListOf(s, i), buffer)
      /\ t.Pool = [s.Pool EXCEPT ![buffer] = cod]
  BY <1>1, AttachEffect
<1>3. /\ ListOf(s, i) \in Seq(Buffers)
      /\ s.Pool \in [Buffers -> CodFiles \cup {NULL}]
      /\ Entries(s, i) \subseteq EntrySlots /\ Entries(t, i) = Entries(s, i)
      /\ ListOf(s, i) = s.SourceBuffer[s.Object[i].Arrays]
      /\ s.Object[i].Arrays \in Slots
  BY <1>1, <1>2, TableType DEF OnlyCode, Entries, ListOf
<1>4. /\ \A e \in Entries(s, i) : CodeAsLoaded(s, i, e, cods)
      /\ OneText(s, i)
  BY DEF Holds, ObjectAsRead
<1>5. ASSUME NEW a \in Slots, NEW n \in 1..Len(s.SourceBuffer[a])
      PROVE  t.Pool[s.SourceBuffer[a][n]] = s.Pool[s.SourceBuffer[a][n]]
  <2>1. s.SourceBuffer[a][n] \in Buffers
    BY TableType
  <2>2. s.SourceBuffer[a][n] # buffer
    BY <1>1 DEF AllDistinct
  <2>. QED
    BY <1>2, <1>3, <2>1, <2>2
<1>6. /\ \A n \in 1..Len(ListOf(s, i)) :
           n \in 1..Len(ListOf(t, i)) /\ ListOf(t, i)[n] = ListOf(s, i)[n]
      /\ \E n \in 1..Len(ListOf(t, i)) : ListOf(t, i)[n] = buffer
      /\ t.Pool[buffer] = cod
  <2>1. \A q \in Seq(Buffers) :
          /\ \A n \in 1..Len(q) :
               n \in 1..Len(Append(q, buffer)) /\ Append(q, buffer)[n] = q[n]
          /\ Len(q) + 1 \in 1..Len(Append(q, buffer))
          /\ Append(q, buffer)[Len(q) + 1] = buffer
    BY <1>1
  <2>2. PICK q : q = ListOf(s, i)
    OBVIOUS
  <2>3. ListOf(t, i) = Append(q, buffer) /\ q \in Seq(Buffers)
    BY <1>2, <1>3, <2>2
  <2>4. \A n \in 1..Len(ListOf(s, i)) :
          n \in 1..Len(ListOf(t, i)) /\ ListOf(t, i)[n] = ListOf(s, i)[n]
    BY <2>1, <2>2, <2>3
  <2>5. \E n \in 1..Len(ListOf(t, i)) : ListOf(t, i)[n] = buffer
    BY <2>1, <2>3
  <2>6. t.Pool[buffer] = cod
    BY <1>1, <1>2, <1>3
  <2>. QED
    BY <2>4, <2>5, <2>6
<1>7. ASSUME NEW e \in Entries(s, i)
      PROVE  /\ EntryOf(t, i, e).ObjName = EntryOf(s, i, e).ObjName
             /\ \A c : HasCode(EntryOf(t, i, e), c) <=> HasCode(EntryOf(s, i, e), c)
             /\ EntryOf(s, i, e).ObjName = cod =>
                  EntryOf(t, i, e).CodBuffer =
                    IF HasCode(EntryOf(s, i, e), cods \cup {cod})
                    THEN buffer ELSE NULL
             /\ EntryOf(s, i, e).ObjName # cod =>
                  EntryOf(t, i, e).CodBuffer = EntryOf(s, i, e).CodBuffer
  <2>1. PICK x, y : x = EntryOf(s, i, e) /\ y = EntryOf(t, i, e)
    OBVIOUS
  <2>2. /\ y.Name = x.Name /\ y.Type = x.Type /\ y.ObjName = x.ObjName
        /\ y.CodBuffer = IF e \in CodeEntries(s, i, cod)
                         THEN EdbLoadCodBySymbol(x.Name, cod, buffer)
                         ELSE x.CodBuffer
    BY <1>2, <1>3, <2>1 DEF OnlyCode
  <2>3. \A c : HasCode(y, c) <=> HasCode(x, c)
    BY <2>2, SameCode
  <2>4. CASE e \in CodeEntries(s, i, cod)
    <3>1. /\ x.ObjName = cod
          /\ HasCode(x, cods \cup {cod}) <=> x.Name \in Functions[cod]
      <4>1. ASSUME NEW d, d = cods \cup {cod}
            PROVE  x.ObjName = cod /\ (HasCode(x, d) <=> x.Name \in Functions[cod])
        <5>1. cod \in d
          BY <4>1
        <5>. QED
          BY <1>1, <2>1, <2>4, <5>1, CodeEntryOf
      <4>. QED
        BY <4>1
    <3>. QED
      BY <2>1, <2>2, <2>3, <2>4, <3>1 DEF EdbLoadCodBySymbol
  <2>5. CASE e \notin CodeEntries(s, i, cod)
    <3>1. ASSUME x.ObjName = cod
          PROVE  x.CodBuffer = NULL /\ ~HasCode(x, cods \cup {cod})
      <4>1. ASSUME NEW d PROVE ~HasCode(x, d)
        BY <1>1, <2>1, <2>5, <3>1, CodeEntryOf
      <4>2. x.CodBuffer = NULL
        BY <1>4, <2>1, <4>1 DEF CodeAsLoaded
      <4>. QED
        BY <4>1, <4>2
    <3>. QED
      BY <2>1, <2>2, <2>3, <2>5, <3>1
  <2>. QED
    BY <2>4, <2>5
<1>8. OneText(t, i)
  BY <1>3, <1>4, <1>7 DEF OneText
<1>9. ASSUME NEW e \in Entries(s, i)
      PROVE  CodeAsLoaded(t, i, e, cods \cup {cod})
  <2>1. PICK x, y : x = EntryOf(s, i, e) /\ y = EntryOf(t, i, e)
    OBVIOUS
  <2>2. CASE x.ObjName = cod
    <3>1. CASE HasCode(x, cods \cup {cod})
      BY <1>6, <1>7, <2>1, <2>2, <3>1 DEF CodeAsLoaded
    <3>2. CASE ~HasCode(x, cods \cup {cod})
      BY <1>7, <2>1, <2>2, <3>2 DEF CodeAsLoaded
    <3>. QED
      BY <3>1, <3>2
  <2>3. CASE x.ObjName # cod
    <3>1. HasCode(x, cods \cup {cod}) <=> HasCode(x, cods)
      BY <2>3 DEF HasCode
    <3>2. CASE HasCode(x, cods)
      <4>1. PICK n \in 1..Len(ListOf(s, i)) : ListOf(s, i)[n] = x.CodBuffer
        BY <1>4, <2>1, <3>2 DEF CodeAsLoaded
      <4>2. s.Pool[x.CodBuffer] = x.ObjName
        BY <1>4, <2>1, <3>2 DEF CodeAsLoaded
      <4>3. t.Pool[x.CodBuffer] = x.ObjName
        BY <1>3, <1>5, <4>1, <4>2
      <4>4. y.CodBuffer = x.CodBuffer /\ y.ObjName = x.ObjName
        BY <1>7, <2>1, <2>3
      <4>. QED
        BY <1>6, <1>7, <2>1, <3>1, <3>2, <4>1, <4>3, <4>4 DEF CodeAsLoaded
    <3>3. CASE ~HasCode(x, cods)
      <4>1. x.CodBuffer = NULL
        BY <1>4, <2>1, <3>3 DEF CodeAsLoaded
      <4>2. y.CodBuffer = NULL
        BY <1>7, <2>1, <2>3, <4>1
      <4>. QED
        BY <1>7, <2>1, <3>1, <3>3, <4>2 DEF CodeAsLoaded
    <3>. QED
      BY <3>2, <3>3
  <2>. QED
    BY <2>2, <2>3
<1>10. PICK d : d = cods \cup {cod}
  OBVIOUS
<1>11. /\ IsCoded(l, m, s.Object[i].Name, d)
       /\ \A e \in Entries(s, i) : CodeAsLoaded(t, i, e, d)
       /\ \A a \in Slots \ {s.Object[i].Arrays} :
            \A n \in 1..Len(s.SourceBuffer[a]) :
              t.Pool[s.SourceBuffer[a][n]] = s.Pool[s.SourceBuffer[a][n]]
  BY <1>5, <1>9, <1>10
<1>. QED
  BY <1>2, <1>8, <1>11, OnlyCodeHolds
LEMMA HoldsLoaded ==
  ASSUME NEW s, NEW l, Holds(s, l), NEW file
  PROVE  IsLoaded(s, file) <=> file \in DOMAIN l
BY DEF Holds, IsLoaded, EdbFindSymbolFile

LEMMA HoldsSame ==
  ASSUME NEW s, NEW l, Holds(s, l), NEW m, DOMAIN m = DOMAIN l,
         \A f \in DOMAIN l : m[f] = l[f]
  PROVE  Holds(s, m)
<1>1. ASSUME NEW i \in Indices(s)
      PROVE  ObjectAsRead(s, m, i)
  <2>1. PICK name : name = s.Object[i].Name
    OBVIOUS
  <2>2. name \in DOMAIN l /\ ObjectAsRead(s, l, i)
    BY <2>1 DEF Holds
  <2>3. m[name] = l[name]
    BY <2>2
  <2>. QED
    BY <2>1, <2>2, <2>3 DEF ObjectAsRead
<1>. QED
  BY <1>1 DEF Holds

\* LOADSYMBOL of a file that is not loaded, or is the first.
LEMMA LoadHolds ==
  ASSUME NEW s \in Tables, NEW l, Holds(s, l), AllDistinct(s), ArraysApart(s),
         AllListed(s), NEW file \in MapFiles, NEW base \in Nat,
         IsLoaded(s, file) => IndexOf(s, file) = 0,
         NEW v, v = EdbLoadSymbol(s, file),
         NEW t, t = EdbPatchSymbolRVA(v, file, base)
  PROVE  IF IsLoaded(v, file) THEN Holds(t, WithFile(l, file, base))
         ELSE Holds(t, l)
<1>1. PICK u, m : u = EdbUnloadSymbol(s, file) /\ m = Without(l, file)
  OBVIOUS
<1>2. /\ u \in Tables /\ ArraysApart(u) /\ Holds(u, m)
      /\ u.ObjectCount \in Nat /\ MaxObjects \in Nat
      /\ u.ObjectCount >= MaxObjects => u = s /\ ~IsLoaded(s, file)
  <2>1. CASE IsLoaded(s, file)
    <3>1. Holds(u, m)
      BY <1>1, <2>1, UnloadHolds
    <3>2. ArraysApart(u)
      BY <1>1, <2>1, UnloadSources
    <3>3. ASSUME NEW old, old = s.Object[0], NEW last, last = s.ObjectCount - 1
          PROVE  u \in Tables /\ u.ObjectCount \in Slots
      BY <1>1, <2>1, <3>3, UnloadEffect
    <3>4. u \in Tables /\ u.ObjectCount \in Slots
      BY <3>3
    <3>. QED
      BY <3>1, <3>2, <3>4, SizeAssumption DEF Slots
  <2>2. CASE ~IsLoaded(s, file)
    <3>1. u = s
      BY <1>1, <2>2 DEF EdbUnloadSymbol
    <3>2. file \notin DOMAIN l
      BY <2>2, HoldsLoaded
    <3>3. DOMAIN m = DOMAIN l /\ \A f \in DOMAIN l : m[f] = l[f]
      BY <1>1, <3>2 DEF Without
    <3>4. Holds(s, m)
      BY <3>3, HoldsSame
    <3>5. s.ObjectCount \in Nat /\ MaxObjects \in Nat
      BY TableType, SizeAssumption
    <3>. QED
      BY <2>2, <3>1, <3>4, <3>5
  <2>. QED
    BY <2>1, <2>2
<1>3. v = IF u.ObjectCount >= MaxObjects THEN u ELSE FillObject(u, file)
  BY <1>1 DEF EdbLoadSymbol
<1>4. CASE u.ObjectCount >= MaxObjects
  <2>1. v = s /\ ~IsLoaded(v, file)
    BY <1>2, <1>3, <1>4
  <2>2. t = s
    BY <2>1 DEF EdbPatchSymbolRVA
  <2>. QED
    BY <2>1, <2>2
<1>5. CASE u.ObjectCount < MaxObjects
  <2>1. v = FillObject(u, file)
    BY <1>2, <1>3, <1>5
  <2>2. file \notin DOMAIN m
    BY <1>1 DEF Without
  <2>3. Holds(v, WithFile(m, file, 0)) /\ IsLoaded(v, file)
    BY <1>2, <1>5, <2>1, <2>2, FillHolds
  <2>4. ASSUME NEW k, k = u.ObjectCount
        PROVE  v \in Tables
    BY <1>2, <1>5, <2>1, <2>4, FillEffect
  <2>5. v \in Tables
    BY <2>4
  <2>6. Holds(t, WithFile(m, file, base))
    BY <2>3, <2>5, PatchHolds
  <2>7. /\ DOMAIN WithFile(m, file, base) = DOMAIN WithFile(l, file, base)
        /\ \A f \in DOMAIN WithFile(m, file, base) :
             WithFile(l, file, base)[f] = WithFile(m, file, base)[f]
    BY <1>1 DEF WithFile, Without
  <2>8. Holds(t, WithFile(l, file, base))
    BY <2>6, <2>7, HoldsSame
  <2>. QED
    BY <2>3, <2>8
<1>. QED
  BY <1>2, <1>4, <1>5

\* The code of a .cod file is unloaded, or loaded, perhaps again.
LEMMA CodHolds ==
  ASSUME NEW s \in Tables, NEW l, NEW m, NEW file \in DOMAIN l,
         NEW cod \in CodFiles, Holds(s, l), ArraysApart(s), AllDistinct(s),
         NEW cods, cods = l[file].Code,
         NEW t,
         \/ /\ t = LoadCodFile(s, file, cod) /\ FreeBuffers(s) # {}
            /\ IsCoded(l, m, file, cods \cup {cod})
         \/ /\ t = UnloadCodFile(s, file, cod)
            /\ IsCoded(l, m, file, cods \ {cod})
  PROVE  Holds(t, m)
<1>1. PICK i : i = IndexOf(s, file)
  OBVIOUS
<1>2. /\ IsLoaded(s, file) /\ i \in Indices(s) /\ i \in Slots
      /\ s.Object[i].Name = file
  BY <1>1, HoldsLoaded, IndexOfLoaded
<1>3. PICK d, rest, n : /\ d = DropCode(s, i, cod) /\ rest = cods \ {cod}
                        /\ n = [l EXCEPT ![file] =
                                  [Base |-> l[file].Base, Code |-> rest]]
  OBVIOUS
<1>4. IsCoded(l, n, file, rest)
  BY <1>3 DEF IsCoded
<1>5. Holds(d, n)
  BY <1>2, <1>3, <1>4, DropHolds
<1>6. CASE /\ t = UnloadCodFile(s, file, cod)
           /\ IsCoded(l, m, file, cods \ {cod})
  <2>1. t = d /\ IsCoded(l, m, file, rest)
    BY <1>1, <1>2, <1>3, <1>6 DEF UnloadCodFile
  <2>. QED
    BY <1>2, <1>3, <2>1, DropHolds
<1>7. CASE /\ t = LoadCodFile(s, file, cod) /\ FreeBuffers(s) # {}
           /\ IsCoded(l, m, file, cods \cup {cod})
  <2>1. PICK buffer : buffer = ReadFileToBuffer(s)
    OBVIOUS
  <2>2. /\ buffer \in FreeBuffers(s)
        /\ t = Attached(d, i, cod, buffer)
    BY <1>1, <1>2, <1>3, <1>7, <2>1, LoadCodSplit DEF FreeBuffers
  <2>3. /\ d \in Tables /\ AllDistinct(d) /\ ArraysApart(d)
        /\ buffer \in FreeBuffers(d)
        /\ OnlyCode(s, d, i, cod, NULL)
    BY <1>2, <1>3, <2>2, DropEffect, DropSources
  <2>4. i \in Indices(d) /\ d.Object[i].Name = file
    BY <1>2, <2>3 DEF OnlyCode, Indices
  <2>5. n[file].Code = rest /\ cod \notin rest
    BY <1>3
  <2>6. PICK both : both = rest \cup {cod}
    OBVIOUS
  <2>7. IsCoded(n, m, file, both)
    <3>1. both = cods \cup {cod}
      BY <1>3, <2>6
    <3>. QED
      BY <1>4, <1>7, <3>1 DEF IsCoded
  <2>. QED
    BY <1>5, <2>2, <2>3, <2>4, <2>5, <2>6, <2>7, AttachHolds
<1>. QED
  BY <1>6, <1>7
\* A .cod file is loaded or unloaded, for a file that is loaded or is not.
LEMMA WithCodeHolds ==
  ASSUME sym \in Tables, LoadedOK(loaded), Holds(sym, loaded),
         ArraysApart(sym), AllDistinct(sym),
         NEW file, NEW cod \in CodFiles,
         NEW t, NEW m,
         \/ /\ t = LoadCodFile(sym, file, cod) /\ FreeBuffers(sym) # {}
            /\ m = WithCode(file, loaded[file].Code \cup {cod})
         \/ /\ t = UnloadCodFile(sym, file, cod)
            /\ m = WithCode(file, loaded[file].Code \ {cod})
  PROVE  Holds(t, m)
<1>1. CASE file \notin DOMAIN loaded
  <2>1. ~IsLoaded(sym, file)
    BY <1>1, HoldsLoaded
  <2>2. t = sym
    BY <2>1 DEF LoadCodFile, UnloadCodFile
  <2>3. m = loaded
    BY <1>1 DEF WithCode
  <2>. QED
    BY <2>2, <2>3
<1>2. CASE file \in DOMAIN loaded
  <2>1. ASSUME NEW cods
        PROVE  IsCoded(loaded, WithCode(file, cods), file, cods)
    <3>1. loaded[file] \in [Base : Bases[file], Code : SUBSET CodFiles]
      BY <1>2 DEF LoadedOK
    <3>2. WithCode(file, cods) = [loaded EXCEPT ![file].Code = cods]
      BY <1>2 DEF WithCode
    <3>3. PICK n : n = [loaded[file] EXCEPT !.Code = cods]
      OBVIOUS
    <3>4. n.Base = loaded[file].Base /\ n.Code = cods
      BY <3>1, <3>3
    <3>5. /\ DOMAIN WithCode(file, cods) = DOMAIN loaded
          /\ WithCode(file, cods)[file] = n
          /\ \A f \in DOMAIN loaded \ {file} :
               WithCode(file, cods)[f] = loaded[f]
      BY <1>2, <3>2, <3>3
    <3>. QED
      BY <3>4, <3>5 DEF IsCoded
  <2>2. PICK cods : cods = loaded[file].Code
    OBVIOUS
  <2>3. \/ /\ t = LoadCodFile(sym, file, cod) /\ FreeBuffers(sym) # {}
           /\ IsCoded(loaded, m, file, cods \cup {cod})
        \/ /\ t = UnloadCodFile(sym, file, cod)
           /\ IsCoded(loaded, m, file, cods \ {cod})
    BY <2>1, <2>2
  <2>. QED
    BY <1>2, <2>2, <2>3, CodHolds
<1>. QED
  BY <1>1, <1>2

LEMMA LoadedInvNext == LoadedInv' <=> (intact' => Holds(sym', loaded'))
BY DEF LoadedInv, Holds, Indices, Entries, EntryOf, ObjectAsRead, SymbolAsRead,
       CodeAsLoaded, OneText, ListOf, CountOf

LEMMA LoadedInit == Init => LoadedInv
<1>. SUFFICES ASSUME Init PROVE Holds(sym, loaded)
  BY DEF LoadedInv
<1>1. /\ sym.ObjectCount = 0 /\ loaded = <<>>
      /\ sym.Object = [i \in Slots |-> ZeroObject(i)]
      /\ sym.Entry = [i \in Slots |-> [e \in EntrySlots |-> ZeroEntry]]
  BY DEF Init, EmptyTable
<1>2. Indices(sym) = {} /\ DOMAIN loaded = {}
  BY <1>1 DEF Indices
<1>3. \A i \in Slots : sym.Object[i].EntryCount = 0 /\ sym.Object[i].Arrays = i
  BY <1>1 DEF ZeroObject
<1>4. \A i \in Slots, e \in EntrySlots : EntryOf(sym, i, e).CodBuffer = NULL
  BY <1>1, <1>3 DEF EntryOf, ZeroEntry
<1>. QED
  BY <1>2, <1>3, <1>4 DEF Holds

LEMMA LoadedNext == TInv /\ SourceInv /\ LoadedInv /\ [Next]_vars => LoadedInv'
<1>. SUFFICES ASSUME TInv, SourceInv, LoadedInv, [Next]_vars, intact'
              PROVE  Holds(sym', loaded')
  BY LoadedInvNext
<1>1. intact
  <2>1. intact \in BOOLEAN
    BY TInvParts
  <2>. QED
    BY <2>1 DEF Next, vars, DebuggerLoadSymbol, LoadNextCod,
       DebuggerUnloadSymbol, UnloadNextCod, FinishUnload, DebuggerLoadCode,
       DebuggerUnloadCode, BeginSession, Quit
<1>2. /\ sym \in Tables /\ CommandOK(command) /\ LoadedOK(loaded)
      /\ AllDistinct(sym) /\ ArraysApart(sym) /\ AllListed(sym)
      /\ Holds(sym, loaded)
  BY <1>1, TInvParts DEF SourceInv, LoadedInv
<1>3. ASSUME NEW file \in MapFiles, NEW withCode \in BOOLEAN,
             NEW base \in Bases[file],
             DebuggerLoadSymbol(file, withCode, base)
      PROVE  Holds(sym', loaded')
  <2>1. base \in Nat
    BY AddressAssumption
  <2>2. PICK v : v = EdbLoadSymbol(sym, file)
    OBVIOUS
  <2>3. /\ sym' = EdbPatchSymbolRVA(v, file, base)
        /\ loaded' = IF IsLoaded(v, file) THEN WithFile(loaded, file, base)
                     ELSE loaded
        /\ IsLoaded(sym, file) => IndexOf(sym, file) = 0
    BY <1>3, <2>2 DEF DebuggerLoadSymbol, UnloadsInPlace, WithFile
  <2>4. IF IsLoaded(v, file) THEN Holds(sym', WithFile(loaded, file, base))
        ELSE Holds(sym', loaded)
    BY <1>2, <2>1, <2>2, <2>3, LoadHolds
  <2>. QED
    BY <2>3, <2>4
<1>4. CASE LoadNextCod
  <2>1. PICK cod : cod = Directory[command.Next]
    OBVIOUS
  <2>2. cod \in CodFiles
    BY <1>2, <1>4, <2>1, CommandTypes DEF LoadNextCod, LoadCommand
  <2>3. CASE UNCHANGED <<sym, loaded>>
    BY <1>2, <2>3
  <2>4. CASE /\ FreeBuffers(sym) # {}
             /\ sym' = LoadCodFile(sym, command.File, cod)
             /\ loaded' = WithCode(command.File,
                                   loaded[command.File].Code \cup {cod})
    BY <1>2, <2>2, <2>4, WithCodeHolds
  <2>. QED
    BY <1>4, <2>1, <2>3, <2>4 DEF LoadNextCod
<1>5. ASSUME NEW file \in MapFiles, DebuggerUnloadSymbol(file)
      PROVE  Holds(sym', loaded')
  BY <1>2, <1>5 DEF DebuggerUnloadSymbol
<1>6. CASE UnloadNextCod
  <2>1. PICK cod : cod = Directory[command.Next]
    OBVIOUS
  <2>2. command \in UnloadCommand /\ command.Next <= Len(Directory)
    BY <1>2, <1>6, CommandTypes DEF UnloadNextCod
  <2>3. cod \in CodFiles
    BY <2>1, <2>2, CommandTypes DEF UnloadCommand
  <2>4. /\ sym' = UnloadCodFile(sym, command.File, cod)
        /\ loaded' = WithCode(command.File, loaded[command.File].Code \ {cod})
    BY <1>6, <2>1 DEF UnloadNextCod
  <2>. QED
    BY <1>2, <2>3, <2>4, WithCodeHolds
<1>7. CASE FinishUnload
  <2>1. PICK file : file = command.File
    OBVIOUS
  <2>2. /\ sym' = EdbUnloadSymbol(sym, file)
        /\ loaded' = Without(loaded, file)
        /\ IsLoaded(sym, file) => IndexOf(sym, file) = 0
    BY <1>7, <2>1 DEF FinishUnload, UnloadsInPlace, Forget, Without
  <2>3. CASE IsLoaded(sym, file)
    BY <1>2, <2>2, <2>3, UnloadHolds
  <2>4. CASE ~IsLoaded(sym, file)
    <3>1. sym' = sym
      BY <2>2, <2>4 DEF EdbUnloadSymbol
    <3>2. file \notin DOMAIN loaded
      BY <1>2, <2>4, HoldsLoaded
    <3>3. /\ DOMAIN loaded' = DOMAIN loaded
          /\ \A f \in DOMAIN loaded : loaded'[f] = loaded[f]
      BY <2>2, <3>2 DEF Without
    <3>. QED
      BY <1>2, <3>1, <3>3, HoldsSame
  <2>. QED
    BY <2>3, <2>4
<1>8. ASSUME NEW file \in MapFiles, NEW cod \in CodFiles,
             DebuggerLoadCode(file, cod) \/ DebuggerUnloadCode(file, cod)
      PROVE  Holds(sym', loaded')
  <2>1. \/ /\ sym' = LoadCodFile(sym, file, cod) /\ FreeBuffers(sym) # {}
           /\ loaded' = WithCode(file, loaded[file].Code \cup {cod})
        \/ /\ sym' = UnloadCodFile(sym, file, cod)
           /\ loaded' = WithCode(file, loaded[file].Code \ {cod})
    BY <1>8 DEF DebuggerLoadCode, DebuggerUnloadCode
  <2>. QED
    BY <1>2, <2>1, WithCodeHolds
<1>9. CASE BeginSession
  <2>1. /\ sym' = [sym EXCEPT !.ObjectCount = 0] /\ loaded' = <<>>
        /\ sym.ObjectCount = 0
    BY <1>9 DEF BeginSession
  <2>2. /\ sym'.Object = sym.Object /\ sym'.Entry = sym.Entry
        /\ Indices(sym') = {} /\ Indices(sym) = {}
    <3>1. sym \in SymbolContext
      BY <1>2 DEF Tables
    <3>. QED
      BY <2>1, <3>1 DEF SymbolContext, Indices
  <2>3. DOMAIN <<>> = {}
    OBVIOUS
  <2>. QED
    BY <1>2, <2>1, <2>2, <2>3 DEF Holds, Entries, EntryOf
<1>10. CASE Quit
  <2>1. sym' = EdbClearSymbol(sym) /\ loaded' = <<>>
    BY <1>10 DEF Quit
  <2>. QED
    BY <1>2, <2>1, ClearHolds
<1>11. CASE UNCHANGED vars
  BY <1>2, <1>11 DEF vars
<1>. QED
  BY <1>3, <1>4, <1>5, <1>6, <1>7, <1>8, <1>9, <1>10, <1>11 DEF Next
\* An object that is as the parser read it is as the linker wrote it.
LEMMA AsLoaded ==
  ASSUME sym \in Tables, NEW i \in Indices(sym), ObjectAsRead(sym, loaded, i)
  PROVE  ObjectAsLoaded(i)
<1>1. PICK object, linked, cods :
        /\ object = sym.Object[i] /\ linked = LinkedSymbols(object.Name)
        /\ cods = loaded[object.Name].Code
  OBVIOUS
<1>2. /\ object.Name \in MapFiles
      /\ object.BaseAddress = loaded[object.Name].Base
      /\ object.EntryCount = CountOf(object.Name)
      /\ \A e \in Entries(sym, i) :
           SymbolAsRead(sym, i, e) /\ CodeAsLoaded(sym, i, e, cods)
  BY <1>1 DEF ObjectAsRead
<1>3. linked = EdbLoadSymbolEntryByIec(object.Name)
  BY <1>1, <1>2, ReadAsLinked
<1>4. object.EntryCount =
        IF Len(linked) < MaxEntries THEN Len(linked) ELSE MaxEntries
  BY <1>2, <1>3 DEF CountOf
<1>5. i \in Slots
  BY TableType
<1>6. ASSUME NEW e \in Entries(sym, i), NEW symbol, symbol = linked[e + 1]
      PROVE  /\ EntryOf(sym, i, e) =
                  [Name |-> symbol.Name, Rva |-> symbol.Rva,
                   Type |-> symbol.Type, ObjName |-> symbol.ObjName,
                   CodBuffer |-> EntryOf(sym, i, e).CodBuffer]
             /\ CodeText(i, e) =
                  IF HasCode(symbol, cods) THEN symbol.ObjName ELSE NULL
  <2>1. PICK entry : entry = EntryOf(sym, i, e)
    OBVIOUS
  <2>2. entry \in EntryRecord
    BY <1>5, <2>1, TableType
  <2>3. /\ entry.Name = symbol.Name /\ entry.Rva = symbol.Rva
        /\ entry.Type = symbol.Type /\ entry.ObjName = symbol.ObjName
    BY <1>1, <1>2, <1>3, <1>6, <2>1 DEF SymbolAsRead
  <2>4. entry = [Name |-> symbol.Name, Rva |-> symbol.Rva,
                 Type |-> symbol.Type, ObjName |-> symbol.ObjName,
                 CodBuffer |-> entry.CodBuffer]
    BY <2>2, <2>3 DEF EntryRecord
  <2>5. HasCode(symbol, cods) <=> HasCode(entry, cods)
    BY <2>3, SameCode
  <2>6. CASE HasCode(entry, cods)
    <3>1. /\ \E m \in 1..Len(ListOf(sym, i)) :
               ListOf(sym, i)[m] = entry.CodBuffer
          /\ sym.Pool[entry.CodBuffer] = entry.ObjName
      BY <1>2, <2>1, <2>6 DEF CodeAsLoaded
    <3>2. ListOf(sym, i) \in Seq(Buffers)
      BY <1>5, TableType
    <3>3. entry.CodBuffer \in Buffers /\ entry.CodBuffer \in ToSet(ListOf(sym, i))
      BY <3>1, <3>2 DEF ToSet
    <3>4. entry.CodBuffer # NULL
      BY <3>3, NullAssumption
    <3>5. CodeText(i, e) = sym.Pool[entry.CodBuffer]
      BY <2>1, <3>3, <3>4 DEF CodeText, ListOf
    <3>. QED
      BY <2>1, <2>3, <2>4, <2>5, <2>6, <3>1, <3>5
  <2>7. CASE ~HasCode(entry, cods)
    <3>1. entry.CodBuffer = NULL
      BY <1>2, <2>1, <2>7 DEF CodeAsLoaded
    <3>2. CodeText(i, e) = NULL
      BY <2>1, <3>1 DEF CodeText
    <3>. QED
      BY <2>1, <2>4, <2>5, <2>7, <3>2
  <2>. QED
    BY <2>6, <2>7
<1>. QED
  BY <1>1, <1>2, <1>4, <1>6 DEF ObjectAsLoaded

\* At the prompt the table holds each map file that has been loaded, once,
\* with the symbols that the linker wrote (EdbLoadSymbolEntryByIec), at the
\* base of its image, and its functions point to the code of the .cod files
\* that were last loaded (EdbLoadCode), as long as only the first file is taken
\* out and no session begins over loaded files.
THEOREM LoadedFaithful == Spec => []TableAsLoaded
<1>1. TInv /\ LoadedInv => TableAsLoaded
  <2>. SUFFICES ASSUME TInv, LoadedInv, intact
       PROVE  /\ DOMAIN loaded = {sym.Object[i].Name : i \in Indices(sym)}
              /\ sym.ObjectCount = Cardinality(DOMAIN loaded)
              /\ \A i \in Indices(sym) : ObjectAsLoaded(i)
    BY DEF TableAsLoaded
  <2>1. sym \in Tables /\ Holds(sym, loaded)
    BY TInvParts DEF LoadedInv
  <2>2. /\ DOMAIN loaded = {sym.Object[i].Name : i \in Indices(sym)}
        /\ \A i, j \in Indices(sym) :
             sym.Object[i].Name = sym.Object[j].Name => i = j
        /\ \A i \in Indices(sym) : ObjectAsRead(sym, loaded, i)
    BY <2>1 DEF Holds
  <2>3. sym.ObjectCount = Cardinality(DOMAIN loaded)
    <3>1. PICK n : n = sym.ObjectCount
      OBVIOUS
    <3>2. n \in Nat /\ Indices(sym) = 0..n - 1
      BY <2>1, <3>1, TableType DEF Indices
    <3>3. PICK f : f = [i \in 0..n - 1 |-> sym.Object[i].Name]
      OBVIOUS
    <3>4. /\ f \in [0..n - 1 -> DOMAIN loaded]
          /\ \A i, j \in 0..n - 1 : f[i] = f[j] => i = j
          /\ \A name \in DOMAIN loaded : \E i \in 0..n - 1 : f[i] = name
      BY <2>2, <3>2, <3>3
    <3>5. f \in Bijection(0..n - 1, DOMAIN loaded)
      BY <3>4 DEF Bijection, Injection, Surjection, IsInjective
    <3>6. ExistsBijection(0..n - 1, DOMAIN loaded)
      BY <3>5 DEF ExistsBijection
    <3>7. /\ IsFiniteSet(0..n - 1)
          /\ Cardinality(0..n - 1) = n
      <4>1. 0 \in Int /\ n - 1 \in Int
        BY <3>2
      <4>2. /\ IsFiniteSet(0..n - 1)
            /\ Cardinality(0..n - 1) =
                 IF 0 > n - 1 THEN 0 ELSE (n - 1) - 0 + 1
        BY <4>1, FS_Interval
      <4>. QED
        BY <3>2, <4>2
    <3>. QED
      BY <3>1, <3>6, <3>7, FS_Bijection
  <2>4. \A i \in Indices(sym) : ObjectAsLoaded(i)
    BY <2>1, <2>2, AsLoaded
  <2>. QED
    BY <2>2, <2>3, <2>4
<1>. QED
  BY <1>1, TInvInit, TInvNext, SourceInit, SourceNext, LoadedInit, LoadedNext,
     PTL DEF Spec
=============================================================================

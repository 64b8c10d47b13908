------------------------------ MODULE EdbSymbol ------------------------------
(***************************************************************************)
(* The symbol files of the debugger (EdbSymbol.c, EdbCmdSymbol.c, and what *)
(* Edb.c and EdbHook.c do to them): a table of objects, one for each map   *)
(* file, over arrays that are allocated once; the .cod files whose text is *)
(* attached to the functions of an object and kept in its list of source   *)
(* buffers; and the two ways to look a symbol up.                          *)
(*                                                                         *)
(* A map file is a sequence of lines; the text of a .cod file matters only *)
(* as the set of functions it has.  An .obj and the .cod file of the same  *)
(* name are one value of CodFiles.                                         *)
(***************************************************************************)
EXTENDS Integers, Sequences, FiniteSets, SequencesExt

CONSTANTS
  MapFiles, CodFiles,   \* names of files
  Names,                \* names of symbols
  NULL,                 \* no name, no file, no buffer
  Prefix,               \* for each symbol name, the prefix the parser knows:
                        \* "SeHandler", "VarbssInit", "Crt" or "none"
  Lines,                \* the lines of each map file
  Functions,            \* the functions whose code each .cod file has
  Directory,            \* the .cod files of the directory, in its order
  Bases,                \* where the image of each map file may be; 0: nowhere
  LinkBase,             \* EFI_DEBUGGER_DEFAULT_LINK_IMAGEBASE
  Delta,                \* EFI_DEBUGGER_MAX_SYMBOL_ADDRESS_DELTA_VALUE
  MaxAddress,           \* (UINTN) -1
  MaxObjects,           \* EFI_DEBUGGER_SYMBOL_OBJECT_MAX
  MaxEntries,           \* EFI_DEBUGGER_SYMBOL_ENTRY_MAX
  Buffers               \* the addresses AllocatePool has for source files

Line == [Kind : {"Address", "Static", "entry", "symbol", "other"},
         Name : Names, Address : Nat, F : BOOLEAN, Obj : CodFiles]
Slots == 0..MaxObjects - 1
EntrySlots == 0..MaxEntries - 1

ASSUME NullAssumption ==
  NULL \notin MapFiles \cup CodFiles \cup Names \cup Buffers
ASSUME SizeAssumption == MaxObjects \in Nat \ {0} /\ MaxEntries \in Nat \ {0}
ASSUME FileAssumption ==
  /\ Prefix \in [Names -> {"SeHandler", "VarbssInit", "Crt", "none"}]
  /\ DOMAIN Lines = MapFiles
  /\ \A file \in MapFiles : Lines[file] \in Seq(Line)
  /\ Functions \in [CodFiles -> SUBSET Names]
  /\ Directory \in Seq(CodFiles)
ASSUME AddressAssumption ==
  /\ Bases \in [MapFiles -> SUBSET Nat]
  /\ LinkBase \in Nat \ {0} /\ Delta \in Nat /\ MaxAddress \in Nat

\* The order in which the linker writes the symbols of a map file, as the
\* parser takes it for granted: after the header the SeHandler symbols, the
\* functions, among them those of VarbssInit, and from the first Crt symbol on
\* the variables; then the static symbols, which are functions.
InLinkerOrder(lines) ==
  LET IsSymbol(n) == lines[n].Kind = "symbol"
      Is(n, prefix) == IsSymbol(n) /\ Prefix[lines[n].Name] = prefix
      Static(n) == \E m \in 1..n : lines[m].Kind = "Static"
      Follows(n, prefix) == \E m \in 1..n - 1 : Is(m, prefix)
  IN \A n \in 1..Len(lines) :
       /\ IsSymbol(n) => \E m \in 1..n : lines[m].Kind = "Address"
       /\ lines[n].Kind = "Address" =>
            \A m \in 1..n - 1 : lines[m].Kind \notin {"symbol", "Static"}
       /\ Is(n, "SeHandler") =>
            /\ ~Static(n)
            /\ \A m \in 1..n - 1 : IsSymbol(m) => Is(m, "SeHandler")
       /\ IsSymbol(n) /\ ~Is(n, "SeHandler") =>
            IF Static(n) THEN Is(n, "none") /\ lines[n].F
            ELSE /\ Follows(n, "SeHandler")
                 /\ lines[n].F <=> ~Is(n, "Crt") /\ ~Follows(n, "Crt")
                 /\ Is(n, "VarbssInit") => lines[n].F

ASSUME LinkerAssumption == \A file \in MapFiles : InLinkerOrder(Lines[file])

VARIABLES
  sym,      \* DebuggerSymbolContext: ObjectCount; Object, each with its Name,
            \* EntryCount, BaseAddress and the place of its Arrays; for each
            \* of these places the array Entry and the list SourceBuffer; and
            \* Pool, the .cod file whose text each allocated buffer has
  command,  \* the command that walks through the directory, if any
  loaded,   \* history: the map files the user has loaded, each with the base
            \* found and the .cod files whose functions it was given
  intact    \* history: only the first file has ever been unloaded or loaded
            \* again, and no session has begun over loaded files

vars == <<sym, command, loaded, intact>>

-----------------------------------------------------------------------------
(* The entries of a map file.  The state of the parser is that of the line  *)
(* before; lines of the linker's preamble are of the kind "other".          *)

SymbolTypes == {"Function", "StaticFunction", "GlobalVariable"}

NextParseState(at, line) ==
  IF line.Kind = "Address" THEN "SymbolStart"
  ELSE IF line.Kind = "Static" THEN "StaticFunction"
  ELSE IF at = "Uninitialized" \/ line.Kind # "symbol" THEN at
  ELSE IF Prefix[line.Name] # "none" THEN Prefix[line.Name]
  ELSE CASE at = "SeHandler" -> "Function"
         [] at = "Crt" -> "Variable"
         [] OTHER -> at

\* What a symbol is, by the part of the file it is in; "Max" where the code
\* asserts that there is no such symbol.
SymbolType(at, line) ==
  CASE line.F /\ at \in {"Function", "VarbssInit"} -> "Function"
    [] line.F /\ at = "StaticFunction" -> "StaticFunction"
    [] at \in {"Variable", "Crt"} -> "GlobalVariable"
    [] OTHER -> "Max"

ParseLine(parsed, line) ==
  LET at == NextParseState(parsed.At, line)
      type == SymbolType(at, line)
  IN [At |-> at,
      Entries |->
        IF line.Kind = "symbol" /\ at \notin {"Uninitialized", "SeHandler"}
           /\ type # "Max"
        THEN Append(parsed.Entries,
                    [Name |-> line.Name, Rva |-> line.Address % LinkBase,
                     Type |-> type, ObjName |-> line.Obj])
        ELSE parsed.Entries]

\* What has been read after each line.
ParsedLines(file) ==
  LET parsed[n \in 0..Len(Lines[file])] ==
        IF n = 0 THEN [At |-> "Uninitialized", Entries |-> <<>>]
        ELSE ParseLine(parsed[n - 1], Lines[file][n])
  IN parsed

EdbLoadSymbolEntryByIec(file) == ParsedLines(file)[Len(Lines[file])].Entries

-----------------------------------------------------------------------------
(* The table.                                                              *)

ZeroEntry == [Name |-> NULL, Rva |-> 0, Type |-> "Function",
              ObjName |-> NULL, CodBuffer |-> NULL]
ZeroObject(arrays) ==
  [Name |-> NULL, EntryCount |-> 0, BaseAddress |-> 0, Arrays |-> arrays]

EmptyTable ==
  [ObjectCount |-> 0, Object |-> [i \in Slots |-> ZeroObject(i)],
   Entry |-> [i \in Slots |-> [e \in EntrySlots |-> ZeroEntry]],
   SourceBuffer |-> [i \in Slots |-> <<>>],
   Pool |-> [b \in Buffers |-> NULL]]

Indices(s) == 0..s.ObjectCount - 1
EntryOf(s, i, e) == s.Entry[s.Object[i].Arrays][e]
Entries(s, i) == 0..s.Object[i].EntryCount - 1

EdbFindSymbolFile(s, file) == {i \in Indices(s) : s.Object[i].Name = file}
IsLoaded(s, file) == EdbFindSymbolFile(s, file) # {}
IndexOf(s, file) ==
  CHOOSE i \in EdbFindSymbolFile(s, file) :
    \A j \in EdbFindSymbolFile(s, file) : i <= j

FreeSources(s, list) ==
  [b \in Buffers |-> IF b \in ToSet(list) THEN NULL ELSE s.Pool[b]]

\* The objects after index move down.  The arrays that are emptied, and kept
\* for the next file, are those of the first object, whichever is removed.
EdbUnloadSymbol(s, file) ==
  LET index == IndexOf(s, file)
      last == s.ObjectCount - 1
      old == s.Object[0]
  IN IF ~IsLoaded(s, file) THEN s ELSE
     [s EXCEPT
        !.ObjectCount = last,
        !.Object = [i \in Slots |->
           IF i = last THEN ZeroObject(old.Arrays)
           ELSE IF i \in index..last - 1 THEN s.Object[i + 1]
           ELSE s.Object[i]],
        !.Entry[old.Arrays] = [e \in EntrySlots |->
           IF e < old.EntryCount THEN ZeroEntry ELSE @[e]],
        !.SourceBuffer[old.Arrays] = <<>>,
        !.Pool = FreeSources(s, s.SourceBuffer[old.Arrays])]

\* Mutant: the dropped entries are counted.
FillObjectCounted(s, file) ==
  [s EXCEPT
     !.ObjectCount = @ + 1,
     !.Object[s.ObjectCount] =
        [@ EXCEPT !.Name = file,
                  !.EntryCount = Len(EdbLoadSymbolEntryByIec(file))]]

\* What the last unfilled slot holds of an earlier file is overwritten, the
\* pointers to code excepted; entries beyond MaxEntries are dropped.
FillObject(s, file) ==
  LET entries == EdbLoadSymbolEntryByIec(file)
      count == IF Len(entries) < MaxEntries THEN Len(entries) ELSE MaxEntries
      arrays == s.Object[s.ObjectCount].Arrays
  IN [s EXCEPT
        !.ObjectCount = @ + 1,
        !.Object[s.ObjectCount] =
           [ZeroObject(arrays) EXCEPT !.Name = file, !.EntryCount = count],
        !.Entry[arrays] = [e \in EntrySlots |->
           IF e < count
           THEN [Name |-> entries[e + 1].Name, Rva |-> entries[e + 1].Rva,
                 Type |-> entries[e + 1].Type,
                 ObjName |-> entries[e + 1].ObjName,
                 CodBuffer |-> @[e].CodBuffer]
           ELSE @[e]]]

EdbLoadSymbol(s, file) ==
  LET t == EdbUnloadSymbol(s, file)
  IN IF t.ObjectCount >= MaxObjects THEN t ELSE FillObject(t, file)

EdbPatchSymbolRVA(s, file, base) ==
  IF base = 0 \/ ~IsLoaded(s, file) THEN s
  ELSE [s EXCEPT !.Object[IndexOf(s, file)].BaseAddress = base]

\* Mutant: QUIT only resets the count, as a new session does.
EdbClearSymbolCount(s) == [s EXCEPT !.ObjectCount = 0]

EdbClearSymbol(s) ==
  LET cleared == {s.Object[i].Arrays : i \in Indices(s)}
      \* entries of an array are zeroed up to the count of its object
      Count(a) == CHOOSE n \in 0..MaxEntries :
        /\ \E i \in Indices(s) :
             s.Object[i].Arrays = a /\ s.Object[i].EntryCount = n
        /\ \A i \in Indices(s) :
             s.Object[i].Arrays = a => s.Object[i].EntryCount <= n
  IN [s EXCEPT
        !.ObjectCount = 0,
        !.Object = [i \in Slots |->
           IF i \in Indices(s) THEN ZeroObject(s.Object[i].Arrays)
           ELSE s.Object[i]],
        !.Entry = [a \in Slots |->
           IF a \notin cleared THEN s.Entry[a] ELSE
           [e \in EntrySlots |->
              IF e < Count(a) THEN ZeroEntry ELSE s.Entry[a][e]]],
        !.SourceBuffer = [a \in Slots |->
           IF a \in cleared THEN <<>> ELSE s.SourceBuffer[a]],
        !.Pool = [b \in Buffers |->
           IF \E a \in cleared : b \in ToSet(s.SourceBuffer[a])
           THEN NULL ELSE s.Pool[b]]]

-----------------------------------------------------------------------------
(* The code of functions.                                                  *)

\* The entries of an object that a .cod file may have the code of.
CodeEntries(s, i, cod) ==
  {e \in Entries(s, i) :
     /\ EntryOf(s, i, e).Type \in {"Function", "StaticFunction"}
     /\ EntryOf(s, i, e).ObjName = cod
     /\ Prefix[EntryOf(s, i, e).Name] # "VarbssInit"}

\* The buffer of the first of them that has any code, if one does.
EdbFindCodeFromObject(s, i, cod) ==
  LET found == {e \in CodeEntries(s, i, cod) :
                  EntryOf(s, i, e).CodBuffer # NULL}
  IN IF found = {} THEN NULL
     ELSE EntryOf(s, i, CHOOSE e \in found : \A d \in found : e <= d).CodBuffer

\* Gives these entries the place of their code, by the name of the function.
SetCode(s, i, cod, code) ==
  [s EXCEPT !.Entry[s.Object[i].Arrays] =
     [e \in EntrySlots |->
        IF e \in CodeEntries(s, i, cod)
        THEN [@[e] EXCEPT !.CodBuffer = code[EntryOf(s, i, e).Name]]
        ELSE @[e]]]

EdbUnloadCode(s, i, cod) == SetCode(s, i, cod, [name \in Names |-> NULL])

\* Mutant: the buffer is freed and stays in the list.
EdbDeleteCodeBufferListed(s, i, buffer) == [s EXCEPT !.Pool[buffer] = NULL]

EdbDeleteCodeBuffer(s, i, buffer) ==
  LET arrays == s.Object[i].Arrays
      list == s.SourceBuffer[arrays]
  IN IF buffer \notin ToSet(list) THEN s
     ELSE [s EXCEPT
             !.SourceBuffer[arrays] = RemoveFirst(list, buffer),
             !.Pool[buffer] = NULL]

\* Mutant: the functions still point to the text that is freed.
DropCodePointing(s, i, cod) ==
  LET buffer == EdbFindCodeFromObject(s, i, cod)
  IN IF buffer = NULL THEN s ELSE EdbDeleteCodeBuffer(s, i, buffer)

\* Removes the code that the object has of this file, as LoadCode does before
\* it loads it again, and as the command to unload code does.
DropCode(s, i, cod) ==
  LET buffer == EdbFindCodeFromObject(s, i, cod)
  IN IF buffer = NULL THEN s
     ELSE EdbDeleteCodeBuffer(EdbUnloadCode(s, i, cod), i, buffer)

\* Where the code of a function is in the text, if it has any.
EdbLoadCodBySymbol(name, cod, buffer) ==
  IF name \in Functions[cod] THEN buffer ELSE NULL

EdbLoadCode(s, i, cod, buffer) ==
  SetCode(DropCode(s, i, cod), i, cod,
          [name \in Names |-> EdbLoadCodBySymbol(name, cod, buffer)])

EdbAddCodeBuffer(s, i, cod, buffer) ==
  [s EXCEPT !.SourceBuffer[s.Object[i].Arrays] = Append(@, buffer),
            !.Pool[buffer] = cod]

FreeBuffers(s) == {b \in Buffers : s.Pool[b] = NULL}
ReadFileToBuffer(s) == CHOOSE b \in FreeBuffers(s) : TRUE

\* Reads the file into a new buffer, which is freed again if the map file is
\* not loaded.
LoadCodFile(s, file, cod) ==
  IF ~IsLoaded(s, file) THEN s
  ELSE LET buffer == ReadFileToBuffer(s)
           i == IndexOf(s, file)
       IN EdbAddCodeBuffer(EdbLoadCode(s, i, cod, buffer), i, cod, buffer)

UnloadCodFile(s, file, cod) ==
  IF ~IsLoaded(s, file) THEN s ELSE DropCode(s, IndexOf(s, file), cod)

-----------------------------------------------------------------------------
(* The commands.  One that walks through the directory takes a step for     *)
(* each .cod file; no other command and no session begins before it ends.   *)

Idle == [Op |-> "idle"]
Walk(op, file) ==
  IF op = "load" /\ Directory = <<>> THEN Idle
  ELSE [Op |-> op, File |-> file, Next |-> 1]
NextFile(c) ==
  IF c.Op = "load" /\ c.Next = Len(Directory) THEN Idle
  ELSE [c EXCEPT !.Next = @ + 1]

WithCode(file, cods) ==
  IF file \in DOMAIN loaded THEN [loaded EXCEPT ![file].Code = cods] ELSE loaded
Forget(file) == [f \in DOMAIN loaded \ {file} |-> loaded[f]]

\* The first file, or one that is not loaded.
UnloadsInPlace(file) == IsLoaded(sym, file) => IndexOf(sym, file) = 0

\* LOADSYMBOL, with the code of the directory or without.  A table that is
\* full is left alone.
DebuggerLoadSymbol(file, withCode, base) ==
  LET t == EdbLoadSymbol(sym, file)
  IN /\ command = Idle
     /\ sym' = EdbPatchSymbolRVA(t, file, base)
     /\ IF IsLoaded(t, file)
        THEN /\ loaded' = [f \in DOMAIN loaded \cup {file} |->
                  IF f = file THEN [Base |-> base, Code |-> {}] ELSE loaded[f]]
             /\ command' = IF withCode THEN Walk("load", file) ELSE Idle
        ELSE UNCHANGED <<loaded, command>>
     /\ intact' = (intact /\ UnloadsInPlace(file))

\* One .cod file of the directory: a read that fails is passed over.
LoadNextCod ==
  LET cod == Directory[command.Next]
  IN /\ command.Op = "load"
     /\ \/ UNCHANGED <<sym, loaded>>
        \/ /\ FreeBuffers(sym) # {}
           /\ sym' = LoadCodFile(sym, command.File, cod)
           /\ loaded' = WithCode(command.File, loaded[command.File].Code \cup {cod})
     /\ command' = NextFile(command)
     /\ UNCHANGED intact

\* UNLOADSYMBOL: the code first, file by file, then the symbols.
DebuggerUnloadSymbol(file) ==
  /\ command = Idle
  /\ IsLoaded(sym, file)
  /\ command' = Walk("unload", file)
  /\ UNCHANGED <<sym, loaded, intact>>

UnloadNextCod ==
  /\ command.Op = "unload" /\ command.Next <= Len(Directory)
  /\ sym' = UnloadCodFile(sym, command.File, Directory[command.Next])
  /\ loaded' = WithCode(command.File,
                        loaded[command.File].Code \ {Directory[command.Next]})
  /\ command' = NextFile(command)
  /\ UNCHANGED intact

FinishUnload ==
  /\ command.Op = "unload" /\ command.Next > Len(Directory)
  /\ sym' = EdbUnloadSymbol(sym, command.File)
  /\ loaded' = Forget(command.File)
  /\ command' = Idle
  /\ intact' = (intact /\ UnloadsInPlace(command.File))

\* LOADCODE and UNLOADCODE.
DebuggerLoadCode(file, cod) ==
  /\ command = Idle
  /\ FreeBuffers(sym) # {}
  /\ IsLoaded(sym, file)
  /\ sym' = LoadCodFile(sym, file, cod)
  /\ loaded' = WithCode(file, loaded[file].Code \cup {cod})
  /\ UNCHANGED <<command, intact>>

DebuggerUnloadCode(file, cod) ==
  /\ command = Idle
  /\ IsLoaded(sym, file)
  /\ sym' = UnloadCodFile(sym, file, cod)
  /\ loaded' = WithCode(file, loaded[file].Code \ {cod})
  /\ UNCHANGED <<command, intact>>

\* The program goes on, and the next exception begins a session.  Of what is
\* loaded it forgets that it is.
BeginSession ==
  /\ command = Idle
  /\ sym' = [sym EXCEPT !.ObjectCount = 0]
  /\ loaded' = <<>>
  /\ intact' = (intact /\ sym.ObjectCount = 0)
  /\ UNCHANGED command

\* QUIT.
Quit ==
  /\ command = Idle
  /\ sym' = EdbClearSymbol(sym)
  /\ loaded' = <<>>
  /\ UNCHANGED <<command, intact>>

Init ==
  /\ sym = EmptyTable
  /\ command = Idle
  /\ loaded = <<>>
  /\ intact = TRUE

Next ==
  \/ \E file \in MapFiles, withCode \in BOOLEAN : \E base \in Bases[file] :
       DebuggerLoadSymbol(file, withCode, base)
  \/ LoadNextCod
  \/ \E file \in MapFiles : DebuggerUnloadSymbol(file)
  \/ UnloadNextCod
  \/ FinishUnload
  \/ \E file \in MapFiles, cod \in CodFiles :
       DebuggerLoadCode(file, cod) \/ DebuggerUnloadCode(file, cod)
  \/ BeginSession
  \/ Quit

Spec == Init /\ [][Next]_vars

-----------------------------------------------------------------------------
(* Looking up.                                                             *)

\* Addresses are added as UINTN.
AddressOf(s, i, e) ==
  (EntryOf(s, i, e).Rva + s.Object[i].BaseAddress) % (MaxAddress + 1)

\* All symbols, in the order of the table.
Symbols(s) == {p \in Indices(s) \X EntrySlots : p[2] \in Entries(s, p[1])}
Addresses(s) == {AddressOf(s, p[1], p[2]) : p \in Symbols(s)}

Greatest(S) == CHOOSE x \in S : \A y \in S : y <= x
Least(S) == CHOOSE x \in S : \A y \in S : x <= y

\* Mutant: whether the one below or the one above is nearer is mixed up.
EbdFindSymbolAddressFarther(addresses, address, type) ==
  LET lower == Greatest({0} \cup {a \in addresses : a < address})
      upper == Least({MaxAddress} \cup {a \in addresses : a > address})
      below == address - lower
      above == upper - address
  IN IF address \in addresses THEN address
     ELSE IF below < Delta
             /\ (type = "lower" \/ (type = "nearest" /\ above < below))
     THEN lower
     ELSE IF above < Delta
             /\ (type = "upper" \/ (type = "nearest" /\ above > below))
     THEN upper
     ELSE 0

\* The address of the symbol found: 0, or MaxAddress, for none.
EbdFindSymbolAddress(addresses, address, type) ==
  LET lower == Greatest({0} \cup {a \in addresses : a < address})
      upper == Least({MaxAddress} \cup {a \in addresses : a > address})
      below == address - lower
      above == upper - address
  IN IF address \in addresses THEN address
     ELSE IF below < Delta
             /\ (type = "lower" \/ (type = "nearest" /\ above > below))
     THEN lower
     ELSE IF above < Delta
             /\ (type = "upper" \/ (type = "nearest" /\ above < below))
     THEN upper
     ELSE 0

\* Mutant: a second symbol of the name is not noticed.
SymboltoiFirst(s, name) ==
  LET found == {p \in Symbols(s) : /\ EntryOf(s, p[1], p[2]).Name = name
                                   /\ AddressOf(s, p[1], p[2]) # 0}
  IN IF found = {} THEN 0
     ELSE LET p == CHOOSE p \in found : \A q \in found : p[1] <= q[1]
          IN AddressOf(s, p[1], p[2])

\* The address of the only symbol of this name, 0 if there is none or if
\* another one follows it.
Symboltoi(s, name) ==
  LET found == {p \in Symbols(s) : EntryOf(s, p[1], p[2]).Name = name}
      nonzero == {p \in found : AddressOf(s, p[1], p[2]) # 0}
      Before(p, q) == p[1] < q[1] \/ (p[1] = q[1] /\ p[2] < q[2])
  IN IF \E p \in nonzero, q \in found : Before(p, q) THEN 0
     ELSE IF nonzero = {} THEN 0
     ELSE LET p == CHOOSE p \in nonzero : TRUE IN AddressOf(s, p[1], p[2])

-----------------------------------------------------------------------------
(* Properties.                                                             *)

EntryRecord ==
  [Name : Names \cup {NULL}, Rva : 0..LinkBase - 1, Type : SymbolTypes,
   ObjName : CodFiles \cup {NULL}, CodBuffer : Buffers \cup {NULL}]
ObjectRecord ==
  [Name : MapFiles \cup {NULL}, EntryCount : 0..MaxEntries,
   BaseAddress : Nat, Arrays : Slots]

SymbolContext ==
  [ObjectCount : 0..MaxObjects, Object : [Slots -> ObjectRecord],
   Entry : [Slots -> [EntrySlots -> EntryRecord]],
   SourceBuffer : [Slots -> Seq(Buffers)],
   Pool : [Buffers -> CodFiles \cup {NULL}]]

\* The table stays within the arrays that were allocated for it.
TypeOK ==
  /\ sym \in SymbolContext
  /\ \/ command = Idle
     \/ command \in [Op : {"load"}, File : MapFiles, Next : 1..Len(Directory)]
     \/ command \in [Op : {"unload"}, File : MapFiles,
                     Next : 1..Len(Directory) + 1]
  /\ DOMAIN loaded \subseteq MapFiles
  /\ \A file \in DOMAIN loaded :
       loaded[file] \in [Base : Bases[file], Code : SUBSET CodFiles]
  /\ intact \in BOOLEAN

\* What the linker says of the symbols of a map file: those before the static
\* symbols that are code are functions, what is not code is a variable.
LinkedSymbol(lines, n) ==
  [Name |-> lines[n].Name, Rva |-> lines[n].Address % LinkBase,
   Type |-> IF ~lines[n].F THEN "GlobalVariable"
            ELSE IF \E m \in 1..n : lines[m].Kind = "Static"
            THEN "StaticFunction" ELSE "Function",
   ObjName |-> lines[n].Obj]
LinkedSymbols(file) ==
  LET lines == Lines[file]
      linked[n \in 0..Len(lines)] ==
        IF n = 0 THEN <<>>
        ELSE IF /\ lines[n].Kind = "symbol"
                /\ Prefix[lines[n].Name] # "SeHandler"
        THEN Append(linked[n - 1], LinkedSymbol(lines, n))
        ELSE linked[n - 1]
  IN linked[Len(lines)]

\* The file whose text an entry points to, "dangling" if it is none that the
\* object has in its list.
CodeText(i, e) ==
  LET buffer == EntryOf(sym, i, e).CodBuffer
  IN IF buffer = NULL THEN NULL
     ELSE IF buffer \in ToSet(sym.SourceBuffer[sym.Object[i].Arrays])
     THEN sym.Pool[buffer] ELSE "dangling"

\* A symbol has code if the .cod file of its object was loaded and has it.
HasCode(symbol, cods) ==
  /\ symbol.ObjName \in cods
  /\ symbol.Type # "GlobalVariable"
  /\ Prefix[symbol.Name] # "VarbssInit"
  /\ symbol.Name \in Functions[symbol.ObjName]

ObjectAsLoaded(i) ==
  LET object == sym.Object[i]
      linked == LinkedSymbols(object.Name)
  IN /\ object.BaseAddress = loaded[object.Name].Base
     /\ object.EntryCount =
          IF Len(linked) < MaxEntries THEN Len(linked) ELSE MaxEntries
     /\ \A e \in Entries(sym, i) :
          LET symbol == linked[e + 1]
          IN /\ EntryOf(sym, i, e) =
                  [Name |-> symbol.Name, Rva |-> symbol.Rva,
                   Type |-> symbol.Type, ObjName |-> symbol.ObjName,
                   CodBuffer |-> EntryOf(sym, i, e).CodBuffer]
             /\ CodeText(i, e) =
                  IF HasCode(symbol, loaded[object.Name].Code)
                  THEN symbol.ObjName ELSE NULL

\* At the prompt the table has the files that are loaded, each once, with the
\* symbols the linker wrote, at the base of the image, and with the code of
\* the .cod files last loaded: over loads, loads again, unloads, full tables
\* and unreadable files, as long as only the first file is taken out.
TableAsLoaded ==
  intact /\ command = Idle =>
    /\ DOMAIN loaded = {sym.Object[i].Name : i \in Indices(sym)}
    /\ sym.ObjectCount = Cardinality(DOMAIN loaded)
    /\ \A i \in Indices(sym) : ObjectAsLoaded(i)

\* A source buffer is in one list, once, as long as it is allocated, whatever
\* has been loaded, loaded again and unloaded, by commands and by QUIT: none is
\* freed twice.
SourcesListedOnce ==
  \A a \in Slots :
    LET list == sym.SourceBuffer[a]
    IN \A m \in 1..Len(list) :
         /\ sym.Pool[list[m]] # NULL
         /\ \A b \in Slots : \A n \in 1..Len(sym.SourceBuffer[b]) :
              sym.SourceBuffer[b][n] = list[m] => <<a, m>> = <<b, n>>

\* Every allocated source buffer can still be freed: it is in the list of an
\* object of the table, and no two objects share their arrays.
NoSourceLost ==
  intact =>
    /\ \A b \in Buffers : sym.Pool[b] # NULL =>
         \E i \in Indices(sym) :
           b \in ToSet(sym.SourceBuffer[sym.Object[i].Arrays])
    /\ \A i, j \in Slots : sym.Object[i].Arrays = sym.Object[j].Arrays => i = j

\* An address given for a name without a file is that of the one symbol in
\* all loaded files that has the name, so that a breakpoint at a symbol is
\* never set at another of the same name; symbols at address 0, which are not
\* noticed, excepted.
SymbolUnique ==
  \A name \in Names :
    LET address == Symboltoi(sym, name)
        found == {p \in Symbols(sym) : EntryOf(sym, p[1], p[2]).Name = name}
    IN /\ \A p \in found :
            found = {p} => address = AddressOf(sym, p[1], p[2])
       /\ address # 0 =>
            \E p \in found :
              /\ address = AddressOf(sym, p[1], p[2])
              /\ \A q \in found \ {p} : AddressOf(sym, q[1], q[2]) = 0

\* The symbol shown for an address is one of the table, none of the kind asked
\* for is nearer, and the one below, whose source is printed, is found
\* whenever it is within Delta.
NearestSymbol ==
  LET addresses == Addresses(sym)
  IN \A address \in 1..MaxAddress - 1, type \in {"lower", "upper", "nearest"} :
    LET found == EbdFindSymbolAddress(addresses, address, type)
        Distance(a) == IF a < address THEN address - a ELSE a - address
        candidates == {a \in addresses \ {0} :
                         CASE type = "lower" -> a <= address
                           [] type = "upper" -> a >= address
                           [] OTHER -> TRUE}
        near == {a \in candidates : Distance(a) < Delta}
    IN /\ found \notin {0, MaxAddress} =>
            /\ found \in candidates
            /\ \A a \in candidates : Distance(found) <= Distance(a)
       /\ type # "nearest" /\ near # {} => found \in near

\* What a loaded file shows to the user.
View(s, file) ==
  LET i == IndexOf(s, file)
  IN <<s.Object[i].BaseAddress,
       [e \in Entries(s, i) |-> EntryOf(s, i, e)]>>

\* Unloading "by name" (EdbUnloadSymbol) takes out the named file: the symbols
\* of the others stay as they are.
UnloadsNamedOnly ==
  [][command.Op = "unload" =>
       \A file \in DOMAIN loaded' \ {command.File} :
         View(sym', file) = View(sym, file)]_vars
=============================================================================

---------------------------- MODULE MCEdbSymbol ----------------------------
(* Three map files as the linker writes them, for a table of two objects.  *)
(* They share names of symbols; A has more than MaxEntries.  The directory  *)
(* has one of the two .cod files; the other one is loaded by name.          *)
EXTENDS EdbSymbol, TLC

MCNames == {"se", "f", "g", "h", "varbss", "Crt", "v"}
MCPrefix == [n \in MCNames |->
  CASE n = "se" -> "SeHandler" [] n = "varbss" -> "VarbssInit"
    [] n = "Crt" -> "Crt" [] OTHER -> "none"]

Of(name, address, f, obj) ==
  [Kind |-> "symbol", Name |-> name, Address |-> address, F |-> f, Obj |-> obj]
Word(kind) == [Kind |-> kind, Name |-> "se", Address |-> 0, F |-> FALSE,
               Obj |-> "a"]

MCLines ==
  "A" :> <<Word("other"), Word("Address"), Of("se", 0, FALSE, "a"),
           Of("f", 17, TRUE, "a"), Of("Crt", 19, FALSE, "a"),
           Of("v", 20, FALSE, "a"), Word("entry"), Word("Static"),
           Of("g", 21, TRUE, "b")>>
  @@ "B" :> <<Word("Address"), Of("se", 0, FALSE, "a"),
              Of("g", 18, TRUE, "a"), Of("varbss", 20, TRUE, "a"),
              Word("Static"), Of("h", 22, TRUE, "b")>>
  @@ "C" :> <<Word("Address"), Of("se", 0, FALSE, "b"), Of("f", 17, TRUE, "b")>>

MCFunctions == "a" :> {"f", "g", "varbss", "v"} @@ "b" :> {"g"}
MCDirectory == <<"a">>
MCBases == "A" :> {8} @@ "B" :> {16} @@ "C" :> {0}
MCSymmetry == Permutations(Buffers)
=============================================================================

------------------------------ MODULE LocalCheck ------------------------------
(***************************************************************************)
(* evaluate.RunLocal: the patched file must parse as Go and must keep the   *)
(* exported functions of the original with their signatures.                *)
(*                                                                         *)
(* A file either does not parse or is a sequence of functions; a parameter  *)
(* or result list is a sequence of fields, each a type with a number of     *)
(* names, as in (a, b int).                                                 *)
(***************************************************************************)
EXTENDS Integers, SequencesExt

Func == [key : STRING, exported : BOOLEAN, tparams : Seq(STRING),
         params : Seq([names : Nat, type : STRING]), results : Seq([names : Nat, type : STRING])]
File == [parses : BOOLEAN, funcs : Seq(Func)]

(* The types of a list, one per name; a field without names is one.         *)
Expand(fields) ==
  FlattenSeq([i \in DOMAIN fields |->
                [n \in 1 .. (IF fields[i].names = 0 THEN 1 ELSE fields[i].names) |-> fields[i].type]])
ByField(fields) == [i \in DOMAIN fields |-> fields[i].type]

-----------------------------------------------------------------------------
(* The text by which two signatures are compared: parameters name by name,  *)
(* results field by field, type parameters not at all.                      *)
renderByField(f) == <<ByField(f.params), ByField(f.results)>>
renderFuncSig(f) == <<Expand(f.params), ByField(f.results)>>

(* The exported functions and methods of a file; of two with one key the    *)
(* map keeps the last.                                                      *)
extractExportedSigs(file) ==
  [k \in {f.key : f \in {g \in Range(file.funcs) : g.exported}} |->
     renderFuncSig(file.funcs[SelectLastInSeq(file.funcs, LAMBDA f : f.exported /\ f.key = k)])]

(* The reasons RunLocal may block a patch for: which of several lost or     *)
(* changed functions it names depends on the order of a map.  None: ALLOW.  *)
RunLocal(orig, patched) ==
  IF ~patched.parses THEN {"parse_error"}
  ELSE IF ~orig.parses THEN {}
  ELSE LET old == extractExportedSigs(orig)
           new == extractExportedSigs(patched)
       IN  {IF k \in DOMAIN new THEN "changed_exported_sig" ELSE "removed_exported_sig" :
              k \in {n \in DOMAIN old : n \in DOMAIN new => old[n] # new[n]}}

-----------------------------------------------------------------------------
(* What the language calls a function's signature.                          *)
Parameters(f) == Expand(f.params)
Signature(f) == <<f.tparams, Expand(f.params), Expand(f.results)>>

(* A file that compiles declares an exported function once.                 *)
DeclaredOnce(file) ==
  \A i, j \in DOMAIN file.funcs :
    /\ file.funcs[i].exported /\ file.funcs[j].exported
    /\ file.funcs[i].key = file.funcs[j].key
    => i = j

KeepsExported(orig, patched, Of(_)) ==
  \A f \in Range(orig.funcs) :
    f.exported => \E g \in Range(patched.funcs) : g.key = f.key /\ Of(g) = Of(f)
=============================================================================

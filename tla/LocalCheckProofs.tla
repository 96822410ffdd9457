--------------------------- MODULE LocalCheckProofs ---------------------------
(* Proofs about LocalCheck for files of any size: what the local check lets *)
(* pass.                                                                    *)
EXTENDS LocalCheck, WellFoundedInduction, TLAPS

(* A set of positions has a last one. *)
LEMMA Greatest ==
  ASSUME NEW n \in Nat, NEW I, I \subseteq 1 .. n, I # {}
  PROVE  Max(I) \in I
<1> DEFINE T == {n - i : i \in I}
<1>1. T \subseteq Nat /\ T # {}
  <2>1. \A i \in I : i \in Nat /\ i =< n
    OBVIOUS
  <2>2. \A i \in I : n - i \in Nat
    BY <2>1
  <2>3. PICK i \in I : TRUE
    OBVIOUS
  <2>4. n - i \in T
    BY <2>3
  <2> QED
    BY <2>2, <2>4
<1>2. PICK d \in T : \A y \in T : ~ (<<y, d>> \in OpToRel(<, Nat))
  BY ONLY <1>1, WFMin, NatLessThanWellFounded
<1>3. \A y \in T : ~ (y < d)
  BY <1>1, <1>2 DEF OpToRel
<1>4. PICK m \in I : d = n - m
  OBVIOUS
<1>5. \A i \in I : m >= i
  BY <1>3, <1>4
<1> QED
  BY <1>5 DEF Max

(* The places of the exported functions with key k. *)
Declares(file, k) == {i \in DOMAIN file.funcs : file.funcs[i].exported /\ file.funcs[i].key = k}

(* extractExportedSigs maps a key to the signature of a function that has it. *)
LEMMA SigOfKey ==
  ASSUME NEW file \in File, NEW k, Declares(file, k) # {}
  PROVE  /\ k \in DOMAIN extractExportedSigs(file)
         /\ \E i \in Declares(file, k) : extractExportedSigs(file)[k] = renderFuncSig(file.funcs[i])
<1>1. file.funcs \in Seq(Func)
  BY DEF File
<1>2. DOMAIN file.funcs = 1 .. Len(file.funcs) /\ Len(file.funcs) \in Nat
  BY <1>1
<1>3. k \in {f.key : f \in {g \in Range(file.funcs) : g.exported}}
  BY DEF Declares, Range
<1> DEFINE last == SelectLastInSeq(file.funcs, LAMBDA f : f.exported /\ f.key = k)
<1>4. last = Max(Declares(file, k))
  BY <1>2 DEF SelectLastInSeq, Declares
<1>5. last \in Declares(file, k)
  BY <1>2, <1>4, Greatest DEF Declares
<1>6. extractExportedSigs(file)[k] = renderFuncSig(file.funcs[last])
  BY <1>3 DEF extractExportedSigs
<1> QED
  BY <1>3, <1>5, <1>6 DEF extractExportedSigs

(* RunLocal, evaluate/local.go:38-93: a patched file it has nothing against *)
(* parses and keeps the exported functions of the original, each with its   *)
(* parameters, however many fields they are declared in.                    *)
THEOREM AllowedKeepsParameters ==
  ASSUME NEW orig \in File, NEW patched \in File, DeclaredOnce(orig),
         RunLocal(orig, patched) = {}
  PROVE  patched.parses /\ (orig.parses => KeepsExported(orig, patched, Parameters))
<1>1. patched.parses
  BY DEF RunLocal
<1>2. ASSUME orig.parses, NEW f \in Range(orig.funcs), f.exported
      PROVE  \E g \in Range(patched.funcs) : g.key = f.key /\ Parameters(g) = Parameters(f)
  <2> DEFINE old == extractExportedSigs(orig)
             new == extractExportedSigs(patched)
             k == f.key
  <2>1. PICK i \in DOMAIN orig.funcs : f = orig.funcs[i]
    BY <1>2 DEF Range
  <2>2. i \in Declares(orig, k)
    BY <1>2, <2>1 DEF Declares
  <2>3. /\ k \in DOMAIN old
        /\ \E j \in Declares(orig, k) : old[k] = renderFuncSig(orig.funcs[j])
    BY <2>2, SigOfKey
  <2>4. \A j \in Declares(orig, k) : j = i
    BY <2>2 DEF DeclaredOnce, Declares
  <2>5. old[k] = renderFuncSig(f)
    BY <2>1, <2>3, <2>4
  <2>6. k \in DOMAIN new /\ new[k] = old[k]
    BY <1>1, <1>2, <2>3 DEF RunLocal
  <2>7. Declares(patched, k) # {}
    BY <2>6 DEF extractExportedSigs, Declares, Range
  <2>8. PICK j \in Declares(patched, k) : new[k] = renderFuncSig(patched.funcs[j])
    BY <2>7, SigOfKey
  <2>9. Expand(patched.funcs[j].params) = Expand(f.params)
    BY <2>5, <2>6, <2>8 DEF renderFuncSig
  <2>10. patched.funcs[j] \in Range(patched.funcs) /\ patched.funcs[j].key = k
    BY <2>8 DEF Declares, Range
  <2> QED
    BY <2>9, <2>10 DEF Parameters
<1> QED
  BY <1>1, <1>2 DEF KeepsExported

-----------------------------------------------------------------------------
(* A field is one type per name.                                            *)
LEMMA ExpandField ==
  ASSUME NEW n \in Nat \ {0}, NEW t
  PROVE  Expand(<<[names |-> n, type |-> t]>>) = [i \in 1 .. n |-> t]
<1> DEFINE fields == <<[names |-> n, type |-> t]>>
           types == [i \in DOMAIN fields |->
                       [k \in 1 .. (IF fields[i].names = 0 THEN 1 ELSE fields[i].names) |-> fields[i].type]]
           Row(f) == f = [i \in 1 .. Len(types) |-> IF i = 1 THEN types[i] ELSE f[i - 1] \o types[i]]
           flatten == CHOOSE f : Row(f)
<1>1. types = <<[i \in 1 .. n |-> t]>>
  OBVIOUS
<1> HIDE DEF types
<1>2. Len(types) = 1 /\ types[1] = [i \in 1 .. n |-> t]
  BY <1>1
<1>3. \E f : Row(f)
  <2>1. Row([i \in 1 .. 1 |-> types[1]])
    BY <1>2
  <2> QED
    BY <2>1
<1>4. Row(flatten)
  BY <1>3
<1>5. flatten[1] = types[1]
  BY <1>2, <1>4
<1>6. FlattenSeq(types) = flatten[Len(types)]
  BY <1>2 DEF FlattenSeq
<1> QED
  BY <1>2, <1>5, <1>6 DEF Expand, types

(* A file with one exported function, called key, which returns one field   *)
(* of n names of a type.                                                    *)
Returning(key, type, n) ==
  [key |-> key, exported |-> TRUE, tparams |-> <<>>, params |-> <<>>,
   results |-> <<[names |-> n, type |-> type]>>]
Sole(key, type, n) == [parses |-> TRUE, funcs |-> <<Returning(key, type, n)>>]

(* What RunLocal compares of such a file. *)
LEMMA SoleFacts ==
  ASSUME NEW key \in STRING, NEW type \in STRING, NEW n \in Nat \ {0}
  PROVE  LET file == Sole(key, type, n)
         IN  /\ file \in File /\ file.parses /\ DeclaredOnce(file)
             /\ Range(file.funcs) = {Returning(key, type, n)}
             /\ DOMAIN extractExportedSigs(file) = {key}
             /\ extractExportedSigs(file)[key] = renderFuncSig(Returning(key, type, n))
<1> DEFINE file == Sole(key, type, n)
           f == Returning(key, type, n)
           FieldType == [names : Nat, type : STRING]
           field == [names |-> n, type |-> type]
<1>1. DOMAIN file.funcs = {1} /\ file.funcs[1] = f /\ file.parses = TRUE
  BY DEF Sole
<1>2. f.exported /\ f.key = key
  BY DEF Returning
<1>3. f \in Func
  <2>1. field \in FieldType
    OBVIOUS
  <2>2. f = [key |-> key, exported |-> TRUE, tparams |-> <<>>, params |-> <<>>, results |-> <<field>>]
    BY DEF Returning
  <2>3. Func = [key : STRING, exported : BOOLEAN, tparams : Seq(STRING),
                params : Seq(FieldType), results : Seq(FieldType)]
    BY DEF Func
  <2> HIDE DEF FieldType, field, f
  <2>4. <<>> \in Seq(STRING) /\ <<>> \in Seq(FieldType) /\ <<field>> \in Seq(FieldType)
    BY <2>1
  <2> QED
    BY <2>2, <2>3, <2>4
<1>4. file \in File
  <2>1. file = [parses |-> TRUE, funcs |-> <<f>>]
    BY DEF Sole
  <2> HIDE DEF f, file
  <2> QED
    BY <1>3, <2>1 DEF File
<1> HIDE DEF file, f
<1>5. Range(file.funcs) = {f}
  BY <1>1 DEF Range
<1>6. Declares(file, key) = {1}
  BY <1>1, <1>2 DEF Declares
<1>7. extractExportedSigs(file)[key] = renderFuncSig(f)
  BY <1>1, <1>4, <1>6, SigOfKey
<1>8. DOMAIN extractExportedSigs(file) = {key}
  <2>1. {h.key : h \in {g \in Range(file.funcs) : g.exported}} = {key}
    BY <1>2, <1>5
  <2> QED
    BY <2>1 DEF extractExportedSigs
<1>9. DeclaredOnce(file)
  BY <1>1 DEF DeclaredOnce
<1> QED
  BY <1>1, <1>4, <1>5, <1>7, <1>8, <1>9 DEF file, f

(* evaluate/local.go:36-37 says that "all exported function signatures in   *)
(* orig must remain unchanged in patched".  They need not: RunLocal has     *)
(* nothing against a patch that changes how many named results of one type  *)
(* an exported function has, as renderFuncSig (local.go:142-149) writes the *)
(* type of a result field once however many names it has.                   *)
THEOREM SignaturesMayChange ==
  ASSUME NEW key \in STRING, NEW type \in STRING, NEW m \in Nat \ {0}, NEW n \in Nat \ {0}, m # n
  PROVE  LET orig == Sole(key, type, m)
             patched == Sole(key, type, n)
         IN  /\ orig \in File /\ orig.parses /\ DeclaredOnce(orig) /\ patched \in File
             /\ RunLocal(orig, patched) = {}
             /\ ~KeepsExported(orig, patched, Signature)
<1> DEFINE orig == Sole(key, type, m)
           patched == Sole(key, type, n)
           f == Returning(key, type, m)
           g == Returning(key, type, n)
<1>1. renderFuncSig(f) = renderFuncSig(g)
  <2>1. ByField(f.results) = <<type>> /\ ByField(g.results) = <<type>>
    BY DEF ByField, Returning
  <2>2. f.params = g.params
    BY DEF Returning
  <2> QED
    BY <2>1, <2>2 DEF renderFuncSig
<1>2. Signature(f) # Signature(g)
  <2>1. f.results = <<[names |-> m, type |-> type]>> /\ g.results = <<[names |-> n, type |-> type]>>
    BY DEF Returning
  <2>2. Expand(f.results) = [i \in 1 .. m |-> type] /\ Expand(g.results) = [i \in 1 .. n |-> type]
    BY <2>1, ExpandField
  <2>3. DOMAIN Expand(f.results) = 1 .. m /\ DOMAIN Expand(g.results) = 1 .. n
    BY <2>2
  <2>4. 1 .. m # 1 .. n
    OBVIOUS
  <2>5. Expand(f.results) # Expand(g.results)
    BY <2>3, <2>4
  <2> QED
    BY <2>5 DEF Signature
<1>3. f.exported /\ f.key = key
  BY DEF Returning
<1> HIDE DEF orig, patched, f, g
<1>4. /\ orig \in File /\ orig.parses /\ DeclaredOnce(orig) /\ Range(orig.funcs) = {f}
      /\ patched \in File /\ patched.parses /\ Range(patched.funcs) = {g}
      /\ DOMAIN extractExportedSigs(orig) = {key} /\ extractExportedSigs(orig)[key] = renderFuncSig(f)
      /\ DOMAIN extractExportedSigs(patched) = {key} /\ extractExportedSigs(patched)[key] = renderFuncSig(g)
  BY SoleFacts DEF orig, patched, f, g
<1>5. RunLocal(orig, patched) = {}
  BY <1>1, <1>4 DEF RunLocal
<1>6. ~KeepsExported(orig, patched, Signature)
  BY <1>2, <1>3, <1>4 DEF KeepsExported
<1> QED
  BY <1>4, <1>5, <1>6 DEF orig, patched
=============================================================================

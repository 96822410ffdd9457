--------------------------- MODULE ChainWalkProofs ---------------------------
(* Proof that VerifyChain lets only an unaltered beginning of the ledger    *)
(* pass, for ledgers of any length and any damage that forges no signature. *)
EXTENDS ChainWalk, TLAPS

(* The writer's clock moves on between two appends. *)
Ticks == \A d \in ClockSteps : d > 0

IsSeq(s) == \E T : s \in Seq(T)

IsDoc(e) ==
  e = [prev |-> e.prev, body |-> e.body, ts |-> e.ts, hash |-> e.hash, sig |-> e.sig]

(* A sequence that grows by one element.                                    *)
LEMMA AppendFacts ==
  ASSUME NEW s, IsSeq(s), NEW e
  PROVE  /\ IsSeq(Append(s, e))
         /\ Len(s) \in Nat
         /\ DOMAIN s = 1 .. Len(s)
         /\ Len(Append(s, e)) = Len(s) + 1
         /\ \A k \in 1 .. Len(s) : Append(s, e)[k] = s[k]
         /\ Append(s, e)[Len(s) + 1] = e
<1>1. PICK T : s \in Seq(T)
  BY DEF IsSeq
<1>2. s \in Seq(T \cup {e})
  BY <1>1
<1>3. Append(s, e) \in Seq(T \cup {e})
  BY <1>2
<1>4. QED
  BY <1>2, <1>3 DEF IsSeq

(* A sequence one of whose elements is replaced.                            *)
LEMMA ExceptFacts ==
  ASSUME NEW s, IsSeq(s), NEW k \in DOMAIN s, NEW e
  PROVE  /\ IsSeq([s EXCEPT ![k] = e])
         /\ Len([s EXCEPT ![k] = e]) = Len(s)
         /\ \A j \in DOMAIN s : [s EXCEPT ![k] = e][j] = IF j = k THEN e ELSE s[j]
<1>1. PICK T : s \in Seq(T)
  BY DEF IsSeq
<1>2. s \in Seq(T \cup {e})
  BY <1>1
<1>3. [s EXCEPT ![k] = e] \in Seq(T \cup {e})
  BY <1>2
<1>4. QED
  BY <1>2, <1>3 DEF IsSeq

-----------------------------------------------------------------------------
(* What the writer wrote is a chain: linked, hashed, ever later.            *)
HonestChain ==
  /\ IsSeq(honest)
  /\ \A k \in 1 .. Len(honest) :
       /\ honest[k].prev = IF k = 1 THEN NoHash ELSE honest[k - 1].hash
       /\ honest[k].hash = ComputeHash(honest[k])
       /\ honest[k].sig = Sign("service", honest[k].hash)
       /\ IsDoc(honest[k])
       /\ honest[k].ts \in Int
  /\ \A j, k \in 1 .. Len(honest) : j < k => honest[j].ts < honest[k].ts

(* No document carries the service's signature of a hash it never signed.   *)
SignedByWriter(e, written) ==
  \E key, h :
    /\ e.sig = Sign(key, h)
    /\ key = "service" => \E j \in 1 .. Len(written) : h = written[j].hash

DocsSigned ==
  /\ IsSeq(docs)
  /\ unread \subseteq 1 .. Len(docs)
  /\ \A k \in 1 .. Len(docs) : IsDoc(docs[k]) /\ SignedByWriter(docs[k], honest)

(* The cursor stands behind entries that are the writer's.                  *)
WalkedHashes ==
  /\ IsSeq(walked)
  /\ WalkedIsWritten
  /\ \A k \in 1 .. Len(walked) : walked[k].hash = honest[k].hash

WalkInv == HonestChain /\ DocsSigned /\ WalkedHashes

(* What audit.Chain builds: a document that hashes and verifies.            *)
LEMMA ChainFacts ==
  ASSUME NEW key, NEW p, NEW b, NEW t
  PROVE  LET e == Chain(key, p, b, t)
         IN  /\ IsDoc(e)
             /\ e.prev = p /\ e.body = b /\ e.ts = t
             /\ e.hash = ComputeHash(e)
             /\ e.sig = Sign(key, e.hash)
BY DEF Chain, ComputeHash, IsDoc

(* An entry that passes Verify is the next one the writer wrote.            *)
LEMMA VerifiedIsNext ==
  ASSUME WalkInv, NEW k \in 1 .. Len(docs), Verify(docs[k], PrevHash) = "ok"
  PROVE  /\ Len(walked) + 1 =< Len(honest)
         /\ Covered(docs[k]) = Covered(honest[Len(walked) + 1])
         /\ docs[k].hash = honest[Len(walked) + 1].hash
<1> DEFINE e == docs[k]
<1> DEFINE n == Len(walked)
<1>1. e.prev = PrevHash /\ ComputeHash(e) = e.hash /\ e.sig = Sign("service", e.hash)
  BY DEF Verify
<1>2. PICK j \in 1 .. Len(honest) : e.hash = honest[j].hash
  <2>1. PICK key, h :
          /\ e.sig = Sign(key, h)
          /\ key = "service" => \E j \in 1 .. Len(honest) : h = honest[j].hash
    BY DEF WalkInv, DocsSigned, SignedByWriter
  <2>2. key = "service" /\ h = e.hash
    BY <1>1, <2>1 DEF Sign
  <2>3. QED
    BY <2>1, <2>2
<1>3. e.prev = honest[j].prev /\ e.body = honest[j].body /\ e.ts = honest[j].ts
  BY <1>1, <1>2 DEF WalkInv, HonestChain, ComputeHash
<1>4. n \in Nat /\ Len(honest) \in Nat /\ n =< Len(honest) /\ DOMAIN walked = 1 .. n
  BY AppendFacts DEF WalkInv, HonestChain, WalkedHashes, WalkedIsWritten
<1>5. j = n + 1
  <2>1. CASE n = 0
    <3>1. honest[j].prev = NoHash
      BY <1>1, <1>3, <1>4, <2>1 DEF PrevHash, WalkInv, WalkedHashes, IsSeq
    <3>2. ASSUME j # 1 PROVE FALSE
      <4>1. j - 1 \in 1 .. Len(honest) /\ honest[j].prev = honest[j - 1].hash
        BY <3>2, <1>4 DEF WalkInv, HonestChain
      <4>2. honest[j - 1].hash = ComputeHash(honest[j - 1])
        BY <4>1 DEF WalkInv, HonestChain
      <4>3. ComputeHash(honest[j - 1]) # NoHash
        BY DEF ComputeHash, NoHash
      <4>4. QED
        BY <3>1, <4>1, <4>2, <4>3
    <3>3. QED
      BY <2>1, <3>2
  <2>2. CASE n # 0
    <3>1. honest[j].prev = honest[n].hash /\ n \in 1 .. Len(honest)
      BY <1>1, <1>3, <1>4, <2>2 DEF PrevHash, WalkInv, WalkedHashes
    <3>2. honest[n].hash = ComputeHash(honest[n]) /\ ComputeHash(honest[n]) # NoHash
      BY <3>1 DEF WalkInv, HonestChain, ComputeHash, NoHash
    <3>3. j # 1
      BY <3>1, <3>2 DEF WalkInv, HonestChain
    <3>4. j - 1 \in 1 .. Len(honest) /\ honest[j].prev = honest[j - 1].hash
      BY <3>3, <1>4 DEF WalkInv, HonestChain
    <3>5. honest[j - 1].hash = ComputeHash(honest[j - 1])
      BY <3>4 DEF WalkInv, HonestChain
    <3>6. honest[j - 1].ts = honest[n].ts
      BY <3>1, <3>2, <3>4, <3>5 DEF ComputeHash
    <3>7. j - 1 = n
      <4>1. honest[n].ts \in Int /\ n \in Int /\ j - 1 \in Int
        BY <1>4, <3>1 DEF WalkInv, HonestChain
      <4>2. ~(n < j - 1) /\ ~(j - 1 < n)
        BY <3>1, <3>4, <3>6, <4>1 DEF WalkInv, HonestChain
      <4>3. QED
        BY <4>1, <4>2
    <3>8. QED
      BY <3>7, <1>4
  <2>3. QED
    BY <2>1, <2>2
<1>6. QED
  BY <1>2, <1>3, <1>4, <1>5 DEF Covered

(* The writer keeps its chain, and its signatures stay the only ones.       *)
LEMMA WriteKeeps ==
  ASSUME Ticks, WalkInv, NEW b \in Bodies, NEW d \in ClockSteps, Write(b, d)
  PROVE  WalkInv'
<1> DEFINE e == Chain("service", Tip, b, LastTs + d)
<1> HIDE DEF e
<1> USE DEF WalkInv
<1>1. honest' = Append(honest, e) /\ docs' = Append(docs, e) /\ walked' = walked
  BY DEF Write, e
<1>2. /\ IsDoc(e) /\ e.prev = Tip /\ e.ts = LastTs + d
      /\ e.hash = ComputeHash(e) /\ e.sig = Sign("service", e.hash)
  BY ChainFacts DEF e
<1>3. /\ IsSeq(honest') /\ Len(honest) \in Nat /\ Len(honest') = Len(honest) + 1
      /\ \A k \in 1 .. Len(honest) : honest'[k] = honest[k]
      /\ honest'[Len(honest) + 1] = e
  BY <1>1, AppendFacts DEF HonestChain
<1>4. LastTs \in Int /\ \A k \in 1 .. Len(honest) : honest[k].ts =< LastTs
  <2>1. CASE honest = <<>>
    BY <2>1 DEF LastTs
  <2>2. CASE honest # <<>>
    <3>1. Len(honest) \in 1 .. Len(honest)
      BY <1>3, <2>2 DEF HonestChain, IsSeq
    <3>2. LastTs = honest[Len(honest)].ts
      BY <2>2 DEF LastTs
    <3>3. QED
      BY <1>3, <3>1, <3>2 DEF HonestChain
  <2>3. QED
    BY <2>1, <2>2
<1>5. d \in Int /\ d > 0
  BY StepAssumption DEF Ticks
<1>6. e.ts \in Int /\ \A k \in 1 .. Len(honest) : honest[k].ts < e.ts
  BY <1>2, <1>4, <1>5 DEF HonestChain
<1>7. e.prev = IF Len(honest) + 1 = 1 THEN NoHash ELSE honest[Len(honest)].hash
  BY <1>2, <1>3 DEF Tip, HonestChain, IsSeq
<1>8. HonestChain'
  <2>1. ASSUME NEW k \in 1 .. Len(honest')
        PROVE  /\ honest'[k].prev = IF k = 1 THEN NoHash ELSE honest'[k - 1].hash
               /\ honest'[k].hash = ComputeHash(honest'[k])
               /\ honest'[k].sig = Sign("service", honest'[k].hash)
               /\ IsDoc(honest'[k])
               /\ honest'[k].ts \in Int
    <3>1. CASE k \in 1 .. Len(honest)
      <4>1. k # 1 => k - 1 \in 1 .. Len(honest)
        BY <1>3, <3>1
      <4>2. QED
        BY <1>3, <3>1, <4>1 DEF HonestChain
    <3>2. CASE k = Len(honest) + 1
      <4>1. k # 1 => k - 1 = Len(honest) /\ Len(honest) \in 1 .. Len(honest)
        BY <1>3, <3>2
      <4>2. QED
        BY <1>2, <1>3, <1>6, <1>7, <3>2, <4>1
    <3>3. QED
      BY <1>3, <3>1, <3>2
  <2>2. \A j, k \in 1 .. Len(honest') : j < k => honest'[j].ts < honest'[k].ts
    <3> SUFFICES ASSUME NEW j \in 1 .. Len(honest'), NEW k \in 1 .. Len(honest'), j < k
                 PROVE  honest'[j].ts < honest'[k].ts
      OBVIOUS
    <3>1. j \in 1 .. Len(honest)
      BY <1>3
    <3>2. CASE k \in 1 .. Len(honest)
      BY <1>3, <3>1, <3>2 DEF HonestChain
    <3>3. CASE k = Len(honest) + 1
      BY <1>3, <1>6, <3>1, <3>3
    <3>4. QED
      BY <1>3, <3>2, <3>3
  <2>3. QED
    BY <1>3, <2>1, <2>2 DEF HonestChain
<1>9. ASSUME NEW x, SignedByWriter(x, honest) PROVE SignedByWriter(x, honest')
  BY <1>3, <1>9 DEF SignedByWriter
<1>10. SignedByWriter(e, honest')
  <2>1. Len(honest) + 1 \in 1 .. Len(honest')
    BY <1>3
  <2>2. e.hash = honest'[Len(honest) + 1].hash
    BY <1>3
  <2>3. QED
    BY <1>2, <2>1, <2>2 DEF SignedByWriter
<1>11. DocsSigned'
  <2>1. /\ IsSeq(docs') /\ Len(docs) \in Nat /\ Len(docs') = Len(docs) + 1
        /\ \A k \in 1 .. Len(docs) : docs'[k] = docs[k]
        /\ docs'[Len(docs) + 1] = e
    BY <1>1, AppendFacts DEF DocsSigned
  <2>2. ASSUME NEW k \in 1 .. Len(docs') PROVE IsDoc(docs'[k]) /\ SignedByWriter(docs'[k], honest')
    <3>1. CASE k \in 1 .. Len(docs)
      BY <1>9, <2>1, <3>1 DEF DocsSigned
    <3>2. CASE k = Len(docs) + 1
      BY <1>2, <1>10, <2>1, <3>2
    <3>3. QED
      BY <2>1, <3>1, <3>2
  <2>3. unread' = unread \cup {Len(docs) + 1} /\ unread \subseteq 1 .. Len(docs)
    BY DEF Write, DocsSigned
  <2>4. ASSUME NEW x \in unread' PROVE x \in 1 .. Len(docs')
    <3>1. Len(docs) \in Nat /\ Len(docs') = Len(docs) + 1
      BY <2>1
    <3>2. x \in 1 .. Len(docs) \/ x = Len(docs) + 1
      BY <2>3
    <3>3. CASE x \in 1 .. Len(docs)
      BY ONLY <3>1, <3>3
    <3>4. CASE x = Len(docs) + 1
      BY ONLY <3>1, <3>4
    <3>5. QED
      BY <3>2, <3>3, <3>4
  <2>5. QED
    BY <2>1, <2>2, <2>4 DEF DocsSigned
<1>12. WalkedHashes'
  <2>1. Len(walked) \in Nat /\ DOMAIN walked = 1 .. Len(walked) /\ Len(walked) =< Len(honest)
    BY AppendFacts DEF WalkedHashes, WalkedIsWritten
  <2>2. \A k \in 1 .. Len(walked) : k \in 1 .. Len(honest) /\ honest'[k] = honest[k]
    BY <1>3, <2>1
  <2>3. QED
    BY <1>1, <1>3, <2>1, <2>2 DEF WalkedHashes, WalkedIsWritten, Covered
<1>13. QED
  BY <1>8, <1>11, <1>12

(* Damage forges no signature of the service.                               *)
LEMMA CorruptKeeps ==
  ASSUME WalkInv, NEW k \in DOMAIN docs, Corrupt(k)
  PROVE  WalkInv'
<1> USE DEF WalkInv
<1>0. unread \subseteq 1 .. Len(docs)
  BY DEF DocsSigned
<1>1. honest' = honest /\ walked' = walked
  BY DEF Corrupt
<1>2. /\ IsSeq(docs) /\ Len(docs) \in Nat /\ DOMAIN docs = 1 .. Len(docs)
      /\ \A j \in 1 .. Len(docs) : IsDoc(docs[j]) /\ SignedByWriter(docs[j], honest)
  BY AppendFacts DEF DocsSigned
<1>3. ASSUME NEW e, e.sig = docs[k].sig PROVE SignedByWriter(e, honest)
  <2>1. PICK key, h :
          /\ docs[k].sig = Sign(key, h)
          /\ key = "service" => \E j \in 1 .. Len(honest) : h = honest[j].hash
    BY <1>2 DEF SignedByWriter
  <2>2. QED
    BY <1>3, <2>1 DEF SignedByWriter
<1>4. ASSUME NEW e, NEW h, e.sig = Sign("other", h) PROVE SignedByWriter(e, honest)
  <2>1. "other" # "service"
    OBVIOUS
  <2>2. QED
    BY <1>4, <2>1 DEF SignedByWriter
<1>5. ASSUME NEW e \in Damaged(docs[k]) PROVE IsDoc(e) /\ SignedByWriter(e, honest)
  <2> DEFINE d == docs[k]
  <2>1. d = [prev |-> d.prev, body |-> d.body, ts |-> d.ts, hash |-> d.hash, sig |-> d.sig]
    BY <1>2 DEF IsDoc
  <2>2. ASSUME NEW b, e = Chain("other", d.prev, b, d.ts) PROVE IsDoc(e) /\ SignedByWriter(e, honest)
    BY <1>4, <2>2, ChainFacts
  <2>3. ASSUME NEW v, e = [d EXCEPT !.sig = Sign("other", v)] PROVE IsDoc(e) /\ SignedByWriter(e, honest)
    <3>1. e = [prev |-> d.prev, body |-> d.body, ts |-> d.ts, hash |-> d.hash,
               sig |-> Sign("other", v)]
      BY <2>1, <2>3
    <3>2. QED
      BY <1>4, <3>1 DEF IsDoc
  <2>4. ASSUME NEW v, e = [d EXCEPT !.body = v] PROVE IsDoc(e) /\ SignedByWriter(e, honest)
    <3>1. e = [prev |-> d.prev, body |-> v, ts |-> d.ts, hash |-> d.hash, sig |-> d.sig]
      BY <2>1, <2>4
    <3>2. QED
      BY <1>3, <3>1 DEF IsDoc
  <2>5. ASSUME NEW v, e = [d EXCEPT !.ts = v] PROVE IsDoc(e) /\ SignedByWriter(e, honest)
    <3>1. e = [prev |-> d.prev, body |-> d.body, ts |-> v, hash |-> d.hash, sig |-> d.sig]
      BY <2>1, <2>5
    <3>2. QED
      BY <1>3, <3>1 DEF IsDoc
  <2>6. ASSUME NEW v, e = [d EXCEPT !.prev = v] PROVE IsDoc(e) /\ SignedByWriter(e, honest)
    <3>1. e = [prev |-> v, body |-> d.body, ts |-> d.ts, hash |-> d.hash, sig |-> d.sig]
      BY <2>1, <2>6
    <3>2. QED
      BY <1>3, <3>1 DEF IsDoc
  <2>7. ASSUME NEW v, e = [d EXCEPT !.hash = v] PROVE IsDoc(e) /\ SignedByWriter(e, honest)
    <3>1. e = [prev |-> d.prev, body |-> d.body, ts |-> d.ts, hash |-> v, sig |-> d.sig]
      BY <2>1, <2>7
    <3>2. QED
      BY <1>3, <3>1 DEF IsDoc
  <2>8. \/ \E v : \/ e = [d EXCEPT !.body = v] \/ e = [d EXCEPT !.ts = v]
               \/ e = [d EXCEPT !.prev = v] \/ e = [d EXCEPT !.hash = v]
               \/ e = [d EXCEPT !.sig = Sign("other", v)]
        \/ \E b : e = Chain("other", d.prev, b, d.ts)
    <3> HIDE DEF d
    <3>1. e \in Damaged(d)
      BY <1>5 DEF d
    <3>2. QED
      BY <3>1, Zenon DEF Damaged
  <2> HIDE DEF d
  <2>9. QED
    BY <2>2, <2>3, <2>4, <2>5, <2>6, <2>7, <2>8
<1>6. DocsSigned'
  <2>1. CASE unread' = unread /\ \E e \in Damaged(docs[k]) : docs' = [docs EXCEPT ![k] = e]
    <3>1. PICK e \in Damaged(docs[k]) : docs' = [docs EXCEPT ![k] = e]
      BY <2>1
    <3>2. /\ IsSeq(docs') /\ Len(docs') = Len(docs)
          /\ \A j \in 1 .. Len(docs) : docs'[j] = IF j = k THEN e ELSE docs[j]
      BY <1>2, <3>1, ExceptFacts
    <3>3. \A j \in 1 .. Len(docs) : IsDoc(docs'[j]) /\ SignedByWriter(docs'[j], honest)
      BY <1>2, <1>5, <3>2
    <3>4. unread' \subseteq 1 .. Len(docs')
      BY <1>0, <2>1, <3>2
    <3>5. QED
      BY <1>1, <3>2, <3>3, <3>4 DEF DocsSigned
  <2>2. CASE unread' = unread \ {k} /\ docs' = docs
    BY <1>0, <1>1, <1>2, <2>2 DEF DocsSigned
  <2>3. CASE docs' = Append(docs, docs[k]) /\ unread' = unread \cup {Len(docs) + 1}
    <3>1. /\ IsSeq(docs') /\ Len(docs') = Len(docs) + 1
          /\ \A j \in 1 .. Len(docs) : docs'[j] = docs[j]
          /\ docs'[Len(docs) + 1] = docs[k]
      BY <1>2, <2>3, AppendFacts
    <3>2. \A j \in 1 .. Len(docs') : IsDoc(docs'[j]) /\ SignedByWriter(docs'[j], honest)
      BY <1>2, <3>1
    <3>3. unread' = unread \cup {Len(docs) + 1}
      BY <2>3
    <3>4. ASSUME NEW x \in unread' PROVE x \in 1 .. Len(docs')
      BY <1>0, <1>2, <3>1, <3>3
    <3>5. QED
      BY <1>1, <3>1, <3>2, <3>4 DEF DocsSigned
  <2>4. QED
    BY <2>1, <2>2, <2>3 DEF Corrupt
<1>7. QED
  BY <1>1, <1>6 DEF HonestChain, WalkedHashes, WalkedIsWritten

(* What the cursor accepts extends the beginning it stands behind.          *)
LEMMA VerifyKeeps ==
  ASSUME WalkInv, NEW k \in unread, VerifyNext(k)
  PROVE  WalkInv'
<1>1. /\ honest' = honest /\ docs' = docs /\ unread' = unread \ {k}
      /\ walked' = Append(walked, docs[k]) /\ Verify(docs[k], PrevHash) = "ok"
  BY DEF VerifyNext
<1>2. HonestChain' /\ DocsSigned'
  BY <1>1 DEF WalkInv, HonestChain, DocsSigned
<1>3. k \in 1 .. Len(docs)
  BY DEF WalkInv, DocsSigned
<1>4. /\ Len(walked) + 1 =< Len(honest)
      /\ Covered(docs[k]) = Covered(honest[Len(walked) + 1])
      /\ docs[k].hash = honest[Len(walked) + 1].hash
  BY <1>1, <1>3, VerifiedIsNext
<1>5. /\ IsSeq(walked') /\ Len(walked) \in Nat /\ Len(walked') = Len(walked) + 1
      /\ DOMAIN walked = 1 .. Len(walked)
      /\ \A j \in 1 .. Len(walked) : walked'[j] = walked[j]
      /\ walked'[Len(walked) + 1] = docs[k]
  BY <1>1, AppendFacts DEF WalkInv, WalkedHashes
<1>6. DOMAIN walked' = 1 .. Len(walked')
  BY <1>5, AppendFacts
<1>7. ASSUME NEW j \in 1 .. Len(walked')
      PROVE  Covered(walked'[j]) = Covered(honest[j]) /\ walked'[j].hash = honest[j].hash
  <2>1. CASE j \in 1 .. Len(walked)
    BY <1>5, <2>1 DEF WalkInv, WalkedHashes, WalkedIsWritten
  <2>2. CASE j = Len(walked) + 1
    BY <1>4, <1>5, <2>2
  <2>3. QED
    BY <1>5, <2>1, <2>2
<1>8. WalkedHashes'
  BY <1>1, <1>4, <1>5, <1>6, <1>7 DEF WalkedHashes, WalkedIsWritten
<1>9. QED
  BY <1>2, <1>8 DEF WalkInv

(* Before the first entry there is nothing to keep.                         *)
LEMMA WalkInvInit == Init => WalkInv
<1> SUFFICES ASSUME Init PROVE WalkInv
  OBVIOUS
<1>1. honest = <<>> /\ docs = <<>> /\ walked = <<>> /\ unread = {}
  BY DEF Init
<1>2. <<>> \in Seq({}) /\ Len(<<>>) = 0
  OBVIOUS
<1>3. IsSeq(<<>>)
  BY <1>2 DEF IsSeq
<1>4. QED
  BY <1>1, <1>2, <1>3 DEF WalkInv, HonestChain, DocsSigned, WalkedHashes, WalkedIsWritten

(* Every step of writer, damage and walk keeps the chain and the walk.      *)
LEMMA WalkInvStep ==
  ASSUME Ticks, WalkInv, [Next]_vars
  PROVE  WalkInv'
<1>1. ASSUME NEW b \in Bodies, NEW d \in ClockSteps, Write(b, d) PROVE WalkInv'
  BY <1>1, WriteKeeps
<1>2. ASSUME NEW k \in DOMAIN docs, Corrupt(k) PROVE WalkInv'
  BY <1>2, CorruptKeeps
<1>3. ASSUME NEW k \in unread, VerifyNext(k) PROVE WalkInv'
  BY <1>3, VerifyKeeps
<1>4. ASSUME UNCHANGED <<honest, docs, unread, walked>> PROVE WalkInv'
  BY <1>4 DEF WalkInv, HonestChain, DocsSigned, WalkedHashes, WalkedIsWritten
<1>5. CASE Start
  BY <1>4, <1>5 DEF Start
<1>6. ASSUME NEW k \in unread, RejectNext(k) PROVE WalkInv'
  BY <1>4, <1>6 DEF RejectNext
<1>7. CASE Finish
  BY <1>4, <1>7 DEF Finish
<1>8. CASE UNCHANGED vars
  BY <1>4, <1>8 DEF vars
<1>9. QED
  BY <1>1, <1>2, <1>3, <1>5, <1>6, <1>7, <1>8 DEF Next

(* As long as the clock moves on between two appends, "chain intact" means  *)
(* that what VerifyChain read is an unaltered beginning of what was written.*)
THEOREM VerifiedPrefix ==
  ASSUME Ticks
  PROVE  Spec => []WalkedIsWritten
<1>1. Init => WalkInv
  BY WalkInvInit
<1>2. WalkInv /\ [Next]_vars => WalkInv'
  BY WalkInvStep
<1>3. WalkInv => WalkedIsWritten
  BY DEF WalkInv, WalkedHashes
<1>4. QED
  BY <1>1, <1>2, <1>3, PTL DEF Spec

-----------------------------------------------------------------------------
(* An undamaged ledger is stored as it was written, and the cursor has read *)
(* exactly the entries it walked past.                                      *)
Undamaged ==
  faults = 0 =>
    /\ docs = honest
    /\ unread = (Len(walked) + 1) .. Len(honest)
    /\ walk # "invalid"

AcceptInv == WalkInv /\ Undamaged /\ faults \in Nat

(* Without damage the oldest unread entry is the next one, and it passes.   *)
LEMMA OldestIsNext ==
  ASSUME AcceptInv, faults = 0, NEW k \in unread, Oldest(k)
  PROVE  k = Len(walked) + 1 /\ Verify(docs[k], PrevHash) = "ok"
<1> DEFINE n == Len(walked)
<1>1. /\ docs = honest /\ unread = (n + 1) .. Len(honest)
  BY DEF AcceptInv, Undamaged
<1>2. n \in Nat /\ Len(honest) \in Nat /\ n =< Len(honest) /\ DOMAIN walked = 1 .. n
  BY AppendFacts DEF AcceptInv, WalkInv, HonestChain, WalkedHashes, WalkedIsWritten
<1>3. k \in 1 .. Len(honest) /\ n + 1 \in unread /\ n + 1 \in 1 .. Len(honest)
  BY <1>1, <1>2
<1>4. k = n + 1
  <2>1. docs[k].ts =< docs[n + 1].ts
    BY <1>3 DEF Oldest
  <2>2. ~(n + 1 < k)
    <3> SUFFICES ASSUME n + 1 < k PROVE FALSE
      OBVIOUS
    <3>1. honest[n + 1].ts < honest[k].ts
      BY <1>3 DEF AcceptInv, WalkInv, HonestChain
    <3>2. honest[n + 1].ts \in Int /\ honest[k].ts \in Int
      BY <1>3 DEF AcceptInv, WalkInv, HonestChain
    <3>3. QED
      BY <1>1, <2>1, <3>1, <3>2
  <2>3. QED
    BY <1>1, <1>2, <2>2
<1>5. /\ honest[k].prev = IF k = 1 THEN NoHash ELSE honest[k - 1].hash
      /\ honest[k].hash = ComputeHash(honest[k])
      /\ honest[k].sig = Sign("service", honest[k].hash)
  BY <1>3 DEF AcceptInv, WalkInv, HonestChain
<1>6. PrevHash = honest[k].prev
  <2>1. CASE n = 0
    BY <1>2, <1>4, <1>5, <2>1 DEF PrevHash, AcceptInv, WalkInv, WalkedHashes, IsSeq
  <2>2. CASE n # 0
    <3>1. walked # <<>> /\ n \in 1 .. Len(walked) /\ k - 1 = n /\ k # 1
      BY <1>2, <1>4, <2>2
    <3>2. walked[n].hash = honest[n].hash
      BY <3>1 DEF AcceptInv, WalkInv, WalkedHashes
    <3>3. QED
      BY <1>5, <3>1, <3>2 DEF PrevHash
  <2>3. QED
    BY <2>1, <2>2
<1>7. QED
  BY <1>1, <1>4, <1>5, <1>6 DEF Verify

(* Every step keeps an undamaged ledger undamaged and accepted.             *)
LEMMA AcceptInvStep ==
  ASSUME Ticks, AcceptInv, [Next]_vars
  PROVE  AcceptInv'
<1> DEFINE n == Len(walked)
<1>1. WalkInv'
  BY WalkInvStep DEF AcceptInv
<1>2. faults' \in Nat
  BY DEF AcceptInv, Next, Write, Corrupt, Start, VerifyNext, RejectNext, Finish, vars
<1>3. IsSeq(honest) /\ IsSeq(walked)
  BY DEF AcceptInv, WalkInv, HonestChain, WalkedHashes
<1>4. n \in Nat /\ Len(honest) \in Nat /\ n =< Len(honest)
  BY <1>3, AppendFacts DEF AcceptInv, WalkInv, WalkedHashes, WalkedIsWritten
<1>5. ASSUME NEW b \in Bodies, NEW d \in ClockSteps, Write(b, d) PROVE Undamaged'
  <2> DEFINE e == Chain("service", Tip, b, LastTs + d)
  <2>1. /\ honest' = Append(honest, e) /\ docs' = Append(docs, e)
        /\ unread' = unread \cup {Len(docs) + 1}
        /\ faults' = faults /\ walk' = walk /\ walked' = walked
    BY <1>5 DEF Write
  <2> HIDE DEF e
  <2>2. Len(honest') = Len(honest) + 1
    BY <1>3, <2>1, AppendFacts
  <2>3. faults = 0 => docs = honest /\ unread = (n + 1) .. Len(honest) /\ walk # "invalid"
    BY DEF AcceptInv, Undamaged
  <2>4. faults = 0 => unread' = (n + 1) .. (Len(honest) + 1)
    BY <1>4, <2>1, <2>3
  <2>5. QED
    BY <2>1, <2>2, <2>3, <2>4 DEF Undamaged
<1>6. ASSUME NEW k \in DOMAIN docs, Corrupt(k) PROVE Undamaged'
  BY <1>6 DEF Corrupt, Undamaged, AcceptInv
<1>7. ASSUME Start PROVE Undamaged'
  BY <1>4, <1>7 DEF Start, Undamaged, AcceptInv
<1>8. ASSUME Finish PROVE Undamaged'
  BY <1>4, <1>8 DEF Finish, Undamaged, AcceptInv
<1>9. ASSUME UNCHANGED vars PROVE Undamaged'
  BY <1>4, <1>9 DEF vars, Undamaged, AcceptInv
<1>10. ASSUME NEW k \in unread, RejectNext(k) PROVE Undamaged'
  BY <1>10, OldestIsNext DEF RejectNext, Undamaged
<1>11. ASSUME NEW k \in unread, VerifyNext(k) PROVE Undamaged'
  <2>1. /\ honest' = honest /\ docs' = docs /\ unread' = unread \ {k}
        /\ faults' = faults /\ walk' = walk /\ Oldest(k)
    BY <1>11 DEF VerifyNext
  <2>2. walked' = Append(walked, docs[k])
    BY <1>11 DEF VerifyNext
  <2>3. Len(walked') = n + 1
    BY <1>3, <2>2, AppendFacts
  <2>4. faults = 0 => docs = honest /\ unread = (n + 1) .. Len(honest) /\ walk # "invalid"
    BY DEF AcceptInv, Undamaged
  <2>5. faults = 0 => k = n + 1
    BY <2>1, OldestIsNext
  <2>6. faults = 0 => unread' = (n + 2) .. Len(honest)
    BY <1>4, <2>1, <2>4, <2>5
  <2>7. QED
    BY <1>4, <2>1, <2>3, <2>4, <2>6 DEF Undamaged
<1>12. Undamaged'
  BY <1>5, <1>6, <1>7, <1>8, <1>9, <1>10, <1>11 DEF Next
<1>13. QED
  BY <1>1, <1>2, <1>12 DEF AcceptInv

(* As long as the clock moves on between two appends, a ledger nobody       *)
(* damaged is never reported INVALID, however many entries are appended     *)
(* while the cursor is open.                                                *)
THEOREM HealthyAccepted ==
  ASSUME Ticks
  PROVE  Spec => []UndamagedAccepted
<1>1. Init => AcceptInv
  <2> SUFFICES ASSUME Init PROVE AcceptInv
    OBVIOUS
  <2>1. /\ docs = honest /\ unread = {} /\ walk = "idle" /\ faults = 0
        /\ Len(walked) = 0 /\ Len(honest) = 0
    BY DEF Init
  <2>2. QED
    BY <2>1, WalkInvInit DEF AcceptInv, Undamaged
<1>2. AcceptInv /\ [Next]_vars => AcceptInv'
  BY AcceptInvStep
<1>3. AcceptInv => UndamagedAccepted
  BY DEF AcceptInv, Undamaged, UndamagedAccepted
<1>4. QED
  BY <1>1, <1>2, <1>3, PTL DEF Spec
=============================================================================

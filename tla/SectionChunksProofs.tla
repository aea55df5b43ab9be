------------------------- MODULE SectionChunksProofs -------------------------
(***************************************************************************)
(* Proofs about the sections that are stored in chunks, for every section  *)
(* and every cost of its records. The chunks partition the section, none   *)
(* is estimated over the budget, and the stored rows hold the section with *)
(* the stream starts its streams have. What is read from them is what the  *)
(* whole section answers: the layout is reassembled, every page of every   *)
(* stream is the stream's, and every unit's position is where the stream   *)
(* lists it.                                                               *)
(***************************************************************************)
EXTENDS SectionChunks, StreamLemmas, FiniteSetTheorems

\* How far a list of chunks reaches, in paragraphs and in sentences.
EndParagraph(cs) == IF cs = <<>> THEN 0 ELSE Reached(cs[Len(cs)])
EndSentence(cs) == IF cs = <<>> THEN 0 ELSE cs[Len(cs)].sEnd

\* The range r may follow the chunks cs.
Continues(r, cs) ==
  /\ r.sStart = EndSentence(cs)
  /\ (IF r.mid THEN r.pStart + 1 ELSE r.pStart) = EndParagraph(cs)
  /\ cs = <<>> => ~r.mid

Linked(cs) ==
  /\ \A k \in 2..Len(cs) : Follows(cs[k], cs[k - 1])
  /\ cs # <<>> => cs[1].pStart = 0 /\ cs[1].sStart = 0 /\ ~cs[1].mid

Fits(r) == \A p \in ParagraphCosts : r.est + (IF r.mid THEN p ELSE 0) <= Budget

AllFit(cs) == \A k \in 1..Len(cs) : Fits(cs[k])

\* A chunk added where the others end continues them.
LEMMA LinkedAppend ==
  ASSUME NEW cs \in Seq(RangeSet), NEW r \in RangeSet, Linked(cs), Continues(r, cs)
  PROVE  /\ Linked(Append(cs, r))
         /\ EndParagraph(Append(cs, r)) = Reached(r)
         /\ EndSentence(Append(cs, r)) = r.sEnd
<1> DEFINE ds == Append(cs, r)
<1>1. /\ ds \in Seq(RangeSet) /\ Len(ds) = Len(cs) + 1 /\ ds # <<>> /\ Len(cs) \in Nat
      /\ ds[Len(ds)] = r
      /\ \A k \in 1..Len(cs) : ds[k] = cs[k]
  OBVIOUS
<1>2. EndParagraph(ds) = Reached(r) /\ EndSentence(ds) = r.sEnd
  BY <1>1 DEF EndParagraph, EndSentence
<1>3. ASSUME NEW k \in 2..Len(ds)
      PROVE  Follows(ds[k], ds[k - 1])
  <2>1. CASE k \in 2..Len(cs)
    BY <1>1, <2>1 DEF Linked
  <2>2. CASE k = Len(ds)
    <3>1. cs # <<>> /\ ds[k] = r /\ ds[k - 1] = cs[Len(cs)]
      BY <1>1, <2>2
    <3>2. QED
      BY <3>1 DEF Follows, Continues, EndParagraph, EndSentence
  <2>3. QED
    BY <1>1, <2>1, <2>2
<1>4. ds[1].pStart = 0 /\ ds[1].sStart = 0 /\ ~ds[1].mid
  <2>1. CASE cs = <<>>
    <3>1. ds[1] = r
      BY <1>1, <2>1
    <3>2. QED
      BY <2>1, <3>1 DEF Continues, EndParagraph, EndSentence
  <2>2. CASE cs # <<>>
    <3>1. ds[1] = cs[1]
      BY <1>1, <2>2
    <3>2. QED
      BY <2>2, <3>1 DEF Linked
  <2>3. QED
    BY <2>1, <2>2
<1>5. QED
  BY <1>1, <1>2, <1>3, <1>4 DEF Linked

\* Appending keeps every chunk within the budget when the new one is.
LEMMA FitAppend ==
  ASSUME NEW cs \in Seq(RangeSet), NEW r \in RangeSet, AllFit(cs), Fits(r)
  PROVE  Append(cs, r) \in Seq(RangeSet) /\ AllFit(Append(cs, r))
<1>1. /\ Append(cs, r) \in Seq(RangeSet) /\ Len(Append(cs, r)) = Len(cs) + 1 /\ Len(cs) \in Nat
      /\ Append(cs, r)[Len(cs) + 1] = r
      /\ \A k \in 1..Len(cs) : Append(cs, r)[k] = cs[k]
  OBVIOUS
<1>2. QED
  BY <1>1 DEF AllFit

\* Dropping the estimates moves no chunk.
LEMMA ForgetEstimates ==
  ASSUME NEW cs \in Seq(RangeSet), Linked(cs), cs # <<>>,
         NEW ds, ds = [k \in 1..Len(cs) |-> [cs[k] EXCEPT !.est = 0]]
  PROVE  /\ ds \in Seq(RangeSet) /\ ds # <<>> /\ Len(ds) = Len(cs)
         /\ Linked(ds) /\ AllFit(ds)
         /\ EndParagraph(ds) = EndParagraph(cs)
         /\ EndSentence(ds) = EndSentence(cs)
<1>1. Len(cs) \in Nat /\ Len(cs) > 0
  OBVIOUS
<1>2. \A k \in 1..Len(cs) : cs[k] \in RangeSet
  OBVIOUS
<1>3. \A k \in 1..Len(cs) :
        /\ ds[k] \in RangeSet /\ ds[k].est = 0
        /\ ds[k].mid = cs[k].mid /\ ds[k].pStart = cs[k].pStart /\ ds[k].pEnd = cs[k].pEnd
        /\ ds[k].sStart = cs[k].sStart /\ ds[k].sEnd = cs[k].sEnd
  BY <1>2 DEF RangeSet
<1>4. Len(ds) = Len(cs) /\ ds \in Seq(RangeSet) /\ ds # <<>>
  BY <1>1, <1>3
<1>5. Linked(ds)
  BY <1>1, <1>3, <1>4 DEF Linked, Follows, Reached
<1>6. ASSUME NEW k \in 1..Len(ds)
      PROVE  Fits(ds[k])
  <2>1. ds[k].est = 0 /\ ds[k].mid \in BOOLEAN
    BY <1>3, <1>4 DEF RangeSet
  <2>2. \A p \in ParagraphCosts : p \in Nat /\ p <= Budget
    BY CostAssumption, RoomAssumption
  <2>3. Budget \in Nat
    BY CostAssumption
  <2>4. QED
    BY <2>1, <2>2, <2>3 DEF Fits
<1>7. EndParagraph(ds) = EndParagraph(cs) /\ EndSentence(ds) = EndSentence(cs)
  BY <1>1, <1>3, <1>4 DEF EndParagraph, EndSentence, Reached
<1>8. QED
  BY <1>4, <1>5, <1>6, <1>7 DEF AllFit

-----------------------------------------------------------------------------
(* The inductive invariant *)

Shape ==
  /\ section \in Sections /\ section \in Seq(Nat)
  /\ at \in 0..Len(section)
  /\ done \in Nat /\ (at > 0 => done <= section[at])
  /\ cursor \in Nat
  /\ chunks \in Seq(RangeSet)
  /\ Linked(chunks) /\ AllFit(chunks)

\* The pending range starts where the chunks end and ends where the loop is.
Pending(r) ==
  /\ open = <<r>>
  /\ Continues(r, chunks)
  /\ Reached(r) = at /\ r.sEnd = cursor
  /\ Fits(r)
  /\ r.mid => r.est + TailRoom <= Budget

Cutting ==
  /\ at = 0 => open = <<>> /\ chunks = <<>>
  /\ \/ open = <<>> /\ EndParagraph(chunks) = at /\ EndSentence(chunks) = cursor
     \/ \E r \in RangeSet : Pending(r)

Cut ==
  /\ open = <<>> /\ chunks # <<>>
  /\ Len(rows) = Len(chunks)
  /\ EndParagraph(chunks) = Len(section) /\ EndSentence(chunks) = cursor

CutInv == Shape /\ IF rows = <<>> THEN Cutting ELSE Cut

LEMMA InitCut == Init => CutInv
<1> SUFFICES ASSUME Init PROVE CutInv
  OBVIOUS
<1>1. section \in Seq(Nat) /\ Len(section) \in Nat
  BY SectionsAssumption DEF Init
<1>2. <<>> \in Seq(RangeSet) /\ Len(<<>>) = 0
  OBVIOUS
<1>3. Shape
  BY <1>1, <1>2 DEF Init, Shape, Linked, AllFit
<1>4. Cutting
  BY DEF Init, Cutting, EndParagraph, EndSentence
<1>5. QED
  BY <1>3, <1>4 DEF CutInv, Init

\* What the pending range gives once it is a chunk.
LEMMA FlushPending ==
  ASSUME NEW r \in RangeSet, Shape, Pending(r)
  PROVE  /\ Ranges = Append(chunks, r)
         /\ Ranges \in Seq(RangeSet) /\ Ranges # <<>>
         /\ Linked(Ranges) /\ AllFit(Ranges)
         /\ EndParagraph(Ranges) = at /\ EndSentence(Ranges) = cursor
<1>1. Ranges = Append(chunks, r)
  BY DEF Ranges, Pending, Shape
<1>2. Ranges \in Seq(RangeSet) /\ AllFit(Ranges)
  BY <1>1, FitAppend DEF Pending, Shape
<1>3. Linked(Ranges) /\ EndParagraph(Ranges) = at /\ EndSentence(Ranges) = cursor
  BY <1>1, LinkedAppend DEF Pending, Shape
<1>4. Ranges # <<>>
  BY <1>1 DEF Shape
<1>5. QED
  BY <1>1, <1>2, <1>3, <1>4

\* The fields a new range starts with.
LEMMA NewRange ==
  ASSUME NEW p \in Nat \ {0}, NEW s \in Nat, cursor \in Nat
  PROVE  /\ RegularRange(p) \in RangeSet /\ MidRange(p, s) \in RangeSet
         /\ RegularRange(p).est = HeadCost /\ MidRange(p, s).est = HeadCost
         /\ RegularRange(p).mid = FALSE /\ MidRange(p, s).mid = TRUE
         /\ RegularRange(p).pStart + 1 = p /\ MidRange(p, s).pStart + 1 = p
         /\ RegularRange(p).sStart = cursor /\ MidRange(p, s).sStart = cursor
         /\ RegularRange(p).sEnd = cursor
<1>1. HeadCost \in Nat /\ p - 1 \in Nat /\ (p - 1) + 1 = p
  BY CostAssumption
<1> DEFINE r == RegularRange(p)
           m == MidRange(p, s)
<1>2. /\ r \in RangeSet /\ r.est = HeadCost /\ r.mid = FALSE
      /\ r.pStart + 1 = p /\ r.sStart = cursor /\ r.sEnd = cursor
  BY <1>1 DEF RegularRange, RangeSet
<1>3. m = [r EXCEPT !.mid = TRUE, !.firstSentence = s]
  BY DEF MidRange
<1> HIDE DEF r, m
<1>4. /\ m \in RangeSet /\ m.mid = TRUE /\ m.est = r.est
      /\ m.pStart = r.pStart /\ m.sStart = r.sStart
  BY <1>2, <1>3 DEF RangeSet
<1>5. /\ r \in RangeSet /\ r.est = HeadCost /\ r.mid = FALSE
      /\ r.pStart + 1 = p /\ r.sStart = cursor /\ r.sEnd = cursor
      /\ m \in RangeSet /\ m.est = HeadCost /\ m.mid = TRUE
      /\ m.pStart + 1 = p /\ m.sStart = cursor
  BY <1>2, <1>4
<1>6. QED
  BY <1>5 DEF r, m

\* The estimates a new chunk starts with fit the budget, and a mid chunk's leaves the tail room.
LEMMA NewRangeFits ==
  /\ \A p \in ParagraphCosts : HeadCost + p <= Budget
  /\ \A p \in ParagraphCosts, s \in SentenceCosts :
       HeadCost + s + p <= Budget /\ s + p <= TailRoom
<1>1. PICK s \in SentenceCosts : TRUE
  BY CostAssumption
<1>2. \A p \in ParagraphCosts : p \in Nat
  BY CostAssumption
<1>3. \A t \in SentenceCosts : t \in Nat
  BY CostAssumption
<1>4. HeadCost \in Nat /\ TailRoom \in Nat /\ Budget \in Nat
  BY CostAssumption
<1>5. ASSUME NEW p \in ParagraphCosts PROVE HeadCost + p <= Budget
  <2>1. HeadCost + p + s + TailRoom <= Budget
    BY <1>1, RoomAssumption
  <2>2. QED
    BY <2>1, <1>1, <1>2, <1>3, <1>4
<1>6. ASSUME NEW p \in ParagraphCosts, NEW t \in SentenceCosts
      PROVE  HeadCost + t + p <= Budget /\ t + p <= TailRoom
  <2>1. HeadCost + p + t + TailRoom <= Budget /\ p + t <= TailRoom
    BY RoomAssumption
  <2>2. QED
    BY <2>1, <1>2, <1>3, <1>4
<1>7. QED
  BY <1>5, <1>6

\* A paragraph that joins the pending chunk extends it; one that opens a chunk starts where the
\* flushed chunks end.
LEMMA NextParagraphCut == CutInv /\ NextParagraph => CutInv'
<1> SUFFICES ASSUME CutInv, NextParagraph PROVE CutInv'
  OBVIOUS
<1>1. Shape /\ Cutting /\ rows = <<>> /\ rows' = <<>>
  BY DEF CutInv, NextParagraph
<1>2. /\ section' = section /\ cursor' = cursor /\ at' = at + 1 /\ done' = 0
      /\ Len(section) \in Nat /\ at' \in 1..Len(section) /\ section[at'] \in Nat
  BY <1>1 DEF NextParagraph, Shape
<1>3. PICK cost \in ParagraphCosts, fresh \in ParagraphCosts :
        LET flush == open # <<>> /\ (open[1].mid \/ open[1].est + cost > Budget)
            anew  == open = <<>> \/ flush
            range == IF anew THEN RegularRange(at + 1) ELSE open[1]
        IN  /\ chunks' = IF flush THEN Ranges ELSE chunks
            /\ open' = <<[range EXCEPT !.est = @ + (IF anew THEN fresh ELSE cost),
                                       !.pEnd = at + 1, !.cEnd = at + 1]>>
  BY DEF NextParagraph
<1>4. /\ cost \in Nat /\ fresh \in Nat /\ HeadCost \in Nat /\ Budget \in Nat
      /\ at \in Nat /\ at + 1 \in Nat \ {0} /\ cursor \in Nat
  BY <1>1, CostAssumption DEF Shape
\* Whatever the chunks become, a pending range that continues them re-establishes the invariant.
<1>5. ASSUME NEW g \in RangeSet, open' = <<g>>, chunks' \in Seq(RangeSet),
             Linked(chunks'), AllFit(chunks'), Continues(g, chunks'),
             ~g.mid, g.pEnd = at + 1, g.sEnd = cursor, g.est <= Budget
      PROVE  CutInv'
  <2>1. Fits(g) /\ Reached(g) = at + 1
    <3>1. g.est \in Nat
      BY DEF RangeSet
    <3>2. QED
      BY <1>4, <1>5, <3>1 DEF Fits, Reached
  <2>2. Shape'
    BY <1>1, <1>2, <1>5 DEF Shape
  <2>3. Pending(g)'
    BY <1>2, <1>5, <2>1 DEF Pending
  <2>4. Cutting'
    BY <1>2, <1>4, <2>3 DEF Cutting
  <2>5. QED
    BY <1>1, <2>2, <2>4 DEF CutInv
<1>6. ASSUME NEW cs \in Seq(RangeSet), Linked(cs), AllFit(cs), chunks' = cs,
             EndParagraph(cs) = at, EndSentence(cs) = cursor,
             open' = <<[RegularRange(at + 1) EXCEPT !.est = @ + fresh,
                                                    !.pEnd = at + 1, !.cEnd = at + 1]>>
      PROVE  CutInv'
  <2> DEFINE n == at + 1
             r == RegularRange(n)
             e == r.est + fresh
             g == [r EXCEPT !.est = e, !.pEnd = n, !.cEnd = n]
  <2>1. /\ r \in RangeSet /\ r.est = HeadCost /\ r.mid = FALSE /\ r.pStart + 1 = n
        /\ r.sStart = cursor /\ r.sEnd = cursor
    <3> n \in Nat \ {0}
      BY <1>4
    <3> HIDE DEF n
    <3> QED
      BY <1>4, NewRange
  <2>2. e \in Nat /\ e <= Budget /\ n \in Nat
    <3> HIDE DEF r
    <3> QED
      BY <1>4, <2>1, NewRangeFits
  <2>3. open' = <<g>>
    BY <1>6
  <2>4. /\ g \in RangeSet /\ g.est = e /\ g.pEnd = n /\ g.mid = r.mid
        /\ g.pStart = r.pStart /\ g.sStart = r.sStart /\ g.sEnd = r.sEnd
    <3> HIDE DEF n, r, e
    <3> QED
      BY <2>1, <2>2 DEF RangeSet
  <2>5. r.pStart = at
    <3> HIDE DEF r
    <3> QED
      BY <1>4, <2>1 DEF RangeSet
  <2> HIDE DEF r, e, g
  <2>6. Continues(g, cs)
    BY <1>6, <2>1, <2>4, <2>5 DEF Continues
  <2>7. QED
    BY <1>5, <1>6, <2>1, <2>2, <2>3, <2>4, <2>6
<1>7. CASE open = <<>>
  <2>1. EndParagraph(chunks) = at /\ EndSentence(chunks) = cursor
    BY <1>1, <1>7 DEF Cutting, Pending
  <2>2. QED
    BY <1>1, <1>3, <1>6, <1>7, <2>1 DEF Shape
<1>8. ASSUME NEW r \in RangeSet, Pending(r) PROVE CutInv'
  <2>1. open # <<>> /\ open[1] = r
    BY <1>8 DEF Pending
  <2>2. CASE r.mid \/ r.est + cost > Budget
    BY <1>1, <1>3, <1>6, <1>8, <2>1, <2>2, FlushPending
  <2>3. CASE ~r.mid /\ ~(r.est + cost > Budget)
    <3> DEFINE n == at + 1
               e == r.est + cost
               g == [r EXCEPT !.est = e, !.pEnd = n, !.cEnd = n]
    <3>1. chunks' = chunks /\ open' = <<g>>
      BY <1>3, <2>1, <2>3
    <3>2. e \in Nat /\ e <= Budget /\ n \in Nat
      BY <1>4, <2>3 DEF RangeSet
    <3>3. /\ g \in RangeSet /\ g.est = e /\ g.pEnd = n /\ g.mid = r.mid
          /\ g.pStart = r.pStart /\ g.sStart = r.sStart /\ g.sEnd = r.sEnd
      <4> HIDE DEF n, e
      <4> QED
        BY <3>2 DEF RangeSet
    <3> HIDE DEF e, g
    <3>4. Continues(g, chunks) /\ g.sEnd = cursor
      BY <1>8, <3>3 DEF Pending, Continues
    <3>5. QED
      BY <1>1, <1>5, <2>3, <3>1, <3>2, <3>3, <3>4 DEF Shape
  <2>4. QED
    BY <2>2, <2>3
<1>9. QED
  BY <1>1, <1>7, <1>8 DEF Cutting

\* A sentence extends the pending chunk, or opens a mid chunk at the paragraph reached last; a mid
\* chunk that is full, or whose paragraph ends, is closed in the same step.
LEMMA NextSentenceCut == CutInv /\ NextSentence => CutInv'
<1> SUFFICES ASSUME CutInv, NextSentence PROVE CutInv'
  OBVIOUS
<1>1. Shape /\ Cutting /\ rows = <<>> /\ rows' = <<>> /\ at > 0
  BY DEF CutInv, NextSentence, InParagraph
<1>2. /\ section' = section /\ at' = at /\ cursor' = cursor + 1 /\ done' = done + 1
      /\ at \in Nat \ {0} /\ cursor \in Nat /\ done \in Nat /\ done + 1 \in Nat
      /\ section[at] \in Nat /\ done + 1 <= section[at] /\ at \in 0..Len(section)
  BY <1>1, SMTT(40) DEF NextSentence, InParagraph, Shape
<1>3. PICK cost \in SentenceCosts, fresh \in SentenceCosts :
       LET flush == open # <<>> /\ ~open[1].mid /\ open[1].est + cost > Budget
           anew  == open = <<>> \/ flush
           range == IF anew THEN MidRange(at, done + 1) ELSE open[1]
           grown == [range EXCEPT !.est = @ + (IF anew THEN fresh ELSE cost),
                                  !.sEnd = cursor + 1]
           full  == grown.est + TailRoom > Budget \/ done + 1 = section[at]
           kept  == IF flush THEN Ranges ELSE chunks
       IN  /\ fresh <= cost
           /\ IF grown.mid /\ full
                THEN chunks' = Append(kept, grown) /\ open' = <<>>
                ELSE chunks' = kept /\ open' = <<grown>>
  BY DEF NextSentence, Full
<1>4. /\ cost \in Nat /\ fresh \in Nat /\ HeadCost \in Nat /\ Budget \in Nat /\ TailRoom \in Nat
      /\ cursor + 1 \in Nat
  BY <1>2, CostAssumption
<1>5. ASSUME NEW cs \in Seq(RangeSet), Linked(cs), AllFit(cs),
             NEW g \in RangeSet, Continues(g, cs), Fits(g),
             Reached(g) = at, g.sEnd = cursor + 1,
             IF g.mid /\ (g.est + TailRoom > Budget \/ done + 1 = section[at])
               THEN chunks' = Append(cs, g) /\ open' = <<>>
               ELSE chunks' = cs /\ open' = <<g>>
      PROVE  CutInv'
  <2>1. CASE g.mid /\ (g.est + TailRoom > Budget \/ done + 1 = section[at])
    <3>1. chunks' = Append(cs, g) /\ open' = <<>>
      BY <1>5, <2>1
    <3>2. /\ chunks' \in Seq(RangeSet) /\ Linked(chunks') /\ AllFit(chunks')
          /\ EndParagraph(chunks') = at /\ EndSentence(chunks') = cursor + 1
      BY <1>5, <3>1, LinkedAppend, FitAppend
    <3>3. Shape' /\ Cutting'
      BY <1>1, <1>2, <3>1, <3>2 DEF Shape, Cutting
    <3>4. QED
      BY <1>1, <3>3 DEF CutInv
  <2>2. CASE ~(g.mid /\ (g.est + TailRoom > Budget \/ done + 1 = section[at]))
    <3>1. chunks' = cs /\ open' = <<g>>
      BY <1>5, <2>2
    <3>2. g.mid => g.est + TailRoom <= Budget
      BY <1>4, <2>2, SMTT(40) DEF RangeSet
    <3>3. Pending(g)'
      BY <1>2, <1>5, <3>1, <3>2 DEF Pending
    <3>4. Shape' /\ Cutting'
      BY <1>1, <1>2, <1>5, <3>1, <3>3 DEF Shape, Cutting
    <3>5. QED
      BY <1>1, <3>4 DEF CutInv
  <2>3. QED
    BY <2>1, <2>2
\* A mid chunk opened after the chunks cs, which end where the loop is.
<1>6. ASSUME NEW cs \in Seq(RangeSet), Linked(cs), AllFit(cs),
             EndParagraph(cs) = at, EndSentence(cs) = cursor,
             LET g == [MidRange(at, done + 1) EXCEPT !.est = @ + fresh, !.sEnd = cursor + 1]
             IN  IF g.mid /\ (g.est + TailRoom > Budget \/ done + 1 = section[at])
                   THEN chunks' = Append(cs, g) /\ open' = <<>>
                   ELSE chunks' = cs /\ open' = <<g>>
      PROVE  CutInv'
  <2> DEFINE n == cursor + 1
             r == MidRange(at, done + 1)
             e == r.est + fresh
             g == [r EXCEPT !.est = e, !.sEnd = n]
  <2>1. /\ r \in RangeSet /\ r.est = HeadCost /\ r.mid = TRUE /\ r.pStart + 1 = at
        /\ r.sStart = cursor
    BY <1>2, NewRange
  <2>2. e \in Nat /\ n \in Nat /\ e = HeadCost + fresh
    <3> HIDE DEF r
    <3> QED
      BY <1>4, <2>1
  <2>3. /\ g \in RangeSet /\ g.est = e /\ g.sEnd = n /\ g.mid = r.mid
        /\ g.pStart = r.pStart /\ g.sStart = r.sStart
    <3> HIDE DEF n, r, e
    <3> QED
      BY <2>1, <2>2 DEF RangeSet
  <2>4. IF g.mid /\ (g.est + TailRoom > Budget \/ done + 1 = section[at])
          THEN chunks' = Append(cs, g) /\ open' = <<>>
          ELSE chunks' = cs /\ open' = <<g>>
    BY <1>6
  <2> HIDE DEF r, e, g
  <2>5. Fits(g)
    BY <1>4, <2>1, <2>2, <2>3, NewRangeFits DEF Fits
  <2>6. Continues(g, cs) /\ Reached(g) = at
    <3>1. cs # <<>>
      BY <1>2, <1>6 DEF EndParagraph
    <3>2. QED
      BY <1>6, <2>1, <2>3, <3>1 DEF Continues, Reached
  <2>7. QED
    BY <1>5, <1>6, <2>3, <2>4, <2>5, <2>6
<1>7. CASE open = <<>>
  <2>1. EndParagraph(chunks) = at /\ EndSentence(chunks) = cursor
    BY <1>1, <1>7 DEF Cutting, Pending
  <2>2. QED
    BY <1>1, <1>3, <1>6, <1>7, <2>1 DEF Shape
<1>8. ASSUME NEW r \in RangeSet, Pending(r) PROVE CutInv'
  <2>1. open # <<>> /\ open[1] = r
    BY <1>8 DEF Pending
  <2>2. CASE ~r.mid /\ r.est + cost > Budget
    BY <1>1, <1>3, <1>6, <1>8, <2>1, <2>2, FlushPending
  <2>3. CASE ~(~r.mid /\ r.est + cost > Budget)
    <3> DEFINE n == cursor + 1
               e == r.est + cost
               g == [r EXCEPT !.est = e, !.sEnd = n]
    <3>1. IF g.mid /\ (g.est + TailRoom > Budget \/ done + 1 = section[at])
            THEN chunks' = Append(chunks, g) /\ open' = <<>>
            ELSE chunks' = chunks /\ open' = <<g>>
      BY <1>3, <2>1, <2>3
    <3>2. e \in Nat /\ n \in Nat /\ r.est \in Nat /\ r.mid \in BOOLEAN
      BY <1>4 DEF RangeSet
    <3>3. /\ g \in RangeSet /\ g.est = e /\ g.sEnd = n /\ g.mid = r.mid
          /\ g.pStart = r.pStart /\ g.sStart = r.sStart /\ g.pEnd = r.pEnd
      <4> HIDE DEF n, e
      <4> QED
        BY <3>2 DEF RangeSet
    <3>4. Fits(g)
      <4> HIDE DEF g
      <4>1. CASE r.mid
        <5>1. r.est + TailRoom <= Budget
          BY <1>8, <4>1 DEF Pending
        <5>2. ASSUME NEW p \in ParagraphCosts PROVE g.est + p <= Budget
          <6>1. cost + p <= TailRoom /\ p \in Nat
            BY NewRangeFits, CostAssumption
          <6>2. QED
            BY <1>4, <3>2, <3>3, <5>1, <6>1
        <5>3. QED
          BY <3>3, <4>1, <5>2 DEF Fits
      <4>2. CASE ~r.mid
        BY <1>4, <2>3, <3>2, <3>3, <4>2 DEF Fits
      <4>3. QED
        BY <4>1, <4>2
    <3> HIDE DEF e, g
    <3>5. Continues(g, chunks) /\ Reached(g) = at
      BY <1>8, <3>3 DEF Pending, Continues, Reached
    <3>6. QED
      BY <1>1, <1>5, <3>1, <3>3, <3>4, <3>5 DEF Shape
  <2>4. QED
    BY <2>2, <2>3
<1>9. QED
  BY <1>1, <1>7, <1>8 DEF Cutting

\* What is stored reaches the end of the section: the pending range is flushed, and a section
\* without a paragraph is one chunk.
LEMMA StoreCut == CutInv /\ Store => CutInv'
<1> SUFFICES ASSUME CutInv, Store PROVE CutInv'
  OBVIOUS
<1>1. Shape /\ Cutting /\ rows = <<>> /\ at = Len(section) /\ Len(section) \in Nat
  BY DEF CutInv, Store, Shape
<1>2. section' = section /\ at' = at /\ done' = done /\ cursor' = cursor /\ open' = <<>>
  BY DEF Store
\* Whatever is stored, ranges that reach the end of the section re-establish the invariant.
<1>3. ASSUME NEW cs \in Seq(RangeSet), cs # <<>>, Linked(cs),
             EndParagraph(cs) = Len(section), EndSentence(cs) = cursor,
             chunks' = [k \in 1..Len(cs) |-> [cs[k] EXCEPT !.est = 0]],
             rows' = [k \in 1..Len(cs) |-> rows'[k]]
      PROVE  CutInv'
  <2>1. /\ chunks' \in Seq(RangeSet) /\ chunks' # <<>> /\ Len(chunks') = Len(cs)
        /\ Linked(chunks') /\ AllFit(chunks')
        /\ EndParagraph(chunks') = Len(section) /\ EndSentence(chunks') = cursor
    BY <1>3, ForgetEstimates
  <2>2. Len(cs) \in Nat /\ Len(cs) > 0
    BY <1>3
  <2>3. Len(rows') = Len(cs) /\ rows' # <<>>
    BY <1>3, <2>2
  <2>4. Shape'
    BY <1>1, <1>2, <2>1 DEF Shape
  <2>5. Cut'
    BY <1>2, <2>1, <2>3 DEF Cut
  <2>6. QED
    BY <2>3, <2>4, <2>5 DEF CutInv
<1>4. CASE section = <<>>
  <2>1. at = 0 /\ open = <<>> /\ chunks = <<>>
    BY <1>1, <1>4 DEF Cutting
  <2>2. cursor = 0
    BY <1>1, <2>1 DEF Cutting, Pending, EndSentence
  <2> DEFINE w == WholeRange
             cs == <<w>>
  <2>3. /\ w \in RangeSet /\ w.mid = FALSE /\ w.pStart = 0 /\ w.pEnd = 0
        /\ w.sStart = 0 /\ w.sEnd = 0
    BY CostAssumption DEF WholeRange, RangeSet
  <2>4. /\ chunks' = [k \in 1..Len(cs) |-> [cs[k] EXCEPT !.est = 0]]
        /\ rows' = [k \in 1..Len(cs) |-> rows'[k]]
    BY <1>4 DEF Store
  <2> HIDE DEF w
  <2>5. cs \in Seq(RangeSet) /\ cs # <<>> /\ Len(cs) = 1 /\ cs[1] = w
    BY <2>3
  <2>6. Linked(cs)
    BY <2>3, <2>5 DEF Linked
  <2>7. EndParagraph(cs) = Len(section) /\ EndSentence(cs) = cursor
    BY <1>1, <2>1, <2>2, <2>3, <2>5 DEF EndParagraph, EndSentence, Reached
  <2> HIDE DEF cs
  <2>8. QED
    BY <1>3, <2>4, <2>5, <2>6, <2>7
<1>5. CASE section # <<>>
  <2>1. /\ chunks' = [k \in 1..Len(Ranges) |-> [Ranges[k] EXCEPT !.est = 0]]
        /\ rows' = [k \in 1..Len(Ranges) |-> rows'[k]]
    BY <1>5 DEF Store
  <2>2. at # 0
    BY <1>1, <1>5 DEF Shape
  <2>3. CASE open = <<>>
    <3>1. Ranges = chunks
      BY <1>1, <2>3 DEF Ranges, Shape
    <3>2. EndParagraph(chunks) = at /\ EndSentence(chunks) = cursor
      BY <1>1, <2>3 DEF Cutting, Pending
    <3>3. chunks # <<>>
      BY <2>2, <3>2 DEF EndParagraph
    <3>4. QED
      BY <1>1, <1>3, <2>1, <3>1, <3>2, <3>3 DEF Shape
  <2>4. ASSUME NEW r \in RangeSet, Pending(r) PROVE CutInv'
    BY <1>1, <1>3, <2>1, <2>4, FlushPending
  <2>5. QED
    BY <1>1, <2>3, <2>4 DEF Cutting
<1>6. QED
  BY <1>4, <1>5

-----------------------------------------------------------------------------

\* Every state of the loop: the chunks cut so far are linked and fit, the pending range continues
\* them, and together they reach exactly as far as the loop has come.
THEOREM CutInvariant == Spec => []CutInv
<1>1. CutInv /\ [Next]_vars => CutInv'
  <2> SUFFICES ASSUME CutInv, [Next]_vars PROVE CutInv'
    OBVIOUS
  <2>1. CASE NextParagraph
    BY <2>1, NextParagraphCut
  <2>2. CASE NextSentence
    BY <2>2, NextSentenceCut
  <2>3. CASE Store
    BY <2>3, StoreCut
  <2>4. CASE UNCHANGED vars
    BY <2>4 DEF vars, CutInv, Shape, Cutting, Cut, Pending
  <2>5. QED
    BY <2>1, <2>2, <2>3, <2>4 DEF Next
<1>2. QED
  BY <1>1, InitCut, PTL DEF Spec

\* The ranges at hand, chunks and pending one, are ranges that fit.
LEMMA RangesFit == CutInv => Ranges \in Seq(RangeSet) /\ AllFit(Ranges) /\ Len(open) <= 1
<1> SUFFICES ASSUME CutInv PROVE Ranges \in Seq(RangeSet) /\ AllFit(Ranges) /\ Len(open) <= 1
  OBVIOUS
<1>1. Shape
  BY DEF CutInv
<1>2. CASE open = <<>>
  BY <1>1, <1>2 DEF Shape, Ranges
<1>3. ASSUME NEW r \in RangeSet, Pending(r)
      PROVE  Ranges \in Seq(RangeSet) /\ AllFit(Ranges) /\ Len(open) <= 1
  <2>1. Len(open) = 1
    BY <1>3 DEF Pending
  <2>2. QED
    BY <1>1, <1>3, <2>1, FlushPending
<1>4. QED
  BY <1>2, <1>3 DEF CutInv, Cutting, Cut

\* Every variable holds a value of its kind, whatever the section and the costs: build_chunk_ranges
\* never runs past the boundaries, keeps at most one range pending and stores a row for each chunk.
THEOREM ChunksAreTyped == Spec => []ChunksTypeOK
<1>1. CutInv => ChunksTypeOK
  <2> SUFFICES ASSUME CutInv PROVE ChunksTypeOK
    OBVIOUS
  <2>1. Shape /\ (rows = <<>> \/ Len(rows) = Len(chunks))
    BY DEF CutInv, Cut
  <2>2. \A k \in 1..Len(Ranges) : Ranges[k] \in RangeSet
    BY RangesFit
  <2>3. Len(open) <= 1
    BY RangesFit
  <2>4. Len(rows) \in {0, Len(chunks)}
    BY <2>1
  <2>5. QED
    BY <2>1, <2>2, <2>3, <2>4 DEF ChunksTypeOK, Shape
<1>2. QED
  BY <1>1, CutInvariant, PTL

\* The stored chunks of any section partition it: no paragraph and no sentence is lost between two
\* chunks or kept by both, however their sizes fall.
THEOREM ChunksPartitionSection == Spec => []ChunksPartition
<1>1. CutInv => ChunksPartition
  <2> SUFFICES ASSUME CutInv PROVE ChunksPartition
    OBVIOUS
  <2>1. Shape
    BY DEF CutInv
  <2>2. CASE rows = <<>>
    BY <2>1, <2>2 DEF Shape, Linked, ChunksPartition, Stored
  <2>3. CASE rows # <<>>
    <3>1. chunks # <<>> /\ EndParagraph(chunks) = Len(section) /\ EndSentence(chunks) = cursor
      BY <2>3 DEF CutInv, Cut
    <3>2. QED
      BY <2>1, <3>1 DEF Shape, Linked, ChunksPartition, EndParagraph, EndSentence
  <2>4. QED
    BY <2>2, <2>3
<1>2. QED
  BY <1>1, CutInvariant, PTL

\* No chunk is estimated over LAYOUT_CHUNK_BYTES, though a mid chunk's repeated records are not in
\* the estimate that closes it: the tail room always covers them.
THEOREM ChunksStayWithinBudget == Spec => []ChunksWithinBudget
<1>1. CutInv => ChunksWithinBudget
  <2> SUFFICES ASSUME CutInv PROVE ChunksWithinBudget
    OBVIOUS
  <2>1. AllFit(Ranges)
    BY RangesFit
  <2>2. QED
    BY <2>1 DEF AllFit, Fits, ChunksWithinBudget
<1>2. QED
  BY <1>1, CutInvariant, PTL

-----------------------------------------------------------------------------
(* Where the chunks lie *)

\* The range r lies in the section sec, Q its sentences up to and with a paragraph: a regular range
\* holds whole paragraphs but for the last, a mid range sentences of one paragraph.
InPlace(r, sec, Q) ==
  /\ r.first = r.pStart + 1 /\ r.cStart = r.pStart
  /\ IF r.mid
       THEN /\ r.pEnd = r.pStart /\ r.cEnd = r.first /\ r.first <= Len(sec)
            /\ r.sStart >= Q[r.pStart] /\ r.firstSentence = (r.sStart - Q[r.pStart]) + 1
            /\ r.sStart < r.sEnd /\ r.sEnd <= Q[r.first]
       ELSE /\ r.firstSentence = 0
            /\ r.pStart < r.pEnd /\ r.pEnd <= Len(sec) /\ r.cEnd = r.pEnd
            /\ r.sStart = Q[r.pStart] /\ Q[r.pEnd - 1] <= r.sEnd /\ r.sEnd <= Q[r.pEnd]

\* Every range of a list is in place.
AllInPlace(cs, sec, Q) == \A k \in 1..Len(cs) : InPlace(cs[k], sec, Q)

\* The loop has placed the sentences before the paragraph it is in, and done of it.
LoopInPlace(Q) ==
  /\ cursor = IF at = 0 THEN 0 ELSE Q[at - 1] + done
  /\ AllInPlace(chunks, section, Q) /\ AllInPlace(open, section, Q)

\* The part of the inductive invariant about places: the layout stays the one of the section, and
\* until the section is stored every range cut so far lies where the loop found it.
PlaceInv ==
  /\ layout = LayoutOf(section)
  /\ rows = <<>> => \A Q : IsPartialSums(Q, section, Len(section)) => LoopInPlace(Q)

\* A range added to ranges in place.
LEMMA InPlaceAppend ==
  ASSUME NEW cs \in Seq(RangeSet), NEW r \in RangeSet, NEW sec, NEW Q,
         AllInPlace(cs, sec, Q), InPlace(r, sec, Q)
  PROVE  AllInPlace(Append(cs, r), sec, Q)
<1>1. /\ Len(Append(cs, r)) = Len(cs) + 1 /\ Len(cs) \in Nat
      /\ Append(cs, r)[Len(cs) + 1] = r
      /\ \A k \in 1..Len(cs) : Append(cs, r)[k] = cs[k]
  OBVIOUS
<1> QED
  BY <1>1 DEF AllInPlace

\* A list of one range.
LEMMA InPlaceOne ==
  ASSUME NEW r, NEW sec, NEW Q
  PROVE  AllInPlace(<<r>>, sec, Q) <=> InPlace(r, sec, Q)
BY DEF AllInPlace

\* A list of none.
LEMMA InPlaceNone ==
  ASSUME NEW sec, NEW Q
  PROVE  AllInPlace(<<>>, sec, Q)
BY DEF AllInPlace

\* build_chunk_ranges starts with nothing placed.
LEMMA InitPlace == Init => PlaceInv
<1> SUFFICES ASSUME Init PROVE PlaceInv
  OBVIOUS
<1>1. ASSUME NEW Q PROVE LoopInPlace(Q)
  BY InPlaceNone DEF Init, LoopInPlace
<1> QED BY <1>1 DEF PlaceInv, Init

\* Between two paragraphs the sentences of the first are all placed.
LEMMA BetweenParagraphs ==
  ASSUME Shape, PlaceInv, rows = <<>>, ~InParagraph, NEW Q, IsPartialSums(Q, section, Len(section))
  PROVE  cursor = Q[at] /\ Q[at] \in Nat
<1>1. /\ section \in [1..Len(section) -> Nat] /\ Len(section) \in Nat /\ at \in 0..Len(section)
      /\ done \in Nat /\ (at > 0 => done <= section[at])
  BY DEF Shape
<1>2. cursor = IF at = 0 THEN 0 ELSE Q[at - 1] + done
  BY DEF PlaceInv, LoopInPlace
<1>3. CASE at = 0
  BY <1>2, <1>3 DEF IsPartialSums
<1>4. CASE at # 0
  <2>1. at \in 1..Len(section) /\ at > 0
    BY <1>1, <1>4
  <2>2. Q[at - 1] \in Nat /\ Q[at] \in Nat /\ Q[at] = Q[at - 1] + section[at] /\ section[at] \in Nat
    BY <1>1, <2>1, SumsStep
  <2>3. done = section[at]
    BY <1>1, <2>1, <2>2 DEF InParagraph
  <2> QED BY <1>2, <1>4, <2>2, <2>3
<1> QED BY <1>3, <1>4

\* A range grown by a paragraph or opened with one.
LEMMA ParagraphInPlace ==
  ASSUME NEW sec \in Seq(Nat), NEW Q, IsPartialSums(Q, sec, Len(sec)),
         NEW a \in 0..Len(sec) - 1, NEW r \in RangeSet, NEW g \in RangeSet,
         ~r.mid, r.first = r.pStart + 1, r.cStart = r.pStart, r.firstSentence = 0,
         r.sStart = Q[r.pStart], r.pStart <= a, r.sEnd = Q[a],
         g.mid = r.mid, g.first = r.first, g.firstSentence = r.firstSentence, g.pStart = r.pStart,
         g.sStart = r.sStart, g.sEnd = r.sEnd, g.cStart = r.cStart, g.pEnd = a + 1, g.cEnd = a + 1
  PROVE  InPlace(g, sec, Q)
<1>1. sec \in [1..Len(sec) -> Nat] /\ Len(sec) \in Nat
  OBVIOUS
<1>2. r.pStart \in Nat /\ a \in Nat /\ a + 1 <= Len(sec) /\ a <= a + 1 /\ (a + 1) - 1 = a
  BY <1>1 DEF RangeSet
<1>3. Q[a] <= Q[a + 1] /\ Q[a] \in Nat
  BY <1>1, <1>2, SumsGrow
<1> QED BY <1>2, <1>3 DEF InPlace

\* A paragraph that joins the pending chunk or opens the next keeps every range in place.
LEMMA NextParagraphPlace == CutInv /\ PlaceInv /\ NextParagraph => PlaceInv'
<1> SUFFICES ASSUME CutInv, PlaceInv, NextParagraph PROVE PlaceInv'
  OBVIOUS
<1>1. Shape /\ Cutting /\ rows = <<>> /\ rows' = <<>> /\ ~InParagraph
  BY DEF CutInv, NextParagraph
<1>2. /\ section' = section /\ layout' = layout /\ cursor' = cursor /\ at' = at + 1 /\ done' = 0
      /\ Len(section) \in Nat /\ at < Len(section) /\ at \in Nat
  BY <1>1 DEF NextParagraph, Shape
<1>3. PICK cost \in ParagraphCosts, fresh \in ParagraphCosts :
        LET flush == open # <<>> /\ (open[1].mid \/ open[1].est + cost > Budget)
            anew  == open = <<>> \/ flush
            range == IF anew THEN RegularRange(at + 1) ELSE open[1]
        IN  /\ chunks' = IF flush THEN Ranges ELSE chunks
            /\ open' = <<[range EXCEPT !.est = @ + (IF anew THEN fresh ELSE cost),
                                       !.pEnd = at + 1, !.cEnd = at + 1]>>
  BY DEF NextParagraph
<1>4. SUFFICES ASSUME NEW Q, IsPartialSums(Q, section, Len(section))
               PROVE  LoopInPlace(Q)'
  BY <1>2 DEF PlaceInv
<1>5. cursor = Q[at] /\ Q[at] \in Nat /\ LoopInPlace(Q)
  BY <1>1, <1>4, BetweenParagraphs DEF PlaceInv
<1>6. cursor' = IF at' = 0 THEN 0 ELSE Q[at' - 1] + done'
  BY <1>2, <1>5
\* The pending range after the step is in place, and so are the chunks.
<1>7. ASSUME NEW r \in RangeSet, NEW e \in Nat,
             ~r.mid, r.first = r.pStart + 1, r.cStart = r.pStart, r.firstSentence = 0,
             r.sStart = Q[r.pStart], r.pStart <= at, r.sEnd = Q[at],
             open' = <<[r EXCEPT !.est = e, !.pEnd = at + 1, !.cEnd = at + 1]>>,
             AllInPlace(chunks', section, Q)
      PROVE  LoopInPlace(Q)'
  <2> DEFINE g == [r EXCEPT !.est = e, !.pEnd = at + 1, !.cEnd = at + 1]
  <2>1. /\ g \in RangeSet /\ g.mid = r.mid /\ g.first = r.first /\ g.firstSentence = r.firstSentence
        /\ g.pStart = r.pStart /\ g.sStart = r.sStart /\ g.sEnd = r.sEnd /\ g.cStart = r.cStart
        /\ g.pEnd = at + 1 /\ g.cEnd = at + 1
    <3>1. at + 1 \in Nat
      BY <1>2
    <3> QED BY <1>7, <3>1 DEF RangeSet
  <2>2. open' = <<g>>
    BY <1>7
  <2> HIDE DEF g
  <2>3. InPlace(g, section, Q)
    <3>1. at \in 0..Len(section) - 1 /\ section \in Seq(Nat)
      BY <1>1, <1>2 DEF Shape
    <3> QED BY <1>4, <1>7, <2>1, <3>1, ParagraphInPlace
  <2>4. AllInPlace(open', section, Q)
    BY <2>2, <2>3, InPlaceOne
  <2> QED BY <1>2, <1>6, <1>7, <2>4 DEF LoopInPlace
\* A new chunk is opened.
<1>8. ASSUME AllInPlace(chunks', section, Q),
             open' = <<[RegularRange(at + 1) EXCEPT !.est = @ + fresh, !.pEnd = at + 1, !.cEnd = at + 1]>>
      PROVE  LoopInPlace(Q)'
  <2> DEFINE r == RegularRange(at + 1)
             e == r.est + fresh
  <2>1. fresh \in Nat /\ HeadCost \in Nat /\ cursor \in Nat
    BY CostAssumption, <1>5
  <2>2. /\ r \in RangeSet /\ ~r.mid /\ r.first = r.pStart + 1 /\ r.cStart = r.pStart
        /\ r.firstSentence = 0 /\ r.sStart = cursor /\ r.pStart = at /\ r.sEnd = cursor /\ r.est = HeadCost
    <3>1. (at + 1) - 1 = at /\ at + 1 \in Nat
      BY <1>2
    <3> QED BY <1>2, <2>1, <3>1 DEF RegularRange, RangeSet
  <2>3. open' = <<[r EXCEPT !.est = e, !.pEnd = at + 1, !.cEnd = at + 1]>>
    BY <1>8
  <2> HIDE DEF r
  <2>4. e \in Nat
    BY <2>1, <2>2
  <2>5. r.pStart <= at /\ r.sStart = Q[r.pStart] /\ r.sEnd = Q[at]
    BY <1>2, <1>5, <2>2
  <2> HIDE DEF e
  <2> QED BY <1>7, <1>8, <2>2, <2>3, <2>4, <2>5
<1>9. CASE open = <<>>
  BY <1>3, <1>5, <1>8, <1>9 DEF LoopInPlace
<1>10. ASSUME NEW r \in RangeSet, Pending(r) PROVE LoopInPlace(Q)'
  <2>1. open # <<>> /\ open[1] = r /\ InPlace(r, section, Q)
    <3>1. open = <<r>>
      BY <1>10 DEF Pending
    <3> QED BY <1>5, <3>1, InPlaceOne DEF LoopInPlace
  <2>2. AllInPlace(Ranges, section, Q)
    <3>1. Ranges = Append(chunks, r)
      BY <1>1, <1>10, FlushPending
    <3> QED BY <1>1, <1>5, <2>1, <3>1, InPlaceAppend DEF LoopInPlace, Shape
  <2>3. CASE r.mid \/ r.est + cost > Budget
    BY <1>3, <1>8, <2>1, <2>2, <2>3
  <2>4. CASE ~(r.mid \/ r.est + cost > Budget)
    <3> DEFINE e == r.est + cost
    <3>1. chunks' = chunks /\ open' = <<[r EXCEPT !.est = e, !.pEnd = at + 1, !.cEnd = at + 1]>>
      BY <1>3, <2>1, <2>4
    <3>2. e \in Nat
      BY <2>4, CostAssumption DEF RangeSet
    <3> HIDE DEF e
    <3>3. r.pEnd = at /\ r.sEnd = cursor /\ ~r.mid
      BY <1>10, <2>4 DEF Pending, Reached
    <3>4. /\ r.first = r.pStart + 1 /\ r.cStart = r.pStart /\ r.firstSentence = 0
          /\ r.sStart = Q[r.pStart] /\ r.pStart <= at
      <4>1. r.pStart \in Nat
        BY DEF RangeSet
      <4> QED BY <1>2, <2>1, <3>3, <4>1 DEF InPlace
    <3> QED BY <1>5, <1>7, <3>1, <3>2, <3>3, <3>4 DEF LoopInPlace
  <2> QED BY <2>3, <2>4
<1> QED
  BY <1>1, <1>9, <1>10 DEF Cutting

\* A range grown by the next sentence of paragraph a, or opened with one.
LEMMA SentenceInPlace ==
  ASSUME NEW sec \in Seq(Nat), NEW Q, IsPartialSums(Q, sec, Len(sec)),
         NEW a \in 1..Len(sec), NEW t \in Nat, NEW r \in RangeSet, NEW g \in RangeSet,
         Q[a - 1] <= t, t + 1 <= Q[a],
         r.first = r.pStart + 1, r.cStart = r.pStart,
         IF r.mid
           THEN /\ r.pEnd = r.pStart /\ r.cEnd = r.first /\ r.first = a
                /\ r.sStart >= Q[r.pStart] /\ r.firstSentence = (r.sStart - Q[r.pStart]) + 1
                /\ r.sStart <= t
           ELSE /\ r.firstSentence = 0 /\ r.pStart < r.pEnd /\ r.pEnd = a /\ r.cEnd = r.pEnd
                /\ r.sStart = Q[r.pStart],
         g.mid = r.mid, g.first = r.first, g.firstSentence = r.firstSentence, g.pStart = r.pStart,
         g.sStart = r.sStart, g.sEnd = t + 1, g.cStart = r.cStart, g.pEnd = r.pEnd, g.cEnd = r.cEnd
  PROVE  InPlace(g, sec, Q)
<1>1. sec \in [1..Len(sec) -> Nat] /\ Len(sec) \in Nat
  OBVIOUS
<1>2. Q[a - 1] \in Nat /\ Q[a] \in Nat
  BY <1>1, SumsStep
<1>3. r.sStart \in Nat /\ r.pStart \in Nat
  BY DEF RangeSet
<1>4. CASE r.mid
  BY <1>1, <1>2, <1>3, <1>4 DEF InPlace
<1>5. CASE ~r.mid
  BY <1>1, <1>2, <1>3, <1>5, SMTT(40) DEF InPlace
<1> QED BY <1>4, <1>5

\* A sentence that joins the pending chunk, opens a mid chunk or closes one keeps every range in place.
LEMMA NextSentencePlace == CutInv /\ PlaceInv /\ NextSentence => PlaceInv'
<1> SUFFICES ASSUME CutInv, PlaceInv, NextSentence PROVE PlaceInv'
  OBVIOUS
<1>1. Shape /\ Cutting /\ rows = <<>> /\ rows' = <<>> /\ at > 0
  BY DEF CutInv, NextSentence, InParagraph
<1>2. /\ section' = section /\ layout' = layout /\ at' = at /\ cursor' = cursor + 1
      /\ done' = done + 1
      /\ at \in 1..Len(section) /\ cursor \in Nat /\ done \in Nat
      /\ section[at] \in Nat /\ done + 1 <= section[at]
      /\ section \in [1..Len(section) -> Nat] /\ Len(section) \in Nat /\ section \in Seq(Nat)
  BY <1>1, SMTT(40) DEF NextSentence, InParagraph, Shape
<1>3. PICK cost \in SentenceCosts, fresh \in SentenceCosts :
       LET flush == open # <<>> /\ ~open[1].mid /\ open[1].est + cost > Budget
           anew  == open = <<>> \/ flush
           range == IF anew THEN MidRange(at, done + 1) ELSE open[1]
           grown == [range EXCEPT !.est = @ + (IF anew THEN fresh ELSE cost),
                                  !.sEnd = cursor + 1]
           full  == grown.est + TailRoom > Budget \/ done + 1 = section[at]
           kept  == IF flush THEN Ranges ELSE chunks
       IN  /\ fresh <= cost
           /\ IF grown.mid /\ full
                THEN chunks' = Append(kept, grown) /\ open' = <<>>
                ELSE chunks' = kept /\ open' = <<grown>>
  BY DEF NextSentence, Full
<1>4. SUFFICES ASSUME NEW Q, IsPartialSums(Q, section, Len(section))
               PROVE  LoopInPlace(Q)'
  BY <1>2 DEF PlaceInv
<1>5. LoopInPlace(Q) /\ Q[at - 1] \in Nat /\ Q[at] \in Nat /\ Q[at] = Q[at - 1] + section[at]
  BY <1>1, <1>2, <1>4, SumsStep DEF PlaceInv
<1>6. /\ cursor = Q[at - 1] + done
      /\ Q[at - 1] <= cursor /\ cursor + 1 <= Q[at]
      /\ cursor' = IF at' = 0 THEN 0 ELSE Q[at' - 1] + done'
  <2>1. cursor = Q[at - 1] + done
    BY <1>2, <1>5 DEF LoopInPlace
  <2> DEFINE x == Q[at - 1]
             z == section[at]
  <2>2. /\ x \in Nat /\ z \in Nat /\ Q[at] = x + z /\ cursor = x + done /\ done \in Nat
        /\ done + 1 <= z
    BY <1>2, <1>5, <2>1
  <2>3. cursor' = cursor + 1 /\ done' = done + 1 /\ at' = at /\ at' # 0 /\ Q[at' - 1] = x
    BY <1>2
  <2> HIDE DEF x, z
  <2>4. x <= cursor /\ cursor + 1 <= Q[at] /\ cursor + 1 = x + (done + 1)
    BY <2>2
  <2> QED BY <2>1, <2>3, <2>4 DEF x
<1>7. ASSUME NEW cs \in Seq(RangeSet), AllInPlace(cs, section, Q),
             NEW r \in RangeSet, NEW e \in Nat,
             r.first = r.pStart + 1, r.cStart = r.pStart,
             IF r.mid
               THEN /\ r.pEnd = r.pStart /\ r.cEnd = r.first /\ r.first = at
                    /\ r.sStart >= Q[r.pStart] /\ r.firstSentence = (r.sStart - Q[r.pStart]) + 1
                    /\ r.sStart <= cursor
               ELSE /\ r.firstSentence = 0 /\ r.pStart < r.pEnd /\ r.pEnd = at /\ r.cEnd = r.pEnd
                    /\ r.sStart = Q[r.pStart],
             \/ chunks' = Append(cs, [r EXCEPT !.est = e, !.sEnd = cursor + 1]) /\ open' = <<>>
             \/ chunks' = cs /\ open' = <<[r EXCEPT !.est = e, !.sEnd = cursor + 1]>>
      PROVE  LoopInPlace(Q)'
  <2> DEFINE g == [r EXCEPT !.est = e, !.sEnd = cursor + 1]
  <2>1. /\ g \in RangeSet /\ g.mid = r.mid /\ g.first = r.first /\ g.firstSentence = r.firstSentence
        /\ g.pStart = r.pStart /\ g.sStart = r.sStart /\ g.sEnd = cursor + 1
        /\ g.cStart = r.cStart /\ g.pEnd = r.pEnd /\ g.cEnd = r.cEnd
    <3>1. cursor + 1 \in Nat
      BY <1>2
    <3> QED BY <1>7, <3>1 DEF RangeSet
  <2>2. \/ chunks' = Append(cs, g) /\ open' = <<>>
        \/ chunks' = cs /\ open' = <<g>>
    BY <1>7
  <2> HIDE DEF g
  <2>3. InPlace(g, section, Q)
    BY <1>2, <1>4, <1>6, <1>7, <2>1, SentenceInPlace
  <2>4. CASE chunks' = Append(cs, g) /\ open' = <<>>
    <3>1. AllInPlace(chunks', section, Q)
      BY <1>7, <2>1, <2>3, <2>4, InPlaceAppend
    <3>2. AllInPlace(open', section, Q)
      BY <2>4, InPlaceNone
    <3> QED BY <1>2, <1>6, <3>1, <3>2 DEF LoopInPlace
  <2>5. CASE chunks' = cs /\ open' = <<g>>
    <3>1. AllInPlace(open', section, Q)
      BY <2>3, <2>5, InPlaceOne
    <3> QED BY <1>2, <1>6, <1>7, <2>5, <3>1 DEF LoopInPlace
  <2> QED BY <2>2, <2>4, <2>5
\* A mid chunk is opened after the chunks cs.
<1>8. ASSUME NEW cs \in Seq(RangeSet), AllInPlace(cs, section, Q),
             LET g == [MidRange(at, done + 1) EXCEPT !.est = @ + fresh, !.sEnd = cursor + 1]
             IN  IF g.mid /\ (g.est + TailRoom > Budget \/ done + 1 = section[at])
                   THEN chunks' = Append(cs, g) /\ open' = <<>>
                   ELSE chunks' = cs /\ open' = <<g>>
      PROVE  LoopInPlace(Q)'
  <2> DEFINE r == MidRange(at, done + 1)
             e == r.est + fresh
             g == [r EXCEPT !.est = e, !.sEnd = cursor + 1]
  <2>1. fresh \in Nat /\ HeadCost \in Nat
    BY CostAssumption
  <2>2. /\ r \in RangeSet /\ r.mid /\ r.first = r.pStart + 1 /\ r.cStart = r.pStart
        /\ r.pEnd = r.pStart /\ r.cEnd = r.first /\ r.first = at /\ r.pStart = at - 1
        /\ r.sStart = cursor /\ r.firstSentence = done + 1 /\ r.est = HeadCost
    <3>1. at - 1 \in Nat /\ at = (at - 1) + 1 /\ at \in Nat /\ done + 1 \in Nat
      BY <1>2
    <3> DEFINE o == RegularRange(at)
    <3>2. /\ o \in RangeSet /\ o.est = HeadCost /\ o.first = at
          /\ o.pStart = at - 1 /\ o.pEnd = at - 1 /\ o.sStart = cursor
          /\ o.cStart = at - 1 /\ o.cEnd = at
      BY <1>2, <2>1, <3>1 DEF RegularRange, RangeSet
    <3>3. r = [o EXCEPT !.mid = TRUE, !.firstSentence = done + 1]
      BY DEF MidRange
    <3> HIDE DEF r, o
    <3>4. /\ r \in RangeSet /\ r.mid = TRUE /\ r.firstSentence = done + 1 /\ r.est = o.est
          /\ r.first = o.first /\ r.pStart = o.pStart /\ r.pEnd = o.pEnd /\ r.sStart = o.sStart
          /\ r.cStart = o.cStart /\ r.cEnd = o.cEnd
      BY <3>1, <3>2, <3>3 DEF RangeSet
    <3> QED BY <3>1, <3>2, <3>4
  <2>6. IF g.mid /\ (g.est + TailRoom > Budget \/ done + 1 = section[at])
          THEN chunks' = Append(cs, g) /\ open' = <<>>
          ELSE chunks' = cs /\ open' = <<g>>
    BY <1>8
  <2>3. \/ chunks' = Append(cs, g) /\ open' = <<>>
        \/ chunks' = cs /\ open' = <<g>>
    <3> DEFINE full == g.mid /\ (g.est + TailRoom > Budget \/ done + 1 = section[at])
    <3>1. IF full THEN chunks' = Append(cs, g) /\ open' = <<>> ELSE chunks' = cs /\ open' = <<g>>
      BY <2>6
    <3> HIDE DEF full, g
    <3> QED BY <3>1
  <2> HIDE DEF r
  <2>4. e \in Nat
    BY <2>1, <2>2
  <2>5. /\ r.sStart >= Q[r.pStart] /\ r.firstSentence = (r.sStart - Q[r.pStart]) + 1
        /\ r.sStart <= cursor
    <3> DEFINE x == Q[at - 1]
    <3>1. Q[r.pStart] = x /\ x \in Nat /\ cursor = x + done /\ done \in Nat
      BY <1>2, <1>5, <1>6, <2>2
    <3> HIDE DEF x
    <3>2. cursor >= x /\ done + 1 = (cursor - x) + 1 /\ cursor <= cursor
      BY <3>1
    <3> QED BY <2>2, <3>1, <3>2
  <2> HIDE DEF e
  <2> QED BY <1>7, <1>8, <2>2, <2>3, <2>4, <2>5
<1>9. CASE open = <<>>
  <2>1. chunks \in Seq(RangeSet) /\ AllInPlace(chunks, section, Q)
    BY <1>1, <1>5 DEF Shape, LoopInPlace
  <2> QED BY <1>3, <1>8, <1>9, <2>1
<1>10. ASSUME NEW r \in RangeSet, Pending(r) PROVE LoopInPlace(Q)'
  <2>1. open # <<>> /\ open[1] = r /\ InPlace(r, section, Q)
    <3>1. open = <<r>>
      BY <1>10 DEF Pending
    <3> QED BY <1>5, <3>1, InPlaceOne DEF LoopInPlace
  <2>2. AllInPlace(Ranges, section, Q) /\ Ranges \in Seq(RangeSet)
    <3>1. Ranges = Append(chunks, r) /\ Ranges \in Seq(RangeSet)
      BY <1>1, <1>10, FlushPending
    <3> QED BY <1>1, <1>5, <2>1, <3>1, InPlaceAppend DEF LoopInPlace, Shape
  <2>3. CASE ~r.mid /\ r.est + cost > Budget
    BY <1>3, <1>8, <2>1, <2>2, <2>3
  <2>4. CASE ~(~r.mid /\ r.est + cost > Budget)
    <3> DEFINE e == r.est + cost
               g == [r EXCEPT !.est = e, !.sEnd = cursor + 1]
    <3>5. IF g.mid /\ (g.est + TailRoom > Budget \/ done + 1 = section[at])
            THEN chunks' = Append(chunks, g) /\ open' = <<>>
            ELSE chunks' = chunks /\ open' = <<g>>
      BY <1>3, <2>1, <2>4
    <3>1. \/ chunks' = Append(chunks, g) /\ open' = <<>>
          \/ chunks' = chunks /\ open' = <<g>>
      <4> DEFINE full == g.mid /\ (g.est + TailRoom > Budget \/ done + 1 = section[at])
      <4>1. IF full THEN chunks' = Append(chunks, g) /\ open' = <<>> ELSE chunks' = chunks /\ open' = <<g>>
        BY <3>5
      <4> HIDE DEF full, g
      <4> QED BY <4>1
    <3>2. e \in Nat
      BY <2>4, CostAssumption DEF RangeSet
    <3> HIDE DEF e
    <3>3. /\ IF r.mid THEN r.pStart + 1 = at ELSE r.pEnd = at
          /\ r.sEnd = cursor /\ r.mid \in BOOLEAN /\ r.pStart \in Nat /\ r.sStart \in Nat
      BY <1>10, <2>4 DEF Pending, Reached, RangeSet
    <3>4. /\ r.first = r.pStart + 1 /\ r.cStart = r.pStart
          /\ IF r.mid
               THEN /\ r.pEnd = r.pStart /\ r.cEnd = r.first /\ r.first = at
                    /\ r.sStart >= Q[r.pStart] /\ r.firstSentence = (r.sStart - Q[r.pStart]) + 1
                    /\ r.sStart <= cursor
               ELSE /\ r.firstSentence = 0 /\ r.pStart < r.pEnd /\ r.pEnd = at /\ r.cEnd = r.pEnd
                    /\ r.sStart = Q[r.pStart]
      BY <1>2, <2>1, <3>3 DEF InPlace
    <3> QED
      BY <1>1, <1>5, <1>7, <3>1, <3>2, <3>4 DEF LoopInPlace, Shape
  <2> QED BY <2>3, <2>4
<1> QED
  BY <1>1, <1>9, <1>10 DEF Cutting

-----------------------------------------------------------------------------
(* What is stored *)

\* The ranges R cut the section sec from its start to its end.
Tiles(R, sec, Q) ==
  /\ R \in Seq(RangeSet) /\ R # <<>> /\ Linked(R)
  /\ IF sec = <<>> THEN R = <<WholeRange>>
     ELSE /\ AllInPlace(R, sec, Q)
          /\ EndParagraph(R) = Len(sec) /\ EndSentence(R) = Q[Len(sec)]

\* The stream starts Store plans for the ranges R.
StartsOf(R) == [kind \in Kinds |-> [policy \in Policies |-> StreamStarts(R, kind, policy)]]

\* Store makes rows of ranges that tile the section.
LEMMA StoreTiles ==
  ASSUME CutInv, PlaceInv, Store, NEW Q, IsPartialSums(Q, section, Len(section))
  PROVE  \E R : Tiles(R, section, Q) /\ rows' = [k \in 1..Len(R) |-> Row(R, StartsOf(R), k)]
<1>1. /\ Shape /\ Cutting /\ rows = <<>> /\ at = Len(section) /\ Len(section) \in Nat /\ ~InParagraph
      /\ section \in Seq(Nat)
  BY DEF CutInv, Store, Shape
<1>2. CASE section = <<>>
  <2> DEFINE w == WholeRange
             R == <<w>>
  <2>1. rows' = [k \in 1..Len(R) |-> Row(R, StartsOf(R), k)]
    BY <1>2 DEF Store, StartsOf
  <2>2. w \in RangeSet /\ w.mid = FALSE /\ w.pStart = 0 /\ w.sStart = 0
    BY CostAssumption DEF WholeRange, RangeSet
  <2>3. R \in Seq(RangeSet) /\ R # <<>> /\ Linked(R)
    <3> HIDE DEF w
    <3>1. R \in Seq(RangeSet) /\ R # <<>> /\ Len(R) = 1 /\ R[1] = w
      BY <2>2
    <3> QED BY <2>2, <3>1 DEF Linked
  <2>4. Tiles(R, section, Q)
    BY <1>2, <2>3 DEF Tiles
  <2> HIDE DEF R
  <2> QED BY <2>1, <2>4
<1>3. CASE section # <<>>
  <2>1. rows' = [k \in 1..Len(Ranges) |-> Row(Ranges, StartsOf(Ranges), k)]
    BY <1>3 DEF Store, StartsOf
  <2>2. cursor = Q[Len(section)] /\ LoopInPlace(Q)
    BY <1>1, BetweenParagraphs DEF PlaceInv
  <2>3. at # 0
    BY <1>1, <1>3
  <2>4. CASE open = <<>>
    <3>1. Ranges = chunks /\ chunks \in Seq(RangeSet) /\ Linked(chunks)
      BY <1>1, <2>4 DEF Ranges, Shape
    <3>2. EndParagraph(chunks) = at /\ EndSentence(chunks) = cursor
      BY <1>1, <2>4 DEF Cutting, Pending
    <3>3. chunks # <<>>
      BY <2>3, <3>2 DEF EndParagraph
    <3>4. Tiles(Ranges, section, Q)
      BY <1>1, <1>3, <2>2, <3>1, <3>2, <3>3 DEF Tiles, LoopInPlace
    <3> QED BY <2>1, <3>4
  <2>5. ASSUME NEW r \in RangeSet, Pending(r) PROVE Tiles(Ranges, section, Q)
    <3>1. /\ Ranges = Append(chunks, r) /\ Ranges \in Seq(RangeSet) /\ Ranges # <<>> /\ Linked(Ranges)
          /\ EndParagraph(Ranges) = at /\ EndSentence(Ranges) = cursor
      BY <1>1, <2>5, FlushPending
    <3>2. open = <<r>>
      BY <2>5 DEF Pending
    <3>3. InPlace(r, section, Q) /\ AllInPlace(chunks, section, Q)
      BY <2>2, <3>2, InPlaceOne DEF LoopInPlace
    <3>4. AllInPlace(Ranges, section, Q)
      BY <1>1, <3>1, <3>3, InPlaceAppend DEF Shape
    <3> QED BY <1>1, <1>3, <2>2, <3>1, <3>4 DEF Tiles
  <2> QED BY <1>1, <2>1, <2>4, <2>5 DEF Cutting
<1> QED BY <1>2, <1>3

-----------------------------------------------------------------------------
(* Where a range lies in the walk of its section *)

\* A paragraph the walk lists sentence by sentence.
Wide(units, sec, p) == units = "sentence" /\ sec[p] # 0

\* The paragraphs without sentences.
CoarseOf(sec) == {p \in 1..Len(sec) : sec[p] = 0}

\* Q counts the sentences of a section up to and with a paragraph, O the entries of its walk.
Setting(sec, units, Q, O) ==
  /\ sec \in Seq(Nat) /\ units \in Kinds
  /\ IsPartialSums(Q, sec, Len(sec))
  /\ IsPartialSums(O, Widths(units, Len(sec), sec, CoarseOf(sec)), Len(sec))

\* A section has the sums its layout is described with.
LEMMA SettingExists ==
  ASSUME NEW sec \in Seq(Nat), NEW units \in Kinds, NEW Q, IsPartialSums(Q, sec, Len(sec))
  PROVE  \E O : Setting(sec, units, Q, O)
<1>1. Len(sec) \in Nat /\ sec \in [1..Len(sec) -> Nat]
  OBVIOUS
<1>2. Widths(units, Len(sec), sec, CoarseOf(sec)) \in [1..Len(sec) -> Nat]
  BY <1>1 DEF Widths
<1>3. PICK O : IsPartialSums(O, Widths(units, Len(sec), sec, CoarseOf(sec)), Len(sec))
  BY <1>1, <1>2, PartialSumsExist
<1> QED BY <1>3 DEF Setting

\* What the sums are from one paragraph to the next, and that they never fall.
LEMMA SettingSteps ==
  ASSUME NEW sec, NEW units, NEW Q, NEW O, Setting(sec, units, Q, O)
  PROVE  /\ Len(sec) \in Nat /\ Q[0] = 0 /\ O[0] = 0
         /\ \A p \in 1..Len(sec) :
              /\ sec[p] \in Nat /\ Q[p - 1] \in Nat /\ Q[p] \in Nat /\ O[p - 1] \in Nat /\ O[p] \in Nat
              /\ Q[p] = Q[p - 1] + sec[p]
              /\ O[p] = O[p - 1] + IF Wide(units, sec, p) THEN sec[p] ELSE 1
         /\ \A x, y \in Nat : x <= y /\ y <= Len(sec) =>
              /\ Q[x] <= Q[y] /\ Q[x] \in Nat /\ Q[y] \in Nat
              /\ O[x] <= O[y] /\ O[x] \in Nat /\ O[y] \in Nat
<1> DEFINE n == Len(sec)
           w == Widths(units, n, sec, CoarseOf(sec))
<1>1. sec \in [1..n -> Nat] /\ n \in Nat /\ units \in Kinds /\ IsPartialSums(Q, sec, n) /\ IsPartialSums(O, w, n)
  BY DEF Setting
<1>2. \A p \in 1..n : w[p] = IF Wide(units, sec, p) THEN sec[p] ELSE 1
  BY <1>1 DEF Widths, CoarseOf, Wide, Kinds
<1>3. w \in [1..n -> Nat]
  BY <1>1 DEF Widths
<1> HIDE DEF n, w
<1>4. \A p \in 1..n : Q[p - 1] \in Nat /\ Q[p] \in Nat /\ Q[p] = Q[p - 1] + sec[p]
  BY <1>1, SumsStep
<1>5. \A p \in 1..n : O[p - 1] \in Nat /\ O[p] \in Nat /\ O[p] = O[p - 1] + w[p]
  BY <1>1, <1>3, SumsStep
<1>6. \A x, y \in Nat : x <= y /\ y <= n => Q[x] <= Q[y] /\ Q[x] \in Nat /\ Q[y] \in Nat
  BY <1>1, SumsGrow
<1>7. \A x, y \in Nat : x <= y /\ y <= n => O[x] <= O[y] /\ O[x] \in Nat /\ O[y] \in Nat
  BY <1>1, <1>3, SumsGrow
<1>8. Q[0] = 0 /\ O[0] = 0
  BY <1>1 DEF IsPartialSums
<1> QED BY <1>1, <1>2, <1>4, <1>5, <1>6, <1>7, <1>8 DEF n

\* How far the chunks up to and with the range r reach in the walk.
CoveredTo(r, units, sec, Q, O) ==
  O[Reached(r) - 1] + IF Wide(units, sec, Reached(r)) THEN r.sEnd - Q[Reached(r) - 1] ELSE 1

\* Where the range r starts in the walk: a mid chunk of the paragraph walk adds nothing to it.
BeginsAt(r, units, Q, O) ==
  IF ~r.mid THEN O[r.pStart]
  ELSE IF units = "sentence" THEN O[r.pStart] + (r.sStart - Q[r.pStart])
  ELSE O[r.first]

\* The paragraph a range in place reaches, and the sentences of it.
LEMMA ReachedIs ==
  ASSUME NEW sec, NEW units, NEW Q, NEW O, Setting(sec, units, Q, O),
         NEW r \in RangeSet, InPlace(r, sec, Q)
  PROVE  /\ Reached(r) \in 1..Len(sec) /\ r.sEnd \in Nat /\ r.sStart \in Nat /\ r.pStart \in Nat
         /\ Reached(r) = (IF r.mid THEN r.first ELSE r.pEnd)
         /\ r.first = r.pStart + 1 /\ r.first \in 1..Len(sec) /\ r.first <= Reached(r)
         /\ Q[Reached(r) - 1] <= r.sEnd /\ r.sEnd <= Q[Reached(r)]
         /\ r.mid => /\ sec[r.first] # 0 /\ Q[r.pStart] <= r.sStart /\ r.sStart < r.sEnd
                     /\ r.sEnd <= Q[r.first] /\ Reached(r) = r.first
<1>1. /\ r.sEnd \in Nat /\ r.sStart \in Nat /\ r.pStart \in Nat /\ r.pEnd \in Nat /\ r.mid \in BOOLEAN
      /\ r.first \in Nat
  BY DEF RangeSet
<1>2. Len(sec) \in Nat
  BY SettingSteps
<1>3. CASE ~r.mid
  BY <1>1, <1>2, <1>3 DEF InPlace, Reached
<1>4. CASE r.mid
  <2>1. /\ Reached(r) = r.first /\ r.first = r.pStart + 1 /\ r.first \in 1..Len(sec)
        /\ r.sStart >= Q[r.pStart] /\ r.sStart < r.sEnd /\ r.sEnd <= Q[r.first]
    BY <1>1, <1>2, <1>4 DEF InPlace, Reached
  <2>2. r.first - 1 = r.pStart
    BY <1>1, <2>1
  <2>3. /\ Q[r.first - 1] \in Nat /\ Q[r.first] \in Nat /\ Q[r.first] = Q[r.first - 1] + sec[r.first]
        /\ sec[r.first] \in Nat
    BY <2>1, SettingSteps
  <2>4. Q[r.first - 1] = Q[r.pStart]
    BY <2>2
  <2>5. Q[r.pStart] <= r.sStart /\ Q[r.first - 1] <= r.sEnd
    BY <1>1, <2>1, <2>3, <2>4
  <2>6. sec[r.first] # 0
    BY <1>1, <2>1, <2>3, <2>4, SMTT(40)
  <2>7. Q[Reached(r) - 1] <= r.sEnd /\ r.sEnd <= Q[Reached(r)]
    BY <2>1, <2>5
  <2>8. Reached(r) \in 1..Len(sec) /\ Reached(r) = (IF r.mid THEN r.first ELSE r.pEnd) /\ r.first <= Reached(r)
    BY <1>1, <1>4, <2>1
  <2> QED BY <1>1, <2>1, <2>5, <2>6, <2>7, <2>8
<1> QED BY <1>1, <1>3, <1>4

\* A chunk covers the walk into the last paragraph it reaches, and all of it when that is one entry.
LEMMA CoveredIs ==
  ASSUME NEW sec, NEW units, NEW Q, NEW O, Setting(sec, units, Q, O),
         NEW r \in RangeSet, InPlace(r, sec, Q)
  PROVE  /\ CoveredTo(r, units, sec, Q, O) \in Nat
         /\ O[Reached(r) - 1] <= CoveredTo(r, units, sec, Q, O)
         /\ CoveredTo(r, units, sec, Q, O) <= O[Reached(r)]
         /\ O[Reached(r)] <= O[Len(sec)] /\ O[Len(sec)] \in Nat
         /\ ~Wide(units, sec, Reached(r)) => CoveredTo(r, units, sec, Q, O) = O[Reached(r)]
<1> DEFINE p == Reached(r)
           x == CoveredTo(r, units, sec, Q, O)
<1>1. p \in 1..Len(sec) /\ r.sEnd \in Nat /\ Q[p - 1] <= r.sEnd /\ r.sEnd <= Q[p] /\ Len(sec) \in Nat
  BY ReachedIs, SettingSteps
<1>2. x = O[p - 1] + IF Wide(units, sec, p) THEN r.sEnd - Q[p - 1] ELSE 1
  BY DEF CoveredTo
<1> HIDE DEF p, x
<1>3. /\ Q[p - 1] \in Nat /\ Q[p] \in Nat /\ O[p - 1] \in Nat /\ O[p] \in Nat /\ sec[p] \in Nat
      /\ Q[p] = Q[p - 1] + sec[p]
      /\ O[p] = O[p - 1] + IF Wide(units, sec, p) THEN sec[p] ELSE 1
  BY <1>1, SettingSteps
<1>4. O[p] <= O[Len(sec)] /\ O[Len(sec)] \in Nat
  BY <1>1, SettingSteps
<1>5. x \in Nat /\ O[p - 1] <= x /\ x <= O[p] /\ (~Wide(units, sec, p) => x = O[p])
  <2>1. CASE Wide(units, sec, p)
    <3>1. x = O[p - 1] + (r.sEnd - Q[p - 1])
      BY <1>2, <2>1
    <3>2. O[p] = O[p - 1] + (Q[p] - Q[p - 1])
      BY <1>3, <2>1
    <3> DEFINE a == O[p - 1]
               b == O[p]
               f == Q[p - 1]
               l == Q[p]
               e == r.sEnd
    <3>3. /\ a \in Nat /\ f \in Nat /\ l \in Nat /\ e \in Nat /\ f <= e /\ e <= l
          /\ x = a + (e - f) /\ b = a + (l - f)
      BY <1>1, <1>3, <3>1, <3>2
    <3> HIDE DEF a, b, f, l, e
    <3>4. x \in Nat /\ a <= x /\ x <= b
      BY <3>3
    <3> QED BY <2>1, <3>4 DEF a, b
  <2>2. CASE ~Wide(units, sec, p)
    BY <1>1, <1>2, <1>3, <2>2
  <2> QED BY <2>1, <2>2
<1> QED BY <1>4, <1>5 DEF p, x

\* A range starts, in the walk, no later than it ends.
LEMMA BeginsIs ==
  ASSUME NEW sec, NEW units, NEW Q, NEW O, Setting(sec, units, Q, O),
         NEW r \in RangeSet, InPlace(r, sec, Q)
  PROVE  /\ BeginsAt(r, units, Q, O) \in Nat
         /\ BeginsAt(r, units, Q, O) <= CoveredTo(r, units, sec, Q, O)
<1>1. /\ Len(sec) \in Nat /\ r.sStart \in Nat /\ r.pStart \in Nat /\ r.first = r.pStart + 1
      /\ r.first \in 1..Len(sec) /\ r.first <= Reached(r) /\ Reached(r) \in 1..Len(sec) /\ r.sEnd \in Nat
  BY ReachedIs, SettingSteps
<1>2. /\ CoveredTo(r, units, sec, Q, O) \in Nat
      /\ O[Reached(r) - 1] <= CoveredTo(r, units, sec, Q, O)
  BY CoveredIs
<1>3. CASE ~r.mid
  <2>1. r.pStart <= Reached(r) - 1 /\ Reached(r) - 1 \in Nat /\ Reached(r) - 1 <= Len(sec)
    BY <1>1
  <2>2. O[r.pStart] <= O[Reached(r) - 1] /\ O[r.pStart] \in Nat /\ O[Reached(r) - 1] \in Nat
    BY <1>1, <2>1, SettingSteps
  <2> QED BY <1>2, <1>3, <2>2 DEF BeginsAt
<1>4. CASE r.mid
  <2>1. /\ Reached(r) = r.first /\ sec[r.first] # 0 /\ Q[r.pStart] <= r.sStart /\ r.sStart < r.sEnd
    BY <1>4, ReachedIs
  <2>2. r.first - 1 = r.pStart
    BY <1>1
  <2>3. /\ Q[r.pStart] \in Nat /\ O[r.pStart] \in Nat /\ O[r.first] \in Nat
        /\ O[r.first] = O[r.pStart] + IF Wide(units, sec, r.first) THEN sec[r.first] ELSE 1
    <3>1. /\ Q[r.first - 1] \in Nat /\ O[r.first - 1] \in Nat /\ O[r.first] \in Nat
          /\ O[r.first] = O[r.first - 1] + IF Wide(units, sec, r.first) THEN sec[r.first] ELSE 1
      BY <1>1, SettingSteps, SMTT(40)
    <3> QED BY <2>2, <3>1
  <2>4. CASE units = "sentence"
    <3>1. CoveredTo(r, units, sec, Q, O) = O[r.pStart] + (r.sEnd - Q[r.pStart])
      BY <2>1, <2>2, <2>4 DEF CoveredTo, Wide
    <3>2. BeginsAt(r, units, Q, O) = O[r.pStart] + (r.sStart - Q[r.pStart])
      BY <1>4, <2>4 DEF BeginsAt
    <3> QED BY <1>1, <2>1, <2>3, <3>1, <3>2
  <2>5. CASE units # "sentence"
    <3>1. CoveredTo(r, units, sec, Q, O) = O[r.first]
      <4>1. ~Wide(units, sec, Reached(r))
        BY <2>5 DEF Wide
      <4> QED BY <2>1, <4>1, CoveredIs
    <3> QED BY <1>4, <2>3, <2>5, <3>1 DEF BeginsAt
  <2> QED BY <2>4, <2>5
<1> QED BY <1>3, <1>4

\* A range starts where the one before it ends, and the first at the start.
LEMMA BeginsWhereCovered ==
  ASSUME NEW sec, NEW units, NEW Q, NEW O, Setting(sec, units, Q, O),
         NEW r \in RangeSet, InPlace(r, sec, Q), NEW s \in RangeSet, InPlace(s, sec, Q),
         Follows(s, r)
  PROVE  BeginsAt(s, units, Q, O) = CoveredTo(r, units, sec, Q, O)
<1> DEFINE p == Reached(r)
           x == CoveredTo(r, units, sec, Q, O)
<1>1. /\ p \in 1..Len(sec) /\ r.sEnd \in Nat /\ Len(sec) \in Nat /\ s.pStart \in Nat
      /\ s.sStart = r.sEnd /\ (IF s.mid THEN s.pStart + 1 ELSE s.pStart) = p
      /\ s.first = s.pStart + 1
  BY ReachedIs, SettingSteps DEF Follows
<1>2. x = O[p - 1] + IF Wide(units, sec, p) THEN r.sEnd - Q[p - 1] ELSE 1
  BY DEF CoveredTo
<1> HIDE DEF p, x
<1>3. /\ Q[p - 1] \in Nat /\ Q[p] \in Nat /\ O[p - 1] \in Nat /\ O[p] \in Nat /\ sec[p] \in Nat
      /\ Q[p] = Q[p - 1] + sec[p]
      /\ O[p] = O[p - 1] + IF Wide(units, sec, p) THEN sec[p] ELSE 1
  BY <1>1, SettingSteps
<1>4. CASE ~s.mid
  <2>1. s.pStart = p /\ r.sEnd = Q[p]
    <3>1. s.pStart = p /\ s.sStart = Q[s.pStart]
      BY <1>1, <1>4 DEF InPlace
    <3> QED BY <1>1, <3>1
  <2>2. x = O[p]
    <3>1. CASE Wide(units, sec, p)
      BY <1>2, <1>3, <2>1, <3>1
    <3>2. CASE ~Wide(units, sec, p)
      BY <1>2, <1>3, <3>2
    <3> QED BY <3>1, <3>2
  <2> QED BY <1>4, <2>1, <2>2 DEF BeginsAt, x
<1>5. CASE s.mid
  <2>1. s.first = p /\ p - 1 = s.pStart
    BY <1>1, <1>5
  <2>2. sec[p] # 0
    BY <1>5, <2>1, ReachedIs
  <2>3. CASE units = "sentence"
    <3>1. x = O[s.pStart] + (s.sStart - Q[s.pStart])
      BY <1>1, <1>2, <2>1, <2>2, <2>3 DEF Wide
    <3> QED BY <1>5, <2>3, <3>1 DEF BeginsAt, x
  <2>4. CASE units # "sentence"
    <3>1. x = O[p]
      BY <1>2, <1>3, <2>4 DEF Wide
    <3> QED BY <1>5, <2>1, <2>4, <3>1 DEF BeginsAt, x
  <2> QED BY <2>3, <2>4
<1> QED BY <1>4, <1>5

\* The ends of the ranges in the walk.
Ends(R, units, sec, Q, O) ==
  [k \in 0..Len(R) |-> IF k = 0 THEN 0 ELSE CoveredTo(R[k], units, sec, Q, O)]

\* The ranges cut the walk into runs, in order.
LEMMA EndsAre ==
  ASSUME NEW sec, NEW units, NEW Q, NEW O, Setting(sec, units, Q, O),
         NEW R, Tiles(R, sec, Q), sec # <<>>, NEW B, B = Ends(R, units, sec, Q, O)
  PROVE  /\ Len(R) \in Nat \ {0} /\ B[0] = 0 /\ B[Len(R)] = O[Len(sec)]
         /\ \A k \in 1..Len(R) :
              /\ B[k - 1] = BeginsAt(R[k], units, Q, O)
              /\ B[k] = CoveredTo(R[k], units, sec, Q, O)
              /\ B[k - 1] \in Nat /\ B[k] \in Nat /\ B[k - 1] <= B[k]
         /\ IsPartialSums(B, [k \in 1..Len(R) |-> B[k] - B[k - 1]], Len(R))
         /\ [k \in 1..Len(R) |-> B[k] - B[k - 1]] \in [1..Len(R) -> Nat]
<1> DEFINE m == Len(R)
           n == Len(sec)
<1>1. /\ R \in Seq(RangeSet) /\ m \in Nat \ {0} /\ Linked(R)
      /\ EndParagraph(R) = n /\ EndSentence(R) = Q[n]
      /\ \A k \in 1..m : R[k] \in RangeSet /\ InPlace(R[k], sec, Q)
  <2>1. R \in Seq(RangeSet) /\ R # <<>> /\ AllInPlace(R, sec, Q)
    BY DEF Tiles
  <2> QED BY <2>1 DEF Tiles, AllInPlace
<1>2. B[0] = 0 /\ \A k \in 1..m : B[k] = CoveredTo(R[k], units, sec, Q, O)
  BY <1>1 DEF Ends
<1>3. ASSUME NEW k \in 1..m PROVE B[k - 1] = BeginsAt(R[k], units, Q, O)
  <2>1. CASE k = 1
    <3>1. R[1].pStart = 0 /\ ~R[1].mid
      BY <1>1 DEF Linked, Tiles
    <3>2. O[0] = 0
      BY SettingSteps
    <3> QED BY <1>2, <2>1, <3>1, <3>2 DEF BeginsAt
  <2>2. CASE k # 1
    <3>1. k \in 2..m /\ k - 1 \in 1..m
      BY <1>1, <2>2
    <3>2. Follows(R[k], R[k - 1])
      BY <1>1, <3>1 DEF Linked
    <3>3. BeginsAt(R[k], units, Q, O) = CoveredTo(R[k - 1], units, sec, Q, O)
      BY <1>1, <3>1, <3>2, BeginsWhereCovered
    <3> QED BY <1>2, <3>1, <3>3
  <2> QED BY <2>1, <2>2
<1>4. ASSUME NEW k \in 1..m
      PROVE  B[k - 1] \in Nat /\ B[k] \in Nat /\ B[k - 1] <= B[k]
  BY <1>1, <1>2, <1>3, BeginsIs, CoveredIs
<1>5. B[m] = O[n]
  <2>1. Reached(R[m]) = n /\ R[m].sEnd = Q[n] /\ m \in 1..m
    BY <1>1 DEF EndParagraph, EndSentence, Tiles
  <2>2. n \in 1..n /\ B[m] = O[n - 1] + IF Wide(units, sec, n) THEN Q[n] - Q[n - 1] ELSE 1
    <3>1. Reached(R[m]) \in 1..n
      BY <1>1, <2>1, ReachedIs
    <3> QED BY <1>2, <2>1, <3>1 DEF CoveredTo
  <2>3. /\ Q[n - 1] \in Nat /\ Q[n] \in Nat /\ O[n - 1] \in Nat /\ O[n] \in Nat /\ sec[n] \in Nat
        /\ Q[n] = Q[n - 1] + sec[n]
        /\ O[n] = O[n - 1] + IF Wide(units, sec, n) THEN sec[n] ELSE 1
    BY <2>2, SettingSteps
  <2> HIDE DEF n, m
  <2>4. CASE Wide(units, sec, n)
    BY <2>2, <2>3, <2>4
  <2>5. CASE ~Wide(units, sec, n)
    BY <2>2, <2>3, <2>5
  <2> QED BY <2>4, <2>5
<1>6. B \in [0..m -> Nat]
  <2>1. \A k \in 0..m : B[k] \in Nat
    <3> TAKE k \in 0..m
    <3>1. CASE k = 0
      BY <1>2, <3>1
    <3>2. CASE k # 0
      BY <1>1, <1>4, <3>2
    <3> QED BY <3>1, <3>2
  <2>2. B = [k \in 0..m |-> IF k = 0 THEN 0 ELSE CoveredTo(R[k], units, sec, Q, O)]
    BY DEF Ends
  <2>3. B = [k \in 0..m |-> B[k]]
    BY <2>2
  <2> QED BY <2>1, <2>3
<1> DEFINE w == [k \in 1..m |-> B[k] - B[k - 1]]
<1>7. \A k \in 1..m : w[k] \in Nat /\ B[k] = B[k - 1] + w[k]
  BY <1>4
<1>8. w \in [1..m -> Nat]
  BY <1>7
<1>9. IsPartialSums(B, w, m)
  BY <1>2, <1>6, <1>7 DEF IsPartialSums
<1> QED BY <1>1, <1>2, <1>3, <1>4, <1>5, <1>8, <1>9

\* Where the sentences of a section stand in its layout, and its entries in its walk.
LEMMA SentencePlaces ==
  ASSUME NEW sec, NEW units, NEW Q, NEW O, Setting(sec, units, Q, O)
  PROVE  /\ LayoutOf(sec).sentences \in Seq(Units) /\ Len(LayoutOf(sec).sentences) = Q[Len(sec)]
         /\ \A p \in 1..Len(sec) : \A s \in 1..sec[p] :
              /\ LayoutOf(sec).sentences[Q[p - 1] + s] = Sentence(p, s)
              /\ Q[p - 1] + s \in 1..Q[Len(sec)]
         /\ \A a, b \in 1..Q[Len(sec)] :
              LayoutOf(sec).sentences[a] = LayoutOf(sec).sentences[b] => a = b
<1> DEFINE n == Len(sec)
           L == LayoutOf(sec)
           d == [i \in 1..n |-> 0]
           g == {i \in 1..n : sec[i] = 0}
<1>1. sec \in Seq(Nat) /\ IsPartialSums(Q, sec, n)
  BY DEF Setting
<1>2. IsPiece(L, 1, n, sec, d, g, Q)
  BY <1>1, LayoutPiece
<1>3. L.sentences \in Seq(Units) /\ Len(L.sentences) = Q[n]
  BY <1>2 DEF IsPiece
<1>4. ASSUME NEW p \in 1..n, NEW s \in 1..sec[p]
      PROVE  L.sentences[Q[p - 1] + s] = Sentence(p, s) /\ Q[p - 1] + s \in 1..Q[n]
  <2>1. L.sentences[Q[p - 1] + s] = Sentence((1 + p) - 1, d[p] + s)
    BY <1>2 DEF IsPiece
  <2>2. (1 + p) - 1 = p /\ d[p] + s = s
    OBVIOUS
  <2>3. L.sentences[Q[p - 1] + s] = Sentence(p, s)
    BY <2>1, <2>2
  <2>4. /\ sec[p] \in Nat /\ Q[p - 1] \in Nat /\ Q[p] \in Nat /\ Q[p] = Q[p - 1] + sec[p]
        /\ n \in Nat
    BY SettingSteps
  <2>5. Q[p] <= Q[n] /\ Q[n] \in Nat
    BY <2>4, SettingSteps
  <2>6. Q[p - 1] + s \in 1..Q[n]
    BY <2>4, <2>5
  <2> QED BY <2>3, <2>6
<1>5. \A a, b \in 1..Len(L.sentences) : L.sentences[a] = L.sentences[b] => a = b
  BY <1>1, SentencesDistinct
<1> QED BY <1>3, <1>4, <1>5

\* Where the planner's walk of a section's layout has each paragraph and sentence.
LEMMA WalkPlaces ==
  ASSUME NEW sec, NEW units, NEW Q, NEW O, Setting(sec, units, Q, O),
         NEW W, W = Walk(LayoutOf(sec), units)
  PROVE  /\ W \in Seq(Entries) /\ Len(W) = O[Len(sec)]
         /\ \A p \in 1..Len(sec) :
              IF Wide(units, sec, p)
                THEN \A s \in 1..sec[p] : W[O[p - 1] + s] = [unit |-> Sentence(p, s), eligible |-> TRUE]
                ELSE W[O[p - 1] + 1] = [unit |-> Paragraph(p), eligible |-> p \notin CoarseOf(sec)]
<1> DEFINE n == Len(sec)
           L == LayoutOf(sec)
           d == [i \in 1..n |-> 0]
           g == CoarseOf(sec)
<1>1. sec \in Seq(Nat) /\ IsPartialSums(Q, sec, n) /\ units \in Kinds /\ n \in Nat
      /\ IsPartialSums(O, Widths(units, n, sec, g), n)
  BY DEF Setting
<1>2. IsPiece(L, 1, n, sec, d, g, Q)
  BY <1>1, LayoutPiece DEF CoarseOf
<1> HIDE DEF d, g, L
<1>3. IsWalk(W, units, 1, n, sec, d, g, O)
  BY <1>1, <1>2, WalkIs DEF L
<1>4. W \in Seq(Entries) /\ Len(W) = O[n]
  BY <1>3 DEF IsWalk
<1>5. ASSUME NEW p \in 1..n
      PROVE  IF Wide(units, sec, p)
               THEN \A s \in 1..sec[p] : W[O[p - 1] + s] = [unit |-> Sentence(p, s), eligible |-> TRUE]
               ELSE W[O[p - 1] + 1] = [unit |-> Paragraph(p), eligible |-> p \notin g]
  <2>1. (1 + p) - 1 = p /\ d[p] = 0
    BY DEF d
  <2>2. p \in g <=> sec[p] = 0
    BY DEF g, CoarseOf
  <2>3. Wide(units, sec, p) <=> ~(units = "paragraph" \/ p \in g)
    BY <1>1, <2>2 DEF Wide, Kinds
  <2>4. CASE Wide(units, sec, p)
    <3>1. ASSUME NEW s \in 1..sec[p]
          PROVE  W[O[p - 1] + s] = [unit |-> Sentence(p, s), eligible |-> TRUE]
      <4>1. W[O[p - 1] + s] = [unit |-> Sentence((1 + p) - 1, d[p] + s), eligible |-> TRUE]
        BY <1>3, <2>3, <2>4 DEF IsWalk
      <4>2. d[p] + s = s
        BY <2>1
      <4> QED BY <2>1, <4>1, <4>2
    <3> QED BY <2>4, <3>1
  <2>5. CASE ~Wide(units, sec, p)
    <3>1. W[O[p - 1] + 1] = [unit |-> Paragraph((1 + p) - 1), eligible |-> p \notin g]
      BY <1>3, <2>3, <2>5 DEF IsWalk
    <3> QED BY <2>1, <2>5, <3>1
  <2> QED BY <2>4, <2>5
<1> QED BY <1>4, <1>5 DEF g

\* The paragraph an entry of the walk belongs to, and its unit.
LEMMA EntryAt ==
  ASSUME NEW sec, NEW units, NEW Q, NEW O, Setting(sec, units, Q, O),
         NEW W, W = Walk(LayoutOf(sec), units), NEW i \in 1..O[Len(sec)]
  PROVE  \E p \in 1..Len(sec) :
           \/ ~Wide(units, sec, p) /\ i = O[p - 1] + 1 /\ i = O[p] /\ W[i].unit = Paragraph(p)
           \/ /\ Wide(units, sec, p)
              /\ \E s \in 1..sec[p] : i = O[p - 1] + s /\ W[i].unit = Sentence(p, s)
<1> DEFINE n == Len(sec)
           w == Widths(units, n, sec, CoarseOf(sec))
<1>1. sec \in [1..n -> Nat] /\ n \in Nat /\ IsPartialSums(O, w, n)
  BY DEF Setting
<1>2. w \in [1..n -> Nat]
  BY <1>1 DEF Widths
<1> HIDE DEF w
<1>3. PICK p \in 1..n : O[p - 1] < i /\ i <= O[p]
  BY <1>1, <1>2, PartialSumsLocate
<1>4. /\ sec[p] \in Nat /\ O[p - 1] \in Nat /\ O[p] \in Nat /\ i \in Nat
      /\ O[p] = O[p - 1] + IF Wide(units, sec, p) THEN sec[p] ELSE 1
  BY SettingSteps
<1>5. CASE Wide(units, sec, p)
  <2>1. i - O[p - 1] \in 1..sec[p] /\ i = O[p - 1] + (i - O[p - 1])
    BY <1>3, <1>4, <1>5
  <2>4. \A s \in 1..sec[p] : W[O[p - 1] + s] = [unit |-> Sentence(p, s), eligible |-> TRUE]
    <3>1. IF Wide(units, sec, p)
            THEN \A s \in 1..sec[p] : W[O[p - 1] + s] = [unit |-> Sentence(p, s), eligible |-> TRUE]
            ELSE W[O[p - 1] + 1] = [unit |-> Paragraph(p), eligible |-> p \notin CoarseOf(sec)]
      BY WalkPlaces
    <3> QED BY <1>5, <3>1
  <2>2. W[O[p - 1] + (i - O[p - 1])] = [unit |-> Sentence(p, i - O[p - 1]), eligible |-> TRUE]
    BY <2>1, <2>4
  <2>3. W[i].unit = Sentence(p, i - O[p - 1])
    BY <2>1, <2>2
  <2> QED BY <1>5, <2>1, <2>3
<1>6. CASE ~Wide(units, sec, p)
  <2>1. i = O[p - 1] + 1 /\ i = O[p]
    BY <1>3, <1>4, <1>6
  <2>2. W[O[p - 1] + 1] = [unit |-> Paragraph(p), eligible |-> p \notin CoarseOf(sec)]
    BY <1>6, WalkPlaces
  <2>3. W[i].unit = Paragraph(p)
    BY <2>1, <2>2
  <2> QED BY <1>6, <2>1, <2>3
<1> QED BY <1>5, <1>6

\* A range holds exactly the entries of the walk it covers.
LEMMA HoldsCovered ==
  ASSUME NEW sec, NEW units, NEW Q, NEW O, Setting(sec, units, Q, O), layout = LayoutOf(sec),
         NEW r \in RangeSet, InPlace(r, sec, Q), r.sEnd <= Q[Len(sec)],
         NEW W, W = Walk(LayoutOf(sec), units), NEW i \in 1..O[Len(sec)]
  PROVE  Holds(r, W[i].unit) <=>
           BeginsAt(r, units, Q, O) < i /\ i <= CoveredTo(r, units, sec, Q, O)
<1> DEFINE n == Len(sec)
           q == Reached(r)
           a == r.pStart
           f == r.first
           t == CoveredTo(r, units, sec, Q, O)
           u == BeginsAt(r, units, Q, O)
<1>1. /\ q \in 1..n /\ a \in Nat /\ f = a + 1 /\ f \in 1..n /\ f <= q /\ f - 1 = a /\ n \in Nat
      /\ r.sEnd \in Nat /\ r.sStart \in Nat /\ q = (IF r.mid THEN f ELSE r.pEnd)
      /\ Q[q - 1] <= r.sEnd /\ r.sEnd <= Q[q]
  <2>1. /\ q \in 1..n /\ a \in Nat /\ f = a + 1 /\ f \in 1..n /\ f <= q
        /\ r.sEnd \in Nat /\ r.sStart \in Nat /\ q = (IF r.mid THEN f ELSE r.pEnd)
        /\ Q[q - 1] <= r.sEnd /\ r.sEnd <= Q[q]
    BY ReachedIs
  <2>2. n \in Nat
    BY SettingSteps
  <2> HIDE DEF n, q, a, f
  <2> QED BY <2>1, <2>2
<1>2. /\ u \in Nat /\ t \in Nat /\ u <= t /\ O[q - 1] <= t /\ t <= O[q]
      /\ (~Wide(units, sec, q) => t = O[q])
      /\ t = O[q - 1] + IF Wide(units, sec, q) THEN r.sEnd - Q[q - 1] ELSE 1
  BY BeginsIs, CoveredIs DEF CoveredTo
<1>3. ~r.mid => u = O[a] /\ r.sStart = Q[a] /\ a < r.pEnd
  BY DEF BeginsAt, InPlace
<1>4. r.mid => /\ sec[f] # 0 /\ Q[a] <= r.sStart /\ r.sStart < r.sEnd /\ q = f /\ r.pEnd = a
               /\ (units = "sentence" => u = O[a] + (r.sStart - Q[a]))
               /\ (units # "sentence" => u = t)
  <2>1. ASSUME r.mid, units # "sentence" PROVE u = t
    <3>1. u = O[f] /\ q = f
      BY <2>1, ReachedIs DEF BeginsAt
    <3>2. ~Wide(units, sec, q)
      BY <2>1 DEF Wide
    <3> QED BY <1>2, <3>1, <3>2
  <2>2. ASSUME r.mid PROVE /\ sec[f] # 0 /\ Q[a] <= r.sStart /\ r.sStart < r.sEnd /\ q = f /\ r.pEnd = a
                           /\ (units = "sentence" => u = O[a] + (r.sStart - Q[a]))
    BY <2>2, ReachedIs DEF BeginsAt, InPlace
  <2> QED BY <2>1, <2>2
<1>5. \A p \in 1..n :
        /\ sec[p] \in Nat /\ Q[p - 1] \in Nat /\ Q[p] \in Nat /\ O[p - 1] \in Nat /\ O[p] \in Nat
        /\ Q[p] = Q[p - 1] + sec[p]
        /\ O[p] = O[p - 1] + IF Wide(units, sec, p) THEN sec[p] ELSE 1
  BY SettingSteps
<1>6. \A x, y \in Nat : x <= y /\ y <= n => /\ Q[x] <= Q[y] /\ Q[x] \in Nat /\ Q[y] \in Nat
                                            /\ O[x] <= O[y] /\ O[x] \in Nat /\ O[y] \in Nat
  BY SettingSteps
<1>7. PICK p \in 1..n :
        \/ ~Wide(units, sec, p) /\ i = O[p - 1] + 1 /\ i = O[p] /\ W[i].unit = Paragraph(p)
        \/ /\ Wide(units, sec, p)
           /\ \E s \in 1..sec[p] : i = O[p - 1] + s /\ W[i].unit = Sentence(p, s)
  BY EntryAt
<1>8. p - 1 \in Nat /\ q - 1 \in Nat /\ q - 1 <= n /\ p \in Nat /\ q \in Nat /\ i \in Nat /\ p <= n /\ q <= n
      /\ p - 1 <= n /\ a <= n
  <2>1. O[n] \in Nat
    BY <1>1, <1>6
  <2> HIDE DEF n, q, a, f
  <2> QED BY <1>1, <1>7, <2>1, SMTT(40)
<1>9. layout.paragraphs = [x \in 1..n |-> x]
  BY DEF LayoutOf
<1> SUFFICES Holds(r, W[i].unit) <=> u < i /\ i <= t
  OBVIOUS
<1> HIDE DEF n, q, a, f, t, u
\* The paragraph lies before, at or after the last one the range reaches.
<1>10. /\ p < q => O[p] <= O[q - 1] /\ Q[p] <= Q[q - 1]
       /\ q < p => O[q] <= O[p - 1] /\ Q[q] <= Q[p - 1]
       /\ a < p => O[a] <= O[p - 1] /\ Q[a] <= Q[p - 1]
       /\ p <= a => O[p] <= O[a] /\ Q[p] <= Q[a]
       /\ f < p => O[f] <= O[p - 1] /\ Q[f] <= Q[p - 1]
       /\ O[a] \in Nat /\ Q[a] \in Nat /\ O[f] \in Nat /\ Q[f] \in Nat
  <2>1. p < q => p <= q - 1
    BY <1>8
  <2>2. q < p => q <= p - 1
    BY <1>8
  <2>3. a < p => a <= p - 1
    BY <1>1, <1>8
  <2>4. f < p => f <= p - 1
    BY <1>1, <1>8
  <2>5. f \in Nat /\ f <= n
    BY <1>1
  <2>6. p - 1 \in Nat /\ q - 1 \in Nat /\ a \in Nat /\ p \in Nat /\ q \in Nat
        /\ p - 1 <= n /\ q - 1 <= n /\ a <= n /\ p <= n /\ q <= n
    BY <1>1, <1>8
  <2>7. p < q => O[p] <= O[q - 1] /\ Q[p] <= Q[q - 1]
    BY <1>6, <2>1, <2>6
  <2>8. q < p => O[q] <= O[p - 1] /\ Q[q] <= Q[p - 1]
    BY <1>6, <2>2, <2>6
  <2>9. a < p => O[a] <= O[p - 1] /\ Q[a] <= Q[p - 1]
    BY <1>6, <2>3, <2>6
  <2>10. p <= a => O[p] <= O[a] /\ Q[p] <= Q[a]
    BY <1>6, <2>6
  <2>11. f < p => O[f] <= O[p - 1] /\ Q[f] <= Q[p - 1]
    BY <1>6, <2>4, <2>5, <2>6
  <2>12. O[a] \in Nat /\ Q[a] \in Nat /\ O[f] \in Nat /\ Q[f] \in Nat
    <3>1. a <= a /\ f <= f
      BY <2>5, <2>6
    <3> QED BY <1>6, <2>5, <2>6, <3>1
  <2> QED BY <2>7, <2>8, <2>9, <2>10, <2>11, <2>12
<1>11. /\ Q[q - 1] \in Nat /\ Q[q] \in Nat /\ O[q - 1] \in Nat /\ O[q] \in Nat /\ sec[p] \in Nat
       /\ Q[p - 1] \in Nat /\ Q[p] \in Nat /\ O[p - 1] \in Nat /\ O[p] \in Nat
       /\ Q[p] = Q[p - 1] + sec[p]
       /\ O[p] = O[p - 1] + IF Wide(units, sec, p) THEN sec[p] ELSE 1
  BY <1>1, <1>5, <1>7
<1>12. CASE ~Wide(units, sec, p) /\ i = O[p - 1] + 1 /\ i = O[p] /\ W[i].unit = Paragraph(p)
  <2>1. Holds(r, W[i].unit) <=> a < p /\ p <= r.pEnd
    <3>1. W[i].unit.sent = 0 /\ W[i].unit.para = p
      BY <1>12 DEF Paragraph
    <3>2. Holds(r, W[i].unit) <=> \E slot \in a + 1 .. r.pEnd : layout.paragraphs[slot] = p
      BY <3>1 DEF Holds, a
    <3>3. r.pEnd \in Nat /\ r.pEnd <= n
      <4>1. r.pEnd \in Nat
        BY DEF RangeSet
      <4>2. CASE r.mid
        BY <1>4, <1>8, <4>1, <4>2
      <4>3. CASE ~r.mid
        BY <1>1, <1>8, <4>1, <4>3
      <4> QED BY <4>1, <4>2, <4>3
    <3>4. \A slot \in a + 1 .. r.pEnd : layout.paragraphs[slot] = slot
      <4>1. \A slot \in a + 1 .. r.pEnd : slot \in 1..n
        BY <1>1, <1>8, <3>3
      <4> QED BY <1>9, <4>1
    <3> QED BY <1>1, <1>8, <3>2, <3>3, <3>4
  <2>2. CASE ~r.mid
    <3>1. r.pEnd = q /\ u = O[a]
      BY <1>1, <1>3, <2>2
    <3>2. a < p => u < i
      BY <1>10, <1>11, <1>12, <3>1
    <3>3. p <= a => ~(u < i)
      BY <1>10, <1>11, <1>12, <3>1
    <3>4. p <= q => i <= t
      <4>1. CASE p = q
        BY <1>2, <1>11, <1>12, <4>1
      <4>2. CASE p < q
        BY <1>2, <1>10, <1>11, <1>12, <4>2, SMTT(40)
      <4> QED BY <1>8, <4>1, <4>2
    <3>5. q < p => ~(i <= t)
      BY <1>2, <1>10, <1>11, <1>12
    <3> QED BY <1>1, <1>8, <2>1, <3>1, <3>2, <3>3, <3>4, <3>5
  <2>3. CASE r.mid
    <3>1. ~Holds(r, W[i].unit)
      BY <1>1, <1>4, <1>8, <2>1, <2>3
    <3>2. CASE units = "sentence"
      <4>1. u = O[a] + (r.sStart - Q[a]) /\ O[a] <= u /\ q = f
        <5>1. u = O[a] + (r.sStart - Q[a]) /\ Q[a] <= r.sStart /\ q = f
          BY <1>4, <2>3, <3>2
        <5> DEFINE x == O[a]
                   y == Q[a]
                   z == r.sStart
        <5>2. x \in Nat /\ y \in Nat /\ z \in Nat /\ y <= z /\ u = x + (z - y)
          BY <1>1, <1>10, <5>1
        <5> HIDE DEF x, y, z
        <5>3. x <= u
          BY <5>2
        <5> QED BY <5>1, <5>3 DEF x
      <4>2. p # f
        BY <1>4, <1>12, <2>3, <3>2 DEF Wide
      <4>3. CASE p <= a
        <5>2. O[p] <= O[a] /\ O[a] <= u /\ O[p] \in Nat /\ O[a] \in Nat /\ u \in Nat /\ i = O[p]
          BY <1>2, <1>10, <1>11, <1>12, <4>1, <4>3
        <5>1. ~(u < i)
          BY <5>2
        <5> QED BY <3>1, <5>1
      <4>4. CASE f < p
        <5>1. ~(i <= t)
          BY <1>2, <1>10, <1>11, <1>12, <4>1, <4>4, SMTT(40)
        <5> QED BY <3>1, <5>1
      <4> QED BY <1>1, <1>8, <4>2, <4>3, <4>4
    <3>3. CASE units # "sentence"
      <4>1. u = t
        BY <1>4, <2>3, <3>3
      <4> QED BY <1>2, <1>8, <3>1, <4>1
    <3> QED BY <3>2, <3>3
  <2> QED BY <2>2, <2>3
<1>13. ASSUME Wide(units, sec, p), NEW s \in 1..sec[p], i = O[p - 1] + s, W[i].unit = Sentence(p, s)
       PROVE  Holds(r, W[i].unit) <=> u < i /\ i <= t
  <2>1. Holds(r, W[i].unit) <=> r.sStart < Q[p - 1] + s /\ Q[p - 1] + s <= r.sEnd
    <3>1. W[i].unit.sent # 0
      BY <1>11, <1>13 DEF Sentence
    <3>2. Holds(r, W[i].unit) <=>
            \E slot \in r.sStart + 1 .. r.sEnd : layout.sentences[slot] = Sentence(p, s)
      BY <1>13, <3>1 DEF Holds
    <3>3. layout.sentences[Q[p - 1] + s] = Sentence(p, s) /\ Q[p - 1] + s \in 1..Q[n]
      BY <1>7, SentencePlaces DEF n
    <3>4. \A slot \in r.sStart + 1 .. r.sEnd : slot \in 1..Q[n]
      <4>1. r.sEnd <= Q[n] /\ Q[n] \in Nat
        BY <1>1, <1>6 DEF n
      <4> QED BY <1>1, <4>1
    <3>5. \A slot \in r.sStart + 1 .. r.sEnd :
            layout.sentences[slot] = Sentence(p, s) => slot = Q[p - 1] + s
      BY <3>3, <3>4, SentencePlaces DEF n
    <3>6. Q[p - 1] + s \in Nat
      BY <1>11, <1>13, SMTT(40)
    <3> DEFINE z == Q[p - 1] + s
               lo == r.sStart
               hi == r.sEnd
    <3>7. z \in Nat /\ lo \in Nat /\ hi \in Nat
      BY <1>1, <3>6
    <3>8. (\E slot \in lo + 1 .. hi : layout.sentences[slot] = Sentence(p, s)) <=> z \in lo + 1 .. hi
      BY <3>3, <3>5
    <3> HIDE DEF z, lo, hi
    <3>9. z \in lo + 1 .. hi <=> lo < z /\ z <= hi
      BY <3>7
    <3> QED BY <3>2, <3>8, <3>9 DEF z, lo, hi
  <2>2. units = "sentence"
    BY <1>13 DEF Wide
  <2>3. u = O[a] + (r.sStart - Q[a]) /\ Q[a] <= r.sStart
    <3>1. CASE r.mid
      BY <1>4, <2>2, <3>1
    <3>2. CASE ~r.mid
      <4> DEFINE x == O[a]
                 y == Q[a]
      <4>1. u = x /\ r.sStart = y /\ x \in Nat /\ y \in Nat
        BY <1>3, <1>10, <3>2
      <4> HIDE DEF x, y
      <4>2. u = x + (r.sStart - y) /\ y <= r.sStart
        BY <4>1
      <4> QED BY <4>2 DEF x, y
    <3> QED BY <3>1, <3>2
  <2> DEFINE x == O[a]
             y == Q[a]
             z == r.sStart
             e == r.sEnd
             j == O[p - 1]
             k == Q[p - 1]
             b == O[q - 1]
             c == Q[q - 1]
             v == sec[p]
  <2>4. /\ x \in Nat /\ y \in Nat /\ z \in Nat /\ e \in Nat /\ j \in Nat /\ k \in Nat /\ b \in Nat
        /\ c \in Nat /\ v \in Nat /\ s \in Nat /\ s >= 1 /\ s <= v
        /\ i = j + s /\ u = x + (z - y) /\ y <= z /\ Q[p] = k + v /\ O[p] = j + v
        /\ c <= e /\ e <= Q[q] /\ b <= t /\ t <= O[q] /\ O[q] \in Nat /\ Q[q] \in Nat
        /\ u <= t /\ t \in Nat /\ u \in Nat /\ i \in Nat
    BY <1>1, <1>2, <1>8, <1>10, <1>11, <1>13, <2>3
  <2>5. a < p /\ a # p - 1 => z <= k /\ u <= j
    <3> SUFFICES ASSUME a < p, a # p - 1 PROVE z <= k /\ u <= j
      OBVIOUS
    <3>1. x <= j /\ y <= k
      BY <1>10
    <3>2. f < p
      BY <1>1, <1>8
    <3>3. CASE ~r.mid
      BY <1>3, <3>1, <3>3
    <3>4. CASE r.mid
      <4>1. O[f] <= j /\ Q[f] <= k /\ q = f /\ z < e
        BY <1>4, <1>10, <3>2, <3>4
      <4>2. Q[q] <= k /\ O[q] <= j
        BY <4>1
      <4> HIDE DEF x, y, z, e, j, k, b, c, v
      <4> QED BY <2>4, <4>1, <4>2
    <3> QED BY <3>3, <3>4
  <2>6. /\ a = p - 1 => x = j /\ y = k
        /\ p <= a => k + v <= y /\ j + v <= x
        /\ p = q => b = j /\ c = k /\ t = j + (e - k)
        /\ p < q => j + v <= b /\ k + v <= c
        /\ q < p => O[q] <= j /\ Q[q] <= k
    <3>1. p = q => t = O[p - 1] + (r.sEnd - Q[p - 1])
      BY <1>2, <1>13
    <3> QED BY <1>10, <2>4, <3>1
  <2> HIDE DEF x, y, z, e, j, k, b, c, v
  <2>7. z < k + s <=> u < i
    <3>1. CASE p <= a
      BY <2>4, <2>6, <3>1
    <3>2. CASE a = p - 1
      BY <2>4, <2>6, <3>2
    <3>3. CASE a < p /\ a # p - 1
      BY <2>4, <2>5, <3>3
    <3> QED BY <1>1, <1>8, <3>1, <3>2, <3>3
  <2>8. k + s <= e <=> i <= t
    <3>1. CASE p = q
      BY <2>4, <2>6, <3>1
    <3>2. CASE p < q
      BY <2>4, <2>6, <3>2
    <3>3. CASE q < p
      BY <2>4, <2>6, <3>3
    <3> QED BY <1>8, <3>1, <3>2, <3>3
  <2> QED BY <2>1, <2>7, <2>8 DEF z, e, k
<1> QED BY <1>7, <1>12, <1>13

-----------------------------------------------------------------------------
(* The chunk of every entry *)

\* What the fold of Owners carries.
OwnerAcc == [from : Nat, owner : Seq(Nat)]

\* What the next entry of the walk adds to the fold of Owners.
OwnerStep(ranges, acc, entry) ==
  LET holders == {k \in acc.from..Len(ranges) : Holds(ranges[k], entry.unit)}
      k == IF holders = {} THEN Len(ranges) + 1 ELSE Min(holders)
  IN  [from |-> k, owner |-> Append(acc.owner, k)]

\* f is the fold of Owners over the first n entries of W, as the folds of the library compute it.
FoldsOwners(f, ranges, W, n) ==
  f = [s \in SUBSET (1..n) |-> IF s = {} THEN [from |-> 1, owner |-> <<>>]
                               ELSE OwnerStep(ranges, f[s \ {Max(s)}], W[Max(s)])]

\* A step of the fold keeps its type.
LEMMA OwnerStepTyped ==
  ASSUME NEW ranges \in Seq(RangeSet), NEW acc \in OwnerAcc, NEW entry
  PROVE  OwnerStep(ranges, acc, entry) \in OwnerAcc
<1> DEFINE holders == {k \in acc.from..Len(ranges) : Holds(ranges[k], entry.unit)}
           k == IF holders = {} THEN Len(ranges) + 1 ELSE Min(holders)
<1>1. OwnerStep(ranges, acc, entry) = [from |-> k, owner |-> Append(acc.owner, k)]
  BY DEF OwnerStep
<1>2. holders \subseteq Nat /\ Len(ranges) + 1 \in Nat
  <2>1. acc.from \in Nat /\ Len(ranges) \in Nat
    BY DEF OwnerAcc
  <2> QED BY <2>1
<1> HIDE DEF holders
<1>3. k \in Nat
  BY <1>2, MinOf
<1>4. acc.owner \in Seq(Nat)
  BY DEF OwnerAcc
<1> HIDE DEF k
<1> QED BY <1>1, <1>3, <1>4 DEF OwnerAcc

\* There is such a fold.
LEMMA FoldsOwnersExists ==
  ASSUME NEW ranges \in Seq(RangeSet), NEW W, NEW n \in Nat
  PROVE  \E f : FoldsOwners(f, ranges, W, n)
<1> DEFINE g == [x \in OwnerAcc \X (1..n) |-> OwnerStep(ranges, x[1], W[x[2]])]
           base == [from |-> 1, owner |-> <<>>]
<1>1. base \in OwnerAcc
  BY DEF OwnerAcc
<1>2. g \in [OwnerAcc \X (1..n) -> OwnerAcc]
  BY OwnerStepTyped
<1>3. PICK f : IsFold(f, n, OwnerAcc, base, g)
  <2> HIDE DEF g, base
  <2> QED BY <1>1, <1>2, FoldExists, Zenon
<1>4. ASSUME NEW s \in SUBSET (1..n)
      PROVE  f[s] = IF s = {} THEN base ELSE OwnerStep(ranges, f[s \ {Max(s)}], W[Max(s)])
  <2>1. CASE s = {}
    BY <2>1, <1>3 DEF IsFold
  <2>2. CASE s # {}
    <3>1. Max(s) \in s
      <4>1. s \subseteq 0..n
        OBVIOUS
      <4> QED
        BY <4>1, <2>2, MaxOf
    <3>2. s \ {Max(s)} \in SUBSET (1..n)
      OBVIOUS
    <3>3. <<f[s \ {Max(s)}], Max(s)>> \in OwnerAcc \X (1..n)
      BY <1>3, <3>1, <3>2 DEF IsFold
    <3>4. f[s] = g[<<f[s \ {Max(s)}], Max(s)>>]
      BY <1>3, <2>2 DEF IsFold
    <3> QED
      BY <2>2, <3>3, <3>4
  <2> QED
    BY <2>1, <2>2
<1>5. FoldsOwners(f, ranges, W, n)
  BY <1>3, <1>4 DEF FoldsOwners, IsFold
<1> QED
  BY <1>5

\* Each of the first k entries has the chunk whose run of the walk it lies in.
OwnersTo(owner, B, m, k) ==
  /\ owner \in Seq(Nat) /\ Len(owner) = k
  /\ \A i \in 1..k : owner[i] \in 1..m /\ B[owner[i] - 1] < i /\ i <= B[owner[i]]

\* Runs do not overlap.
LEMMA RunsApart ==
  ASSUME NEW m \in Nat, NEW w \in [1..m -> Nat], NEW B, IsPartialSums(B, w, m)
  PROVE  \A x, y \in 1..m : \A i, j \in Nat : i <= j /\ B[x - 1] < i /\ j <= B[y] => x <= y
<1> SUFFICES ASSUME NEW x \in 1..m, NEW y \in 1..m, NEW i \in Nat, NEW j \in Nat,
                    i <= j, B[x - 1] < i, j <= B[y]
             PROVE  x <= y
  OBVIOUS
<1>1. /\ B[x - 1] \in Nat /\ B[y] \in Nat
  BY SumsStep
<1>2. CASE y < x
  <2>1. y <= x - 1 /\ x - 1 \in Nat /\ x - 1 <= m /\ y \in Nat
    BY <1>2
  <2>2. B[y] <= B[x - 1]
    BY <2>1, SumsGrow
  <2> QED BY <1>1, <2>2
<1> QED BY <1>2

\* plan_chunk_starts gives every chunk the entries from where it begins to where the next begins.
LEMMA OwnersAre ==
  ASSUME NEW sec, NEW units, NEW Q, NEW O, Setting(sec, units, Q, O), layout = LayoutOf(sec),
         NEW R, Tiles(R, sec, Q), sec # <<>>, NEW B, B = Ends(R, units, sec, Q, O)
  PROVE  OwnersTo(Owners(R, units), B, Len(R), O[Len(sec)])
<1> DEFINE W == Walk(layout, units)
           n == O[Len(sec)]
           m == Len(R)
           w == [k \in 1..m |-> B[k] - B[k - 1]]
           IsFoldOfList(f) ==
             f = [s \in SUBSET DOMAIN W |-> IF s = {} THEN [from |-> 1, owner |-> <<>>]
                                            ELSE OwnerStep(R, f[s \ {Max(s)}], W[Max(s)])]
           c == CHOOSE f : IsFoldOfList(f)
<1>1. Owners(R, units) = c[DOMAIN W].owner
  BY DEF Owners, FoldLeft, MapThenFoldSet, OwnerStep
<1>2. W \in Seq(Entries) /\ Len(W) = n /\ DOMAIN W = 1..n /\ n \in Nat
  <2>1. Walk(LayoutOf(sec), units) \in Seq(Entries) /\ Len(Walk(LayoutOf(sec), units)) = O[Len(sec)]
    BY WalkPlaces
  <2>2. W \in Seq(Entries) /\ Len(W) = n
    BY <2>1
  <2> HIDE DEF W, n
  <2> QED BY <2>2
<1>3. R \in Seq(RangeSet) /\ m \in Nat
  BY DEF Tiles
<1> HIDE DEF W
<1>4. FoldsOwners(c, R, W, n)
  <2>1. \A f : IsFoldOfList(f) <=> FoldsOwners(f, R, W, n)
    BY <1>2 DEF FoldsOwners
  <2>2. \E f : FoldsOwners(f, R, W, n)
    BY <1>2, <1>3, FoldsOwnersExists
  <2>3. \E f : IsFoldOfList(f)
    <3> HIDE DEF IsFoldOfList
    <3> QED BY <2>1, <2>2
  <2>4. IsFoldOfList(c)
    <3> HIDE DEF IsFoldOfList
    <3> QED BY <2>3
  <2> HIDE DEF IsFoldOfList, c
  <2> QED BY <2>1, <2>4
<1> HIDE DEF c
<1>5. /\ B[0] = 0 /\ B[m] = n /\ IsPartialSums(B, w, m) /\ w \in [1..m -> Nat]
      /\ \A k \in 1..m : /\ B[k - 1] = BeginsAt(R[k], units, Q, O)
                         /\ B[k] = CoveredTo(R[k], units, sec, Q, O)
  BY EndsAre
<1>6. \A k \in 1..m : R[k] \in RangeSet /\ InPlace(R[k], sec, Q) /\ R[k].sEnd <= Q[Len(sec)]
  <2> TAKE k \in 1..m
  <2>1. R[k] \in RangeSet /\ InPlace(R[k], sec, Q)
    BY DEF Tiles, AllInPlace
  <2>2. Reached(R[k]) \in 1..Len(sec) /\ R[k].sEnd <= Q[Reached(R[k])] /\ R[k].sEnd \in Nat
    BY <2>1, ReachedIs
  <2>3. Q[Reached(R[k])] <= Q[Len(sec)] /\ Q[Reached(R[k])] \in Nat /\ Q[Len(sec)] \in Nat
    BY <2>2, SettingSteps
  <2>4. R[k].sEnd <= Q[Len(sec)]
    BY <2>2, <2>3
  <2> QED BY <2>1, <2>4
<1>7. ASSUME NEW k \in 1..m, NEW i \in 1..n
      PROVE  Holds(R[k], W[i].unit) <=> B[k - 1] < i /\ i <= B[k]
  <2>1. Holds(R[k], W[i].unit) <=>
          BeginsAt(R[k], units, Q, O) < i /\ i <= CoveredTo(R[k], units, sec, Q, O)
    BY <1>6, HoldsCovered DEF W
  <2> QED BY <1>5, <2>1
<1> HIDE DEF w, n, m
<1>8. \A k \in 0..m : B[k] \in Nat
  BY <1>5 DEF IsPartialSums
<1>13. \A x, y \in 1..m : \A i, j \in Nat : i <= j /\ B[x - 1] < i /\ j <= B[y] => x <= y
  <2>1. IsPartialSums(B, w, m) /\ w \in [1..m -> Nat] /\ m \in Nat
    BY <1>3, <1>5
  <2> QED BY <2>1, RunsApart, SMTT(30) DEF m
<1> DEFINE Fine(a, k) == /\ a \in OwnerAcc /\ OwnersTo(a.owner, B, m, k)
                         /\ a.from = IF k = 0 THEN 1 ELSE a.owner[k]
           T == {k \in 0..n : Fine(c[1..k], k)}
<1>9. 0 \in T
  <2>1. 1..0 = {} /\ {} \in SUBSET (1..n)
    OBVIOUS
  <2>2. c[1..0] = [from |-> 1, owner |-> <<>>]
    BY <1>4, <2>1 DEF FoldsOwners
  <2>3. Fine([from |-> 1, owner |-> <<>>], 0)
    BY DEF OwnerAcc, OwnersTo
  <2> HIDE DEF Fine
  <2> QED BY <1>2, <2>2, <2>3
<1>10. ASSUME NEW k \in 0..n, k < n, k \in T PROVE k + 1 \in T
  <2> DEFINE a == c[1..k]
             i == k + 1
             from == a.from
             holders == {j \in from..m : Holds(R[j], W[i].unit)}
  <2>1. /\ 1..k + 1 \in SUBSET (1..n) /\ 1..k + 1 # {} /\ Max(1..k + 1) = k + 1
        /\ (1..k + 1) \ {k + 1} = 1..k /\ i \in 1..n /\ k \in Nat
    <3>1. k + 1 \in 1..n /\ k + 1 \in 1..k + 1 /\ k \in Nat
      BY <1>2, <1>10
    <3>2. \A j \in 1..k + 1 : j \in 1..n
      BY <1>2, <3>1
    <3>3. Max(1..k + 1) = k + 1
      BY <3>1, MaxOfInterval
    <3>4. (1..k + 1) \ {k + 1} = 1..k
      BY <3>1
    <3> QED BY <3>1, <3>2, <3>3, <3>4
  <2>2. c[1..i] = OwnerStep(R, a, W[i])
    <3>1. c[1..k + 1] = OwnerStep(R, c[(1..k + 1) \ {Max(1..k + 1)}], W[Max(1..k + 1)])
      BY <1>4, <2>1 DEF FoldsOwners
    <3> QED BY <2>1, <3>1
  <2>3. Fine(a, k)
    BY <1>10
  <2> HIDE DEF a
  <2>4. /\ a.owner \in Seq(Nat) /\ Len(a.owner) = k /\ from \in Nat
        /\ \A j \in 1..k : a.owner[j] \in 1..m /\ B[a.owner[j] - 1] < j /\ j <= B[a.owner[j]]
        /\ from = IF k = 0 THEN 1 ELSE a.owner[k]
    BY <2>3 DEF OwnersTo, OwnerAcc
  <2>5. PICK K \in 1..m : B[K - 1] < i /\ i <= B[K]
    <3>1. i \in 1..B[m]
      BY <1>5, <2>1
    <3> QED BY <1>3, <1>5, <3>1, PartialSumsLocate DEF m
  <2>6. from <= K
    <3>1. CASE k = 0
      BY <1>3, <2>4, <3>1 DEF m
    <3>2. CASE k # 0
      <4>1. k \in 1..k /\ k \in Nat /\ i \in Nat /\ k <= i
        BY <2>1, <3>2
      <4>2. from \in 1..m /\ B[from - 1] < k
        BY <2>4, <3>2, <4>1
      <4> HIDE DEF i, from
      <4> QED BY <1>13, <2>5, <4>1, <4>2
    <3> QED BY <3>1, <3>2
  <2>7. holders = {K}
    <3>1. K \in holders
      <4>1. K \in from..m
        BY <1>3, <2>4, <2>6 DEF m
      <4> QED BY <1>7, <2>1, <2>5, <4>1
    <3>2. ASSUME NEW j \in holders PROVE j = K
      <4>1. j \in 1..m
        <5>1. from >= 1
          <6>1. k # 0 => k \in 1..k
            BY <2>1
          <6> QED BY <2>4, <6>1
        <5> QED BY <1>3, <2>4, <3>2, <5>1 DEF m
      <4>2. B[j - 1] < i /\ i <= B[j]
        BY <1>7, <2>1, <3>2, <4>1
      <4>3. i \in Nat /\ i <= i
        BY <2>1
      <4> HIDE DEF i, from
      <4>4. j <= K /\ K <= j
        BY <1>13, <2>5, <4>1, <4>2, <4>3
      <4> QED BY <1>3, <4>1, <4>4 DEF m
    <3> QED BY <3>1, <3>2
  <2>8. Min({K}) = K
    <3>1. {K} \subseteq Nat /\ {K} # {}
      BY <1>3 DEF m
    <3>2. Min({K}) \in {K}
      BY <3>1, MinOf
    <3> QED BY <3>2
  <2>9. c[1..i] = [from |-> K, owner |-> Append(a.owner, K)]
    <3>1. OwnerStep(R, a, W[i]) = LET j == IF holders = {} THEN Len(R) + 1 ELSE Min(holders)
                                  IN  [from |-> j, owner |-> Append(a.owner, j)]
      BY DEF OwnerStep, m
    <3> HIDE DEF holders
    <3> QED BY <2>2, <2>7, <2>8, <3>1
  <2>10. Fine([from |-> K, owner |-> Append(a.owner, K)], i)
    <3> DEFINE ow == Append(a.owner, K)
    <3>1. /\ ow \in Seq(Nat) /\ Len(ow) = k + 1 /\ ow[k + 1] = K
          /\ \A j \in 1..k : ow[j] = a.owner[j]
      BY <1>3, <2>1, <2>4 DEF m
    <3> HIDE DEF ow
    <3>2. \A j \in 1..k + 1 : j \in 1..k \/ j = k + 1
      BY <2>1
    <3>3. OwnersTo(ow, B, m, k + 1)
      BY <2>4, <2>5, <3>1, <3>2 DEF OwnersTo
    <3>4. [from |-> K, owner |-> ow] \in OwnerAcc
      BY <1>3, <3>1 DEF OwnerAcc, m
    <3> QED BY <2>1, <3>1, <3>3, <3>4 DEF ow
  <2> HIDE DEF Fine
  <2> QED BY <2>1, <2>9, <2>10
<1> HIDE DEF T
<1>11. n \in T
  BY <1>2, <1>9, <1>10, BoundedInduction
<1>12. OwnersTo(c[1..n].owner, B, m, n)
  BY <1>11 DEF T
<1> QED BY <1>1, <1>2, <1>12 DEF m, n

\* The count of the chosen ones is their number.
LEMMA CountsCardinality ==
  ASSUME NEW n \in Nat, NEW chosen, NEW C, Counts(C, chosen, n), NEW j \in 0..n
  PROVE  Cardinality({i \in 1..j : i \in chosen}) = C[j]
<1> DEFINE F(k) == {i \in 1..k : i \in chosen}
           T == {k \in 0..n : IsFiniteSet(F(k)) /\ Cardinality(F(k)) = C[k]}
<1>1. 0 \in T
  <2>1. F(0) = {}
    OBVIOUS
  <2> HIDE DEF F
  <2>2. IsFiniteSet(F(0)) /\ Cardinality(F(0)) = 0
    BY <2>1, FS_EmptySet
  <2>3. C[0] = 0
    BY DEF Counts
  <2> QED BY <2>2, <2>3
<1>2. ASSUME NEW k \in 0..n, k < n, k \in T PROVE k + 1 \in T
  <2>1. k \in Nat /\ k + 1 \in 1..n /\ (k + 1) - 1 = k /\ k + 1 \in 0..n
    BY <1>2
  <2>2. C[k + 1] = C[k] + IF k + 1 \in chosen THEN 1 ELSE 0
    BY <2>1 DEF Counts
  <2>3. IsFiniteSet(F(k)) /\ Cardinality(F(k)) = C[k] /\ C[k] \in Nat
    BY <1>2, <2>1 DEF Counts
  <2>4. CASE k + 1 \in chosen
    <3>1. F(k + 1) = F(k) \cup {k + 1} /\ k + 1 \notin F(k)
      BY <2>1, <2>4
    <3> HIDE DEF F
    <3>2. IsFiniteSet(F(k + 1)) /\ Cardinality(F(k + 1)) = Cardinality(F(k)) + 1
      BY <2>3, <3>1, FS_AddElement
    <3> QED BY <2>1, <2>2, <2>3, <2>4, <3>2
  <2>5. CASE k + 1 \notin chosen
    <3>1. F(k + 1) = F(k)
      BY <2>1, <2>5
    <3> HIDE DEF F
    <3> QED BY <2>1, <2>2, <2>3, <2>5, <3>1
  <2> QED BY <2>4, <2>5
<1> HIDE DEF T
<1>3. j \in T
  BY <1>1, <1>2, BoundedInduction
<1> QED BY <1>3 DEF T

\* A chunk starts, in a stream, where the entries of the chunks before it end.
LEMMA StartsAre ==
  ASSUME NEW sec, NEW units, NEW Q, NEW O, Setting(sec, units, Q, O), layout = LayoutOf(sec),
         NEW R, Tiles(R, sec, Q), sec # <<>>, NEW policy, NEW C,
         Counts(C, KeptSet(Walk(LayoutOf(sec), units), policy), O[Len(sec)]),
         NEW k \in 1..Len(R)
  PROVE  StreamStarts(R, units, policy)[k] = C[Ends(R, units, sec, Q, O)[k - 1]]
<1> DEFINE B == Ends(R, units, sec, Q, O)
           m == Len(R)
           n == O[Len(sec)]
           W == Walk(layout, units)
           counted == {i \in 1..Len(W) : policy = "preserve_source" \/ W[i].eligible}
           owner == Owners(R, units)
           w == [x \in 1..m |-> B[x] - B[x - 1]]
<1>1. StreamStarts(R, units, policy)[k] = Cardinality({i \in counted : owner[i] < k})
  BY DEF StreamStarts
<1>2. counted = KeptSet(W, policy) /\ W = Walk(LayoutOf(sec), units)
  BY DEF KeptSet
<1>3. Len(W) = n /\ n \in Nat
  <2>1. Len(Walk(LayoutOf(sec), units)) = n
    BY WalkPlaces
  <2>2. Walk(LayoutOf(sec), units) \in Seq(Entries)
    BY WalkPlaces
  <2> HIDE DEF n
  <2> QED BY <2>1, <2>2
<1>4. OwnersTo(owner, B, m, n)
  BY OwnersAre
<1>5. /\ B[0] = 0 /\ B[m] = n /\ IsPartialSums(B, w, m) /\ w \in [1..m -> Nat] /\ m \in Nat
      /\ B[k - 1] \in Nat
  BY EndsAre
<1>6. \A x, y \in 1..m : \A i, j \in Nat : i <= j /\ B[x - 1] < i /\ j <= B[y] => x <= y
  <2> HIDE DEF B, w
  <2> QED BY <1>5, RunsApart DEF m
<1>7. B[k - 1] \in 0..n
  <2>1. k - 1 \in Nat /\ k - 1 <= m /\ m \in Nat
    BY <1>5
  <2>2. B[k - 1] <= B[m]
    <3> HIDE DEF B, w
    <3> QED BY <1>5, <2>1, SumsGrow DEF m
  <2> HIDE DEF B, m, n
  <2> QED BY <1>3, <1>5, <2>2
<1>8. counted \subseteq 1..n
  BY <1>3
<1> HIDE DEF B, owner, counted, n, w
<1>9. ASSUME NEW i \in 1..n PROVE owner[i] < k <=> i <= B[k - 1]
  <2>1. owner[i] \in 1..m /\ B[owner[i] - 1] < i /\ i <= B[owner[i]]
    BY <1>4 DEF OwnersTo
  <2>2. i \in Nat
    BY <1>3
  <2>3. CASE i <= B[k - 1]
    <3>1. k # 1
      BY <1>5, <2>2, <2>3
    <3>2. k - 1 \in 1..m
      BY <1>5, <3>1
    <3>3. owner[i] <= k - 1
      BY <1>6, <2>1, <2>2, <2>3, <3>2
    <3> QED BY <1>5, <2>1, <2>3, <3>3
  <2>4. CASE ~(i <= B[k - 1])
    <3>1. B[k - 1] < i
      BY <1>5, <2>2, <2>4
    <3>2. k <= owner[i]
      BY <1>6, <2>1, <2>2, <3>1
    <3> QED BY <1>5, <2>1, <2>4, <3>2
  <2> QED BY <2>3, <2>4
<1>10. {i \in counted : owner[i] < k} = {i \in 1..B[k - 1] : i \in counted}
  <2>1. ASSUME NEW i \in counted, owner[i] < k PROVE i \in 1..B[k - 1]
    BY <1>5, <1>8, <1>9, <2>1
  <2>2. ASSUME NEW i \in 1..B[k - 1], i \in counted PROVE owner[i] < k
    <3>1. i \in 1..n /\ i <= B[k - 1]
      BY <1>5, <1>8, <2>2
    <3> QED BY <1>9, <3>1
  <2> QED BY <2>1, <2>2
<1>11. Cardinality({i \in 1..B[k - 1] : i \in counted}) = C[B[k - 1]]
  <2>1. Counts(C, counted, n)
    BY <1>2 DEF n
  <2> QED BY <1>3, <1>7, <2>1, CountsCardinality
<1> QED BY <1>1, <1>10, <1>11 DEF B

-----------------------------------------------------------------------------
(* What a row holds *)

\* The paragraphs of a chunk's blob, the sentences of each, those of it in the chunks before, the
\* sentences up to and with each, and the coarse ones.
PieceCount(r) == Reached(r) - r.pStart

\* The sentences of a chunk up to and with each of its paragraphs.
PieceEnds(r, Q) ==
  [i \in 0..PieceCount(r) |->
     IF i = 0 THEN 0
     ELSE (IF i = PieceCount(r) THEN r.sEnd ELSE Q[r.pStart + i]) - r.sStart]

\* The sentences of each of its paragraphs.
PieceCounts(r, Q) == [i \in 1..PieceCount(r) |-> PieceEnds(r, Q)[i] - PieceEnds(r, Q)[i - 1]]

\* Those of each paragraph in the chunks before.
PieceSkips(r, Q) == [i \in 1..PieceCount(r) |-> IF i = 1 THEN r.sStart - Q[r.pStart] ELSE 0]

\* Its coarse paragraphs.
PieceCoarse(r, sec) == {i \in 1..PieceCount(r) : sec[r.pStart + i] = 0}

\* The range r with the names of its parts.
PieceAt(sec, Q, r, m, a, S, c, d) ==
  /\ m = PieceCount(r) /\ a = r.pStart
  /\ S = PieceEnds(r, Q) /\ c = PieceCounts(r, Q) /\ d = PieceSkips(r, Q)

\* What the paragraphs of a chunk hold of the section.
LEMMA PieceFacts ==
  ASSUME NEW sec, NEW units, NEW Q, NEW O, Setting(sec, units, Q, O),
         NEW r \in RangeSet, InPlace(r, sec, Q),
         NEW m, NEW a, NEW S, NEW c, NEW d, PieceAt(sec, Q, r, m, a, S, c, d)
  PROVE  /\ m \in Nat \ {0} /\ a \in Nat /\ a + m = Reached(r) /\ a + m <= Len(sec)
         /\ r.sStart \in Nat /\ r.sEnd \in Nat /\ r.first = a + 1
         /\ (r.mid => m = 1)
         /\ (~r.mid => r.pEnd = a + m /\ r.sStart = Q[a])
         /\ r.cStart = a /\ r.cEnd = a + m
         /\ c \in [1..m -> Nat] /\ d \in [1..m -> Nat] /\ IsPartialSums(S, c, m)
         /\ S[m] = r.sEnd - r.sStart
         /\ \A i \in 1..m : /\ a + i \in 1..Len(sec)
                            /\ d[i] + c[i] <= sec[a + i]
                            /\ Q[(a + i) - 1] + d[i] = r.sStart + S[i - 1]
                            /\ S[i - 1] \in Nat /\ S[i] \in Nat /\ S[i] = S[i - 1] + c[i]
                            /\ (i < m => d[i] + c[i] = sec[a + i])
                            /\ (i > 1 => d[i] = 0)
<1> DEFINE q == Reached(r)
           z == r.sStart
           e == r.sEnd
           n == Len(sec)
           E == [i \in 0..m |-> IF i = 0 THEN z ELSE IF i = m THEN e ELSE Q[a + i]]
<1>1. /\ q \in 1..n /\ e \in Nat /\ z \in Nat /\ a \in Nat /\ r.first = a + 1 /\ a + 1 <= q
      /\ Q[q - 1] <= e /\ e <= Q[q] /\ n \in Nat
      /\ q = (IF r.mid THEN a + 1 ELSE r.pEnd)
      /\ (r.mid => Q[a] <= z /\ z < e)
  BY ReachedIs, SettingSteps DEF PieceAt
<1>2. (~r.mid => z = Q[a] /\ r.cEnd = r.pEnd) /\ (r.mid => r.cEnd = r.first) /\ r.cStart = a
  BY DEF InPlace, PieceAt
<1>3. m = q - a
  BY DEF PieceAt, PieceCount
<1>4. /\ m \in Nat \ {0} /\ a + m = q /\ a + m <= n /\ (r.mid => m = 1)
      /\ (~r.mid => r.pEnd = a + m) /\ r.cEnd = a + m
  <2> HIDE DEF q, z, e, n
  <2>1. m \in Nat \ {0} /\ a + m = q /\ a + m <= n
    BY <1>1, <1>3
  <2>2. (r.mid => m = 1) /\ (~r.mid => r.pEnd = a + m) /\ r.cEnd = a + m
    BY <1>1, <1>2, <1>3, <2>1
  <2> QED BY <2>1, <2>2
<1>5. \A x, y \in Nat : x <= y /\ y <= n => Q[x] <= Q[y] /\ Q[x] \in Nat /\ Q[y] \in Nat
  BY SettingSteps
<1>6. \A p \in 1..n : /\ sec[p] \in Nat /\ Q[p - 1] \in Nat /\ Q[p] \in Nat
                      /\ Q[p] = Q[p - 1] + sec[p]
  BY SettingSteps
<1> HIDE DEF q, z, e, n
<1>7. Q[a] \in Nat /\ Q[a] <= z /\ z <= e /\ (m > 1 => z = Q[a])
  <2>1. Q[a] \in Nat /\ Q[q - 1] \in Nat /\ Q[a] <= Q[q - 1]
    <3>1. a <= q - 1 /\ q - 1 \in Nat /\ q - 1 <= n
      BY <1>1
    <3> QED BY <1>1, <1>5, <3>1
  <2>2. CASE r.mid
    BY <1>1, <1>4, <2>1, <2>2
  <2>3. CASE ~r.mid
    BY <1>1, <1>2, <2>1, <2>3
  <2> QED BY <2>2, <2>3
<1>8. /\ E[0] = z /\ E[m] = e
      /\ \A i \in 1..m : i < m => E[i] = Q[a + i]
  BY <1>4
<1>9. DOMAIN E = 0..m
  OBVIOUS
<1> HIDE DEF E
\* The entries of E grow, each to the end of its paragraph but for the last.
<1>10. ASSUME NEW i \in 1..m
       PROVE  /\ a + i \in 1..n /\ E[i] \in Nat /\ E[i - 1] \in Nat /\ E[i - 1] <= E[i]
              /\ E[i] <= Q[a + i] /\ z <= E[i - 1]
              /\ Q[(a + i) - 1] + d[i] = E[i - 1] /\ d[i] \in Nat
              /\ (i < m => E[i] = Q[a + i]) /\ (i > 1 => d[i] = 0)
              /\ Q[a + i] = Q[(a + i) - 1] + sec[a + i] /\ sec[a + i] \in Nat /\ Q[(a + i) - 1] \in Nat
  <2>1. a + i \in 1..n /\ (a + i) - 1 = a + (i - 1) /\ i \in Nat
    BY <1>1, <1>4
  <2>2. /\ sec[a + i] \in Nat /\ Q[(a + i) - 1] \in Nat /\ Q[a + i] \in Nat
        /\ Q[a + i] = Q[(a + i) - 1] + sec[a + i]
    BY <1>6, <2>1
  <2>3. E[i] \in Nat /\ E[i] <= Q[a + i] /\ Q[(a + i) - 1] <= E[i]
    <3>1. CASE i = m
      <4>1. a + i = q
        BY <1>4, <3>1
      <4> QED BY <1>1, <1>8, <3>1, <4>1
    <3>2. CASE i # m
      <4>1. i < m
        BY <1>4, <3>2
      <4> QED BY <1>8, <2>2, <4>1
    <3> QED BY <3>1, <3>2
  <2>4. d[i] = IF i = 1 THEN z - Q[a] ELSE 0
    BY DEF PieceAt, PieceSkips, z
  <2>5. CASE i = 1
    <3>1. (a + i) - 1 = a /\ E[i - 1] = z /\ d[i] = z - Q[a]
      BY <1>1, <1>8, <2>4, <2>5
    <3>2. z <= E[i]
      <4>1. CASE m = 1
        BY <1>7, <1>8, <2>5, <4>1
      <4>2. CASE m # 1
        <5>1. z = Q[a]
          BY <1>4, <1>7, <4>2
        <5> QED BY <2>3, <3>1, <5>1
      <4> QED BY <4>1, <4>2
    <3>3. Q[(a + i) - 1] + d[i] = E[i - 1] /\ d[i] \in Nat
      <4> DEFINE x == Q[a]
      <4>1. x \in Nat /\ x <= z /\ z \in Nat /\ d[i] = z - x /\ Q[(a + i) - 1] = x /\ E[i - 1] = z
        BY <1>1, <1>7, <3>1
      <4> HIDE DEF x
      <4> QED BY <4>1
    <3> QED BY <1>1, <1>8, <2>1, <2>2, <2>3, <2>5, <3>1, <3>2, <3>3
  <2>6. CASE i # 1
    <3>1. i - 1 \in 1..m /\ i - 1 < m /\ m > 1
      BY <1>4, <2>6
    <3>2. E[i - 1] = Q[a + (i - 1)] /\ d[i] = 0
      BY <1>8, <2>4, <2>6, <3>1
    <3>3. z <= E[i - 1]
      <4>1. a <= a + (i - 1) /\ a + (i - 1) \in Nat /\ a + (i - 1) <= n
        BY <1>1, <2>1, <3>1
      <4>2. Q[a] <= Q[a + (i - 1)]
        BY <1>1, <1>5, <4>1
      <4> QED BY <1>7, <3>1, <3>2, <4>2
    <3> QED BY <1>8, <2>1, <2>2, <2>3, <3>2, <3>3
  <2> QED BY <2>5, <2>6
<1>11. S = [i \in 0..m |-> E[i] - z]
  <2>1. S = [i \in 0..m |-> IF i = 0 THEN 0 ELSE (IF i = m THEN e ELSE Q[a + i]) - z]
    BY DEF PieceAt, PieceEnds, e, z
  <2>2. \A i \in 0..m : (IF i = 0 THEN 0 ELSE (IF i = m THEN e ELSE Q[a + i]) - z) = E[i] - z
    <3> TAKE i \in 0..m
    <3>1. CASE i = 0
      BY <1>1, <1>8, <3>1
    <3>2. CASE i # 0
      <4>1. i \in 1..m
        BY <1>4, <3>2
      <4>2. i # m => i < m
        BY <1>4, <4>1
      <4> QED BY <1>8, <3>2, <4>1, <4>2
    <3> QED BY <3>1, <3>2
  <2> QED BY <2>1, <2>2
<1>12. c = [i \in 1..m |-> S[i] - S[i - 1]]
  BY DEF PieceAt, PieceCounts
<1>13. \A i \in 1..m : S[i] = E[i] - z /\ S[i - 1] = E[i - 1] - z /\ c[i] = S[i] - S[i - 1]
  BY <1>4, <1>11, <1>12
<1>14. S[0] = 0 /\ S[m] = e - z
  BY <1>1, <1>4, <1>8, <1>11
<1>15. ASSUME NEW i \in 1..m
       PROVE  /\ S[i - 1] \in Nat /\ S[i] \in Nat /\ S[i] = S[i - 1] + c[i] /\ c[i] \in Nat
              /\ z + S[i - 1] = E[i - 1] /\ d[i] + c[i] <= sec[a + i]
              /\ (i < m => d[i] + c[i] = sec[a + i])
  <2> DEFINE x == E[i - 1]
             y == E[i]
             u == S[i - 1]
             v == S[i]
             k == c[i]
             g == d[i]
             h == Q[(a + i) - 1]
             l == sec[a + i]
  <2>1. /\ x \in Nat /\ y \in Nat /\ x <= y /\ z <= x /\ z \in Nat /\ v = y - z /\ u = x - z
        /\ k = v - u /\ g \in Nat /\ h \in Nat /\ l \in Nat /\ h + g = x /\ y <= h + l
        /\ (i < m => y = h + l)
    BY <1>1, <1>10, <1>13
  <2> HIDE DEF x, y, u, v, k, g, h, l
  <2>2. /\ u \in Nat /\ v \in Nat /\ v = u + k /\ k \in Nat /\ z + u = x /\ g + k <= l
        /\ (i < m => g + k = l)
    BY <2>1
  <2> QED BY <2>2 DEF x, y, u, v, k, g, h, l
<1>16. /\ c \in [1..m -> Nat] /\ d \in [1..m -> Nat] /\ S \in [0..m -> Nat]
  <2>1. c \in [1..m -> Nat]
    BY <1>12, <1>15
  <2>2. d \in [1..m -> Nat]
    <3>1. d = [i \in 1..m |-> d[i]]
      BY DEF PieceAt, PieceSkips
    <3> QED BY <1>10, <3>1
  <2>3. \A i \in 0..m : S[i] \in Nat
    <3> TAKE i \in 0..m
    <3>1. i = 0 \/ i \in 1..m
      BY <1>4
    <3> QED BY <1>14, <1>15, <3>1
  <2> QED BY <1>11, <2>1, <2>2, <2>3
<1>17. IsPartialSums(S, c, m)
  BY <1>14, <1>15, <1>16 DEF IsPartialSums
<1>18. ASSUME NEW i \in 1..m
       PROVE  /\ a + i \in 1..Len(sec) /\ d[i] + c[i] <= sec[a + i]
              /\ Q[(a + i) - 1] + d[i] = r.sStart + S[i - 1]
              /\ S[i - 1] \in Nat /\ S[i] \in Nat /\ S[i] = S[i - 1] + c[i]
              /\ (i < m => d[i] + c[i] = sec[a + i])
              /\ (i > 1 => d[i] = 0)
  BY <1>10, <1>15 DEF n, z
<1> QED BY <1>1, <1>2, <1>4, <1>14, <1>16, <1>17, <1>18 DEF q, z, e, n

\* A list renumbered from the chunk's first paragraph.
LEMMA BlobParagraphs ==
  ASSUME NEW sec, NEW units, NEW Q, NEW O, Setting(sec, units, Q, O), layout = LayoutOf(sec),
         NEW r \in RangeSet, InPlace(r, sec, Q)
  PROVE  /\ ChunkLayout(r).paragraphs = [i \in 1..PieceCount(r) |-> (0 + i) - 1]
         /\ ChunkLayout(r).coverage =
              [i \in 1..PieceCount(r) |-> [para |-> (0 + i) - 1, coarse |-> i \in PieceCoarse(r, sec)]]
<1> DEFINE m == PieceCount(r)
           a == r.pStart
           n == Len(sec)
           f == r.first
           paras == IF r.mid THEN <<layout.paragraphs[r.pStart + 1]>>
                             ELSE Slice(layout.paragraphs, r.pStart, r.pEnd)
           cover == Slice(layout.coverage, r.cStart, r.cEnd)
<1>1. /\ m \in Nat \ {0} /\ a \in Nat /\ a + m <= n /\ n \in Nat /\ f = a + 1
      /\ (r.mid => m = 1) /\ (~r.mid => r.pEnd = a + m) /\ r.cStart = a /\ r.cEnd = a + m
  <2>1. PieceAt(sec, Q, r, m, a, PieceEnds(r, Q), PieceCounts(r, Q), PieceSkips(r, Q))
    BY DEF PieceAt
  <2> QED BY <2>1, PieceFacts, SettingSteps
<1>2. /\ layout.paragraphs = [p \in 1..n |-> p]
      /\ layout.coverage = [p \in 1..n |-> [para |-> p, coarse |-> sec[p] = 0]]
  BY DEF LayoutOf
<1>3. ChunkLayout(r).paragraphs = [i \in 1..Len(paras) |-> paras[i] - f]
  BY DEF ChunkLayout
<1>4. ChunkLayout(r).coverage = [i \in 1..Len(cover) |-> [cover[i] EXCEPT !.para = @ - f]]
  BY DEF ChunkLayout
<1> HIDE DEF m, a, n, f
<1>5. Len(paras) = m /\ \A i \in 1..m : paras[i] = a + i
  <2>1. CASE r.mid
    <3>1. a + 1 \in 1..n /\ m = 1
      BY <1>1, <2>1
    <3>2. paras = <<a + 1>>
      BY <1>2, <2>1, <3>1 DEF a
    <3> QED BY <3>1, <3>2
  <2>2. CASE ~r.mid
    <3>1. paras = SubSeq([p \in 1..n |-> p], a + 1, a + m)
      BY <1>1, <1>2, <2>2 DEF Slice, a
    <3>2. Len(SubSeq([p \in 1..n |-> p], a + 1, a + m)) = m
      BY <1>1
    <3>3. \A i \in 1..m : SubSeq([p \in 1..n |-> p], a + 1, a + m)[i] = a + i
      BY <1>1
    <3> QED BY <3>1, <3>2, <3>3
  <2> QED BY <2>1, <2>2
<1>6. Len(cover) = m /\ \A i \in 1..m : cover[i] = [para |-> a + i, coarse |-> sec[a + i] = 0]
  <2> DEFINE L == [p \in 1..n |-> [para |-> p, coarse |-> sec[p] = 0]]
  <2>1. cover = SubSeq(L, a + 1, a + m)
    BY <1>1, <1>2 DEF Slice
  <2>2. Len(SubSeq(L, a + 1, a + m)) = m
    BY <1>1
  <2>3. \A i \in 1..m : SubSeq(L, a + 1, a + m)[i] = L[a + i] /\ a + i \in 1..n
    BY <1>1
  <2>4. \A i \in 1..m : L[a + i] = [para |-> a + i, coarse |-> sec[a + i] = 0]
    BY <2>3
  <2> HIDE DEF L
  <2> QED BY <2>1, <2>2, <2>3, <2>4
<1> HIDE DEF paras, cover
<1>7. \A i \in 1..m : paras[i] - f = (0 + i) - 1
  BY <1>1, <1>5
<1>8. ASSUME NEW i \in 1..m
      PROVE  [cover[i] EXCEPT !.para = @ - f] = [para |-> (0 + i) - 1, coarse |-> i \in PieceCoarse(r, sec)]
  <2>1. (a + i) - f = (0 + i) - 1
    BY <1>1
  <2>2. i \in PieceCoarse(r, sec) <=> sec[a + i] = 0
    BY DEF PieceCoarse, m, a
  <2>3. (i \in PieceCoarse(r, sec)) = (sec[a + i] = 0)
    BY <2>2
  <2> QED BY <1>6, <2>1, <2>3
<1>9. ChunkLayout(r).paragraphs = [i \in 1..m |-> (0 + i) - 1]
  BY <1>3, <1>5, <1>7
<1>10. ChunkLayout(r).coverage = [i \in 1..m |-> [para |-> (0 + i) - 1, coarse |-> i \in PieceCoarse(r, sec)]]
  BY <1>4, <1>6, <1>8
<1> QED BY <1>9, <1>10 DEF m

\* The blob of a range is the piece of the layout it covers.
LEMMA BlobPiece ==
  ASSUME NEW sec, NEW units, NEW Q, NEW O, Setting(sec, units, Q, O), layout = LayoutOf(sec),
         NEW r \in RangeSet, InPlace(r, sec, Q)
  PROVE  IsPiece(ChunkLayout(r), 0, PieceCount(r), PieceCounts(r, Q), PieceSkips(r, Q),
                 PieceCoarse(r, sec), PieceEnds(r, Q))
<1> DEFINE m == PieceCount(r)
           a == r.pStart
           S == PieceEnds(r, Q)
           c == PieceCounts(r, Q)
           d == PieceSkips(r, Q)
           n == Len(sec)
           z == r.sStart
           e == r.sEnd
           f == r.first
           list == LayoutOf(sec).sentences
           run == Slice(layout.sentences, r.sStart, r.sEnd)
<1>1. PieceAt(sec, Q, r, m, a, S, c, d)
  BY DEF PieceAt
<1> HIDE DEF m, S, c, d
<1>2. /\ m \in Nat \ {0} /\ a \in Nat /\ a + m <= n /\ n \in Nat /\ f = a + 1
      /\ z \in Nat /\ e \in Nat
      /\ c \in [1..m -> Nat] /\ d \in [1..m -> Nat] /\ IsPartialSums(S, c, m)
      /\ S[m] = e - z
  BY <1>1, PieceFacts, SettingSteps
<1>3. \A i \in 1..m : /\ a + i \in 1..n
                      /\ d[i] + c[i] <= sec[a + i]
                      /\ Q[(a + i) - 1] + d[i] = z + S[i - 1]
                      /\ S[i - 1] \in Nat /\ S[i] \in Nat /\ S[i] = S[i - 1] + c[i]
  BY <1>1, PieceFacts, SMTT(40)
<1>4. list \in Seq(Units) /\ Len(list) = Q[n]
  BY SentencePlaces
<1>5. \A p \in 1..n : \A s \in 1..sec[p] : list[Q[p - 1] + s] = Sentence(p, s)
  BY SentencePlaces
<1>6. z <= e /\ e <= Q[n] /\ Q[n] \in Nat
  <2>1. e <= Q[Reached(r)] /\ Reached(r) \in 1..n
    BY ReachedIs
  <2>2. Q[Reached(r)] <= Q[n] /\ Q[Reached(r)] \in Nat /\ Q[n] \in Nat
    <3>1. Reached(r) \in Nat /\ n \in Nat /\ Reached(r) <= n /\ n <= n
      BY <1>2, <2>1
    <3> QED BY <3>1, SettingSteps
  <2>3. S[m] \in Nat
    BY <1>2 DEF IsPartialSums
  <2> HIDE DEF z, e, n
  <2> QED BY <1>2, <2>1, <2>2, <2>3
<1>7. ChunkLayout(r).sentences = [i \in 1..Len(run) |-> [run[i] EXCEPT !.para = @ - f]]
  BY DEF ChunkLayout
<1>8. run = SubSeq(list, z + 1, e)
  BY DEF Slice
<1> HIDE DEF list, run, n, z, e, f, a
<1>9. Len(run) = e - z /\ \A j \in 1..(e - z) : run[j] = list[z + j] /\ run[j] \in Units
  <2>1. Len(SubSeq(list, z + 1, e)) = e - z
    BY <1>2, <1>4, <1>6
  <2>2. \A j \in 1..(e - z) : SubSeq(list, z + 1, e)[j] = list[z + j]
    BY <1>2, <1>4, <1>6
  <2>3. \A j \in 1..(e - z) : list[z + j] \in Units
    <3>1. \A j \in 1..(e - z) : z + j \in 1..Len(list)
      BY <1>2, <1>4, <1>6
    <3> QED BY <1>4, <3>1
  <2> QED BY <1>8, <2>1, <2>2, <2>3
\* The j-th sentence of the run is the s-th of the i-th paragraph.
<1>10. ASSUME NEW i \in 1..m, NEW s \in 1..c[i]
       PROVE  /\ S[i - 1] + s \in 1..(e - z)
              /\ run[S[i - 1] + s] = Sentence(a + i, d[i] + s)
  <2> DEFINE k == S[i - 1]
             h == Q[(a + i) - 1]
             g == d[i]
             l == c[i]
  <2>1. /\ k \in Nat /\ g \in Nat /\ l \in Nat /\ s \in 1..l /\ h + g = z + k /\ g + l <= sec[a + i]
        /\ S[i] = k + l /\ S[i] \in Nat /\ a + i \in 1..n /\ sec[a + i] \in Nat /\ h \in Nat
    <3>1. a + i \in 1..n
      BY <1>3
    <3>2. sec[a + i] \in Nat /\ Q[(a + i) - 1] \in Nat
      BY <3>1, SettingSteps DEF n
    <3> QED BY <1>2, <1>3, <3>1, <3>2
  <2>2. S[i] <= S[m] /\ S[m] \in Nat
    <3>1. i \in Nat /\ i <= m /\ m <= m /\ m \in Nat
      BY <1>2
    <3> QED BY <1>2, <3>1, SumsGrow
  <2> HIDE DEF k, h, g, l
  <2>3. k + s \in 1..(e - z)
    BY <1>2, <2>1, <2>2
  <2>4. g + s \in 1..sec[a + i] /\ z + (k + s) = h + (g + s)
    BY <1>2, <2>1
  <2>5. list[h + (g + s)] = Sentence(a + i, g + s)
    BY <1>5, <2>1, <2>4 DEF h
  <2>6. run[k + s] = Sentence(a + i, g + s)
    BY <1>9, <2>3, <2>4, <2>5
  <2> QED BY <2>3, <2>6 DEF k, g
<1> DEFINE rel(j) == [run[j] EXCEPT !.para = @ - f]
<1>11. ASSUME NEW i \in 1..m, NEW s \in 1..c[i]
       PROVE  rel(S[i - 1] + s) = Sentence((0 + i) - 1, d[i] + s)
  <2>1. run[S[i - 1] + s] = [para |-> a + i, sent |-> d[i] + s]
    BY <1>10 DEF Sentence
  <2>2. (a + i) - f = (0 + i) - 1
    BY <1>2
  <2> QED BY <2>1, <2>2 DEF Sentence
<1>12. ASSUME NEW j \in 1..(e - z) PROVE rel(j) \in Units
  <2>1. j \in 1..S[m]
    BY <1>2
  <2>2. PICK i \in 1..m : S[i - 1] < j /\ j <= S[i]
    BY <1>2, <2>1, PartialSumsLocate
  <2>3. S[i - 1] \in Nat /\ S[i] = S[i - 1] + c[i] /\ c[i] \in Nat /\ d[i] \in Nat
    BY <1>2, <1>3
  <2>4. j - S[i - 1] \in 1..c[i] /\ S[i - 1] + (j - S[i - 1]) = j /\ j - S[i - 1] \in Nat
    <3> DEFINE x == S[i - 1]
               y == c[i]
    <3>1. x \in Nat /\ y \in Nat /\ x < j /\ j <= x + y /\ j \in Nat
      BY <1>2, <1>6, <2>2, <2>3
    <3> HIDE DEF x, y
    <3>2. j - x \in 1..y /\ x + (j - x) = j /\ j - x \in Nat
      BY <3>1
    <3> QED BY <3>2 DEF x, y
  <2>5. rel(j) = Sentence((0 + i) - 1, d[i] + (j - S[i - 1]))
    BY <1>11, <2>4
  <2>6. (0 + i) - 1 \in Nat /\ d[i] + (j - S[i - 1]) \in Nat
    <3>1. \A x, y \in Nat : x + y \in Nat
      OBVIOUS
    <3>2. (0 + i) - 1 \in Nat
      BY <1>2
    <3> QED BY <2>3, <2>4, <3>1, <3>2
  <2> HIDE DEF rel
  <2> QED BY <2>5, <2>6 DEF Sentence, Units
<1>13. /\ ChunkLayout(r).sentences \in Seq(Units) /\ Len(ChunkLayout(r).sentences) = S[m]
       /\ \A j \in 1..(e - z) : ChunkLayout(r).sentences[j] = rel(j)
  <2>1. ChunkLayout(r).sentences = [j \in 1..(e - z) |-> rel(j)]
    BY <1>7, <1>9
  <2>2. e - z \in Nat
    BY <1>2, <1>6
  <2> HIDE DEF rel
  <2> QED BY <1>2, <1>12, <2>1, <2>2
<1>14. \A i \in 1..m : \A s \in 1..c[i] :
         ChunkLayout(r).sentences[S[i - 1] + s] = Sentence((0 + i) - 1, d[i] + s)
  BY <1>10, <1>11, <1>13
<1>15. /\ ChunkLayout(r).paragraphs = [i \in 1..m |-> (0 + i) - 1]
       /\ ChunkLayout(r).coverage = [i \in 1..m |-> [para |-> (0 + i) - 1, coarse |-> i \in PieceCoarse(r, sec)]]
  BY BlobParagraphs DEF m
<1>16. IsPiece(ChunkLayout(r), 0, m, c, d, PieceCoarse(r, sec), S)
  BY <1>2, <1>13, <1>14, <1>15 DEF IsPiece
<1> QED BY <1>16 DEF m, c, d, S

\* The layout of a section without a paragraph.
EmptyLayout == [paragraphs |-> <<>>, sentences |-> <<>>, coverage |-> <<>>]

\* The row of the range r.
RowIs(row, r, sec, Q) ==
  /\ row.first = r.first /\ row.firstSentence = r.firstSentence
  /\ row.paragraphCount = r.pEnd - r.pStart
  /\ row.sentenceCount = r.sEnd - r.sStart
  /\ sec = <<>> => row.blob = EmptyLayout
  /\ sec # <<>> => IsPiece(row.blob, 0, PieceCount(r), PieceCounts(r, Q), PieceSkips(r, Q),
                           PieceCoarse(r, sec), PieceEnds(r, Q))

\* A row starts, in every stream, at the entries of the rows before it.
StartsAt(rws, R, sec, Q) ==
  \A units \in Kinds, policy \in Policies : \A O, C :
    (/\ Setting(sec, units, Q, O)
     /\ Counts(C, KeptSet(Walk(LayoutOf(sec), units), policy), O[Len(sec)]))
    => \A k \in 1..Len(R) : rws[k].entry[units][policy] = C[Ends(R, units, sec, Q, O)[k - 1]]

\* The rows rws are those of ranges that cut the section sec.
StoredAs(rws, R, sec, Q) ==
  /\ Tiles(R, sec, Q) /\ Len(rws) = Len(R)
  /\ \A k \in 1..Len(R) : RowIs(rws[k], R[k], sec, Q)
  /\ sec # <<>> => StartsAt(rws, R, sec, Q)

\* The rows hold the section by some ranges.
IsStored(rws, sec, Q) == \E R : StoredAs(rws, R, sec, Q)

\* The part of the inductive invariant about the stored rows: they hold the section that was cut.
StoredInv ==
  rows # <<>> => \A Q : IsPartialSums(Q, section, Len(section)) => IsStored(rows, section, Q)

\* The row made of a range holds what the range covers.
LEMMA StoredRow ==
  ASSUME PlaceInv, section \in Seq(Nat), NEW Q, IsPartialSums(Q, section, Len(section)),
         NEW R, Tiles(R, section, Q), NEW starts, NEW k \in 1..Len(R)
  PROVE  RowIs(Row(R, starts, k), R[k], section, Q)
<1> DEFINE r == R[k]
           row == Row(R, starts, k)
<1>1. layout = LayoutOf(section)
  BY DEF PlaceInv
<1>2. /\ row.first = r.first /\ row.firstSentence = r.firstSentence
      /\ row.paragraphCount = r.pEnd - r.pStart /\ row.sentenceCount = r.sEnd - r.sStart
      /\ row.blob = ChunkLayout(r)
  BY DEF Row
<1>3. CASE section = <<>>
  <2>1. r = WholeRange
    <3>1. R = <<WholeRange>>
      BY <1>3 DEF Tiles
    <3>2. Len(<<WholeRange>>) = 1 /\ <<WholeRange>>[1] = WholeRange
      OBVIOUS
    <3> QED BY <3>1, <3>2
  <2>2. layout.paragraphs = <<>> /\ layout.coverage = <<>> /\ layout.sentences \in Seq(Units)
        /\ Len(layout.sentences) = 0
    <3>1. layout.paragraphs = <<>> /\ layout.coverage = <<>>
      BY <1>1, <1>3 DEF LayoutOf
    <3>2. PICK O : Setting(section, "paragraph", Q, O)
      BY SettingExists DEF Kinds
    <3>3. LayoutOf(section).sentences \in Seq(Units) /\ Len(LayoutOf(section).sentences) = Q[Len(section)]
      BY <3>2, SentencePlaces
    <3>4. Len(section) = 0 /\ Q[0] = 0
      BY <1>3 DEF IsPartialSums
    <3> QED BY <1>1, <3>1, <3>3, <3>4
  <2>3. layout.sentences = <<>>
    BY <2>2
  <2>4. SubSeq(<<>>, 0 + 1, 0) = <<>>
    OBVIOUS
  <2>5. ChunkLayout(WholeRange) = EmptyLayout
    BY <2>2, <2>3, <2>4 DEF ChunkLayout, WholeRange, Slice, EmptyLayout
  <2> QED BY <1>2, <1>3, <2>1, <2>5 DEF RowIs
<1>4. CASE section # <<>>
  <2>1. PICK O : Setting(section, "paragraph", Q, O)
    BY SettingExists DEF Kinds
  <2>2. r \in RangeSet /\ InPlace(r, section, Q)
    BY <1>4 DEF Tiles, AllInPlace
  <2>3. IsPiece(ChunkLayout(r), 0, PieceCount(r), PieceCounts(r, Q), PieceSkips(r, Q),
                PieceCoarse(r, section), PieceEnds(r, Q))
    BY <1>1, <2>1, <2>2, BlobPiece
  <2> QED BY <1>2, <1>4, <2>3 DEF RowIs
<1> QED BY <1>3, <1>4

\* The rows made of ranges that tile the section hold it.
LEMMA StoredRows ==
  ASSUME PlaceInv, section \in Seq(Nat), NEW Q, IsPartialSums(Q, section, Len(section)),
         NEW R, Tiles(R, section, Q), NEW rws, rws = [k \in 1..Len(R) |-> Row(R, StartsOf(R), k)]
  PROVE  IsStored(rws, section, Q)
<1>1. layout = LayoutOf(section) /\ Len(R) \in Nat
  BY DEF PlaceInv, Tiles
<1>2. Len(rws) = Len(R) /\ \A k \in 1..Len(R) : rws[k] = Row(R, StartsOf(R), k)
  BY <1>1
<1>3. \A k \in 1..Len(R) : RowIs(rws[k], R[k], section, Q)
  BY <1>2, StoredRow
<1>4. ASSUME NEW k \in 1..Len(R), NEW units \in Kinds, NEW policy \in Policies
      PROVE  rws[k].entry[units][policy] = StreamStarts(R, units, policy)[k]
  <2>1. rws[k] = Row(R, StartsOf(R), k)
    BY <1>2
  <2> DEFINE starts == StartsOf(R)
  <2>2. starts[units][policy] = StreamStarts(R, units, policy)
    BY DEF StartsOf
  <2> HIDE DEF starts
  <2>3. rws[k].entry = [kind \in Kinds |-> [p \in Policies |-> starts[kind][p][k]]]
    BY <2>1 DEF Row, starts
  <2> QED BY <2>2, <2>3
<1>5. section # <<>> => StartsAt(rws, R, section, Q)
  <2> SUFFICES ASSUME section # <<>> PROVE StartsAt(rws, R, section, Q)
    OBVIOUS
  <2>1. \A units \in Kinds, policy \in Policies : \A O, C :
          (/\ Setting(section, units, Q, O)
           /\ Counts(C, KeptSet(Walk(LayoutOf(section), units), policy), O[Len(section)]))
          => \A k \in 1..Len(R) : rws[k].entry[units][policy] = C[Ends(R, units, section, Q, O)[k - 1]]
    <3> TAKE units \in Kinds, policy \in Policies
    <3> TAKE O, C
    <3> HAVE /\ Setting(section, units, Q, O)
             /\ Counts(C, KeptSet(Walk(LayoutOf(section), units), policy), O[Len(section)])
    <3> TAKE k \in 1..Len(R)
    <3>1. StreamStarts(R, units, policy)[k] = C[Ends(R, units, section, Q, O)[k - 1]]
      BY <1>1, StartsAre
    <3> QED BY <1>4, <3>1
  <2> QED BY <2>1 DEF StartsAt
<1> QED BY <1>2, <1>3, <1>5 DEF IsStored, StoredAs

\* Store leaves rows that hold the section.
LEMMA StoreStored ==
  ASSUME CutInv, PlaceInv, Store, NEW Q, IsPartialSums(Q, section, Len(section))
  PROVE  IsStored(rows', section, Q)
<1>1. section \in Seq(Nat)
  BY DEF CutInv, Shape
<1>2. PICK R : Tiles(R, section, Q) /\ rows' = [k \in 1..Len(R) |-> Row(R, StartsOf(R), k)]
  BY StoreTiles
<1> QED BY <1>1, <1>2, StoredRows

\* Every stored section is held by its chunk rows: each row has the paragraphs, sentences and coverage
\* of its range with indices from its first paragraph, the ranges tile the section, and each row's
\* stream starts count the entries of the rows before it (build_chunk_ranges, plan_chunk_starts).
THEOREM StoredChunks == Spec => [](PlaceInv /\ StoredInv)
<1> DEFINE Inv == PlaceInv /\ StoredInv
<1>1. Init => Inv
  BY InitPlace DEF Init, StoredInv
<1>2. CutInv /\ Inv /\ [Next]_vars => Inv'
  <2> SUFFICES ASSUME CutInv, Inv, [Next]_vars PROVE Inv'
    OBVIOUS
  <2>1. CASE NextParagraph
    <3>1. rows' = <<>>
      BY <2>1 DEF NextParagraph
    <3> QED BY <2>1, <3>1, NextParagraphPlace DEF StoredInv
  <2>2. CASE NextSentence
    <3>1. rows' = <<>>
      BY <2>2 DEF NextSentence
    <3> QED BY <2>2, <3>1, NextSentencePlace DEF StoredInv
  <2>3. CASE Store
    <3>1. section' = section /\ layout' = layout
      BY <2>3 DEF Store
    <3>2. rows' # <<>>
      <4>1. PICK Q : IsPartialSums(Q, section, Len(section))
        <5>1. section \in [1..Len(section) -> Nat] /\ Len(section) \in Nat
          BY DEF CutInv, Shape
        <5> QED BY <5>1, PartialSumsExist
      <4>2. PICK R : Tiles(R, section, Q) /\ rows' = [k \in 1..Len(R) |-> Row(R, StartsOf(R), k)]
        BY <2>3, <4>1, StoreTiles
      <4>3. Len(R) \in Nat \ {0}
        BY <4>2 DEF Tiles
      <4>4. Len(rows') = Len(R)
        BY <4>2, <4>3
      <4> QED BY <4>3, <4>4
    <3>3. PlaceInv'
      BY <3>1, <3>2 DEF PlaceInv
    <3>4. ASSUME NEW Q, IsPartialSums(Q, section, Len(section)) PROVE IsStored(rows', section, Q)
      BY <2>3, <3>4, StoreStored
    <3>5. StoredInv'
      BY <3>1, <3>4 DEF StoredInv
    <3> QED BY <3>3, <3>5
  <2>4. CASE UNCHANGED vars
    BY <2>4 DEF vars, PlaceInv, StoredInv, LoopInPlace
  <2> QED BY <2>1, <2>2, <2>3, <2>4 DEF Next
<1> QED BY <1>1, <1>2, CutInvariant, PTL DEF Spec

-----------------------------------------------------------------------------
(* The layout read back *)

\* Every item or none selected.
LEMMA SelectedAll ==
  ASSUME NEW T, NEW list \in Seq(T), NEW chosen, \A i \in 1..Len(list) : i \in chosen
  PROVE  Selected(list, chosen) = list
<1> DEFINE s == Selected(list, chosen)
           n == Len(list)
<1>1. n \in Nat
  OBVIOUS
<1>2. 0 \in 0..n /\ n \in 0..n /\ \A i \in 1..n : i \in chosen <=> 0 < i /\ i <= n
  BY <1>1
<1>3. s \in Seq(T) /\ Len(s) = n - 0 /\ \A i \in 1..(n - 0) : s[i] = list[0 + i]
  <2> DEFINE a == 0
             b == n
  <2>1. a \in 0..Len(list) /\ b \in a..Len(list)
        /\ \A i \in 1..Len(list) : i \in chosen <=> a < i /\ i <= b
    BY <1>1, <1>2
  <2> HIDE DEF a, b, n
  <2>2. s \in Seq(T) /\ Len(s) = b - a /\ \A i \in 1..(b - a) : s[i] = list[a + i]
    BY <2>1, SelectedRun
  <2> QED BY <2>2 DEF a, b
<1>4. \A i \in 1..n : s[i] = list[i]
  BY <1>1, <1>3
<1> HIDE DEF s
<1>5. s = [i \in 1..n |-> s[i]] /\ list = [i \in 1..n |-> list[i]]
  BY <1>1, <1>3
<1>6. s = list
  BY <1>4, <1>5
<1> QED BY <1>6 DEF s

\* Nothing chosen, nothing selected.
LEMMA SelectedNone ==
  ASSUME NEW T, NEW list \in Seq(T), NEW chosen, \A i \in 1..Len(list) : i \notin chosen
  PROVE  Selected(list, chosen) = <<>>
<1> DEFINE s == Selected(list, chosen)
           n == Len(list)
<1>1. 0 \in 0..n /\ 0 \in 0..n /\ \A i \in 1..n : i \in chosen <=> 0 < i /\ i <= 0
  OBVIOUS
<1>2. s \in Seq(T) /\ Len(s) = 0 - 0
  <2>1. 0 \in 0..0
    OBVIOUS
  <2> QED BY <1>1, <2>1, SelectedRun
<1> HIDE DEF s
<1>3. s = <<>>
  BY <1>2
<1> QED BY <1>3 DEF s

\* The paragraphs of a row with the section's indices.
RowParas(k) ==
  [i \in 1..Len(rows[k].blob.paragraphs) |-> rows[k].blob.paragraphs[i] + rows[k].first]

\* Sentences or coverage records of a row with the section's indices.
RowItems(k, list) == [i \in 1..Len(list) |-> [list[i] EXCEPT !.para = @ + rows[k].first]]

\* A paragraph a mid chunk repeats.
Repeated(k, p) ==
  /\ IsMidParagraph(k)
  /\ \E j \in 1..k-1 : \E i \in 1..Len(rows[j].blob.paragraphs) :
       rows[j].blob.paragraphs[i] + rows[j].first = p

\* What reassembly keeps of the paragraphs of a row.
NewParas(k) == Selected(RowParas(k), {i \in 1..Len(RowParas(k)) : ~Repeated(k, RowParas(k)[i])})

\* What it keeps of the coverage records.
NewCover(k) ==
  LET cover == RowItems(k, rows[k].blob.coverage)
  IN  Selected(cover, {i \in 1..Len(cover) : ~Repeated(k, cover[i].para)})

\* Reassembled in these words.
LEMMA ReassembledIs ==
  Reassembled = [paragraphs |-> FlattenSeq([k \in 1..Len(rows) |-> NewParas(k)]),
                 sentences  |-> FlattenSeq([k \in 1..Len(rows) |-> RowItems(k, rows[k].blob.sentences)]),
                 coverage   |-> FlattenSeq([k \in 1..Len(rows) |-> NewCover(k)])]
BY DEF Reassembled, NewParas, NewCover, Repeated, RowParas, RowItems

\* The rows hold the section by the ranges R, Q its sentences.
Holding(R, Q) ==
  /\ section \in Seq(Nat) /\ section # <<>> /\ layout = LayoutOf(section)
  /\ IsPartialSums(Q, section, Len(section))
  /\ StoredAs(rows, R, section, Q)

\* What one row says of its range.
LEMMA HoldingRow ==
  ASSUME NEW R, NEW Q, Holding(R, Q), NEW k \in 1..Len(R)
  PROVE  /\ Len(rows) = Len(R) /\ Len(R) \in Nat \ {0}
         /\ R[k] \in RangeSet /\ InPlace(R[k], section, Q)
         /\ rows[k].first = R[k].first /\ rows[k].firstSentence = R[k].firstSentence
         /\ rows[k].paragraphCount = R[k].pEnd - R[k].pStart
         /\ rows[k].sentenceCount = R[k].sEnd - R[k].sStart
         /\ IsPiece(rows[k].blob, 0, PieceCount(R[k]), PieceCounts(R[k], Q), PieceSkips(R[k], Q),
                    PieceCoarse(R[k], section), PieceEnds(R[k], Q))
         /\ \E O : Setting(section, "paragraph", Q, O)
<1>1. RowIs(rows[k], R[k], section, Q) /\ Tiles(R, section, Q) /\ Len(rows) = Len(R)
  BY DEF Holding, StoredAs
<1>2. R \in Seq(RangeSet) /\ R # <<>> /\ AllInPlace(R, section, Q)
  BY <1>1 DEF Tiles, Holding
<1>3. \E O : Setting(section, "paragraph", Q, O)
  BY SettingExists DEF Kinds, Holding
<1> QED BY <1>1, <1>2, <1>3 DEF RowIs, AllInPlace, Holding

\* The sentences of a row are those of the layout from where its range starts.
LEMMA RowSentences ==
  ASSUME NEW R, NEW Q, Holding(R, Q), NEW k \in 1..Len(R),
         NEW x, x = RowItems(k, rows[k].blob.sentences)
  PROVE  /\ x \in Seq(Units) /\ Len(x) = R[k].sEnd - R[k].sStart
         /\ \A j \in 1..Len(x) : x[j] = layout.sentences[R[k].sStart + j]
<1> DEFINE r == R[k]
           m == PieceCount(r)
           a == r.pStart
           S == PieceEnds(r, Q)
           c == PieceCounts(r, Q)
           d == PieceSkips(r, Q)
           z == r.sStart
           list == rows[k].blob.sentences
<1>1. PICK O : Setting(section, "paragraph", Q, O)
  BY HoldingRow
<1>2. /\ r \in RangeSet /\ InPlace(r, section, Q) /\ rows[k].first = r.first
      /\ IsPiece(rows[k].blob, 0, m, c, d, PieceCoarse(r, section), S)
  BY HoldingRow
<1>3. PieceAt(section, Q, r, m, a, S, c, d)
  BY DEF PieceAt
<1>4. list \in Seq(Units) /\ Len(list) = S[m]
      /\ \A i \in 1..m : \A s \in 1..c[i] : list[S[i - 1] + s] = Sentence((0 + i) - 1, d[i] + s)
  BY <1>2 DEF IsPiece
<1> HIDE DEF m, S, c, d, list
<1>5. /\ m \in Nat \ {0} /\ a \in Nat /\ r.first = a + 1 /\ z \in Nat
      /\ c \in [1..m -> Nat] /\ d \in [1..m -> Nat] /\ IsPartialSums(S, c, m)
      /\ S[m] = r.sEnd - z
  <2>1. m \in Nat \ {0} /\ a \in Nat /\ r.first = a + 1 /\ z \in Nat
    BY <1>1, <1>2, <1>3, PieceFacts
  <2>2. c \in [1..m -> Nat] /\ d \in [1..m -> Nat] /\ IsPartialSums(S, c, m)
    BY <1>1, <1>2, <1>3, PieceFacts
  <2>3. S[m] = r.sEnd - z
    BY <1>1, <1>2, <1>3, PieceFacts
  <2> QED BY <2>1, <2>2, <2>3
<1>6. \A i \in 1..m : /\ a + i \in 1..Len(section)
                      /\ d[i] + c[i] <= section[a + i]
                      /\ Q[(a + i) - 1] + d[i] = z + S[i - 1]
                      /\ S[i - 1] \in Nat /\ S[i] \in Nat /\ S[i] = S[i - 1] + c[i]
  <2> HIDE DEF r
  <2> TAKE i \in 1..m
  <2>1. a + i \in 1..Len(section) /\ d[i] + c[i] <= section[a + i]
    BY <1>1, <1>2, <1>3, PieceFacts
  <2>2. Q[(a + i) - 1] + d[i] = z + S[i - 1]
    BY <1>1, <1>2, <1>3, PieceFacts, SMTT(60)
  <2>3. S[i - 1] \in Nat /\ S[i] \in Nat /\ S[i] = S[i - 1] + c[i]
    BY <1>1, <1>2, <1>3, PieceFacts
  <2> QED BY <2>1, <2>2, <2>3
<1>7. x = [j \in 1..Len(list) |-> [list[j] EXCEPT !.para = @ + r.first]]
  BY <1>2 DEF RowItems, list
<1>8. layout.sentences \in Seq(Units) /\ Len(layout.sentences) = Q[Len(section)]
      /\ \A p \in 1..Len(section) : \A s \in 1..section[p] :
           layout.sentences[Q[p - 1] + s] = Sentence(p, s) /\ Q[p - 1] + s \in 1..Q[Len(section)]
  <2>1. layout = LayoutOf(section)
    BY DEF Holding
  <2> QED BY <1>1, <2>1, SentencePlaces
<1>9. ASSUME NEW j \in 1..Len(list)
      PROVE  [list[j] EXCEPT !.para = @ + r.first] = layout.sentences[z + j]
             /\ layout.sentences[z + j] \in Units
  <2>1. j \in 1..S[m]
    BY <1>4
  <2>2. PICK i \in 1..m : S[i - 1] < j /\ j <= S[i]
    BY <1>5, <2>1, PartialSumsLocate
  <2> DEFINE y == S[i - 1]
             w == c[i]
             s == j - y
             g == d[i]
             h == Q[(a + i) - 1]
  <2>3. /\ y \in Nat /\ w \in Nat /\ y < j /\ j <= y + w /\ j \in Nat /\ g \in Nat
        /\ h \in Nat /\ h + g = z + y /\ g + w <= section[a + i] /\ section[a + i] \in Nat
        /\ a + i \in 1..Len(section)
    <3>1. a + i \in 1..Len(section)
      BY <1>6
    <3>2. Q[(a + i) - 1] \in Nat /\ section[a + i] \in Nat
      BY <1>1, <3>1, SettingSteps
    <3>3. j \in Nat
      OBVIOUS
    <3>4. S[i] = S[i - 1] + c[i]
      BY <1>6
    <3> QED BY <1>5, <1>6, <2>2, <3>1, <3>2, <3>3, <3>4
  <2>4. list[y + s] = Sentence((0 + i) - 1, g + s) /\ y + s = j /\ s \in 1..w /\ s \in Nat
    <3> HIDE DEF y, w, g, h
    <3>1. y + s = j /\ s \in 1..w /\ s \in Nat
      BY <2>3, SMTT(40)
    <3> QED BY <1>4, <3>1 DEF y, w, g
  <2> HIDE DEF y, w, s, g, h
  <2>5. h + (g + s) = z + j /\ g + s \in 1..section[a + i]
    <3> HIDE DEF z
    <3>1. z \in Nat /\ s \in Nat /\ y + s = j /\ s \in 1..w
      BY <1>5, <2>4
    <3>2. h + g = z + y /\ g + w <= section[a + i] /\ section[a + i] \in Nat /\ h \in Nat /\ g \in Nat
          /\ y \in Nat /\ w \in Nat
      BY <2>3
    <3> DEFINE v == section[a + i]
    <3> HIDE DEF v
    <3>3. h + (g + s) = z + (y + s) /\ g + s \in 1..v
      BY <3>1, <3>2 DEF v
    <3> QED BY <3>1, <3>3 DEF v
  <2>6. layout.sentences[h + (g + s)] = Sentence(a + i, g + s) /\ h + (g + s) \in 1..Q[Len(section)]
    BY <1>8, <2>3, <2>5 DEF h
  <2>7. list[j] = [para |-> (0 + i) - 1, sent |-> g + s]
    BY <2>4 DEF Sentence
  <2>8. ((0 + i) - 1) + r.first = a + i
    BY <1>5
  <2>9. [list[j] EXCEPT !.para = @ + r.first] = [para |-> a + i, sent |-> g + s]
    BY <2>7, <2>8
  <2> QED BY <1>8, <2>5, <2>6, <2>9 DEF Sentence
<1>10. Len(list) \in Nat /\ Len(list) = r.sEnd - z
  BY <1>4, <1>5
<1> DEFINE rel(j) == [list[j] EXCEPT !.para = @ + r.first]
<1>11. x = [j \in 1..Len(list) |-> rel(j)]
  BY <1>7
<1>12. \A j \in 1..Len(list) : rel(j) = layout.sentences[z + j] /\ rel(j) \in Units
  BY <1>9
<1> HIDE DEF rel, r, z
<1>13. x \in Seq(Units) /\ Len(x) = Len(list) /\ \A j \in 1..Len(x) : x[j] = layout.sentences[z + j]
  BY <1>10, <1>11, <1>12
<1> QED BY <1>10, <1>13 DEF r, z

\* Where the chunks before one end, in paragraphs and in sentences.
ParasTo(R) == [k \in 0..Len(R) |-> IF k = 0 THEN 0 ELSE Reached(R[k])]
\* The sentences up to and with each range.
SentsTo(R) == [k \in 0..Len(R) |-> IF k = 0 THEN 0 ELSE R[k].sEnd]

\* A range starts where the one before it ends.
LEMMA RangeStarts ==
  ASSUME NEW R, NEW Q, Holding(R, Q), NEW k \in 1..Len(R)
  PROVE  /\ R[k].sStart = SentsTo(R)[k - 1]
         /\ (IF R[k].mid THEN R[k].pStart + 1 ELSE R[k].pStart) = ParasTo(R)[k - 1]
         /\ SentsTo(R)[k] = R[k].sEnd /\ ParasTo(R)[k] = Reached(R[k])
         /\ (R[k].mid => k > 1)
         /\ ParasTo(R)[0] = 0 /\ SentsTo(R)[0] = 0
         /\ ParasTo(R)[Len(R)] = Len(section) /\ SentsTo(R)[Len(R)] = Q[Len(section)]
<1>1. R \in Seq(RangeSet) /\ Linked(R) /\ Len(R) \in Nat \ {0}
      /\ EndParagraph(R) = Len(section) /\ EndSentence(R) = Q[Len(section)]
  BY DEF Holding, StoredAs, Tiles
<1>2. /\ SentsTo(R)[k] = R[k].sEnd /\ ParasTo(R)[k] = Reached(R[k])
      /\ ParasTo(R)[0] = 0 /\ SentsTo(R)[0] = 0
      /\ ParasTo(R)[Len(R)] = Reached(R[Len(R)]) /\ SentsTo(R)[Len(R)] = R[Len(R)].sEnd
  BY <1>1 DEF SentsTo, ParasTo
<1>3. Reached(R[Len(R)]) = Len(section) /\ R[Len(R)].sEnd = Q[Len(section)]
  BY <1>1 DEF EndParagraph, EndSentence
<1>4. CASE k = 1
  <2>1. R[1].pStart = 0 /\ R[1].sStart = 0 /\ ~R[1].mid
    BY <1>1 DEF Linked
  <2> QED BY <1>2, <1>3, <1>4, <2>1
<1>5. CASE k # 1
  <2>1. k \in 2..Len(R) /\ k - 1 \in 1..Len(R)
    BY <1>1, <1>5
  <2>2. Follows(R[k], R[k - 1])
    BY <1>1, <2>1 DEF Linked
  <2>3. SentsTo(R)[k - 1] = R[k - 1].sEnd /\ ParasTo(R)[k - 1] = Reached(R[k - 1])
    BY <1>1, <2>1 DEF SentsTo, ParasTo
  <2> QED BY <1>2, <1>3, <2>1, <2>2, <2>3 DEF Follows
<1> QED BY <1>4, <1>5

\* The coverage records.
CoverSet == [para : Nat, coarse : BOOLEAN]

\* The paragraphs of a row and their coverage.
LEMMA RowParagraphs ==
  ASSUME NEW R, NEW Q, Holding(R, Q), NEW k \in 1..Len(R)
  PROVE  /\ PieceCount(R[k]) \in Nat \ {0} /\ R[k].pStart \in Nat
         /\ R[k].pStart + PieceCount(R[k]) = Reached(R[k])
         /\ R[k].pStart + PieceCount(R[k]) <= Len(section)
         /\ (R[k].mid => PieceCount(R[k]) = 1)
         /\ Len(rows[k].blob.paragraphs) = PieceCount(R[k])
         /\ RowParas(k) \in Seq(Nat) /\ Len(RowParas(k)) = PieceCount(R[k])
         /\ \A i \in 1..PieceCount(R[k]) : RowParas(k)[i] = R[k].pStart + i
<1> DEFINE m == PieceCount(R[k])
           a == R[k].pStart
           r == R[k]
           S == PieceEnds(r, Q)
           c == PieceCounts(r, Q)
           d == PieceSkips(r, Q)
           paras == rows[k].blob.paragraphs
<1>1. PICK O : Setting(section, "paragraph", Q, O)
  BY HoldingRow
<1>2. /\ r \in RangeSet /\ InPlace(r, section, Q) /\ rows[k].first = r.first
      /\ IsPiece(rows[k].blob, 0, m, c, d, PieceCoarse(r, section), S)
  BY HoldingRow
<1>3. PieceAt(section, Q, r, m, a, S, c, d)
  BY DEF PieceAt
<1>4. paras = [i \in 1..m |-> (0 + i) - 1]
  BY <1>2 DEF IsPiece
<1> HIDE DEF S, c, d, r, paras, m, a
<1>5. /\ m \in Nat \ {0} /\ a \in Nat /\ a + m = Reached(r) /\ a + m <= Len(section)
      /\ (r.mid => m = 1) /\ r.first = a + 1
  BY <1>1, <1>2, <1>3, PieceFacts
<1>6. \A i \in 1..m : ((0 + i) - 1) + r.first = a + i
  BY <1>5
<1>7. RowParas(k) = [i \in 1..Len(paras) |-> paras[i] + r.first]
  BY <1>2 DEF RowParas, paras
<1>9. Len(paras) = m
  BY <1>4, <1>5
<1>10. RowParas(k) = [i \in 1..m |-> a + i]
  BY <1>4, <1>6, <1>7, <1>9
<1>11. RowParas(k) \in Seq(Nat) /\ Len(RowParas(k)) = m /\ \A i \in 1..m : RowParas(k)[i] = a + i
  <2>1. [i \in 1..m |-> a + i] \in Seq(Nat) /\ Len([i \in 1..m |-> a + i]) = m
    BY <1>5
  <2> QED BY <1>10, <2>1
<1> QED BY <1>5, <1>9, <1>11 DEF r, paras, m, a

\* The coverage records of a row are those of the paragraphs it holds or repeats.
LEMMA RowCoverage ==
  ASSUME NEW R, NEW Q, Holding(R, Q), NEW k \in 1..Len(R),
         NEW x, x = RowItems(k, rows[k].blob.coverage)
  PROVE  /\ x \in Seq(CoverSet) /\ Len(x) = PieceCount(R[k])
         /\ \A i \in 1..PieceCount(R[k]) : x[i] = [para |-> R[k].pStart + i, coarse |-> section[R[k].pStart + i] = 0]
<1> DEFINE m == PieceCount(R[k])
           a == R[k].pStart
           r == R[k]
           cover == rows[k].blob.coverage
<1>2. /\ rows[k].first = r.first /\ r \in RangeSet /\ InPlace(r, section, Q)
      /\ IsPiece(rows[k].blob, 0, m, PieceCounts(r, Q), PieceSkips(r, Q), PieceCoarse(r, section),
                 PieceEnds(r, Q))
  BY HoldingRow
<1>4. cover = [i \in 1..m |-> [para |-> (0 + i) - 1, coarse |-> i \in PieceCoarse(r, section)]]
  BY <1>2 DEF IsPiece
<1>5. m \in Nat \ {0} /\ a \in Nat /\ r.first = a + 1
  <2>1. m \in Nat \ {0} /\ a \in Nat
    BY RowParagraphs
  <2> QED BY <1>2, <2>1 DEF InPlace
<1> HIDE DEF r, cover, m, a
<1>6. \A i \in 1..m : ((0 + i) - 1) + r.first = a + i
  BY <1>5
<1>8. x = [i \in 1..Len(cover) |-> [cover[i] EXCEPT !.para = @ + r.first]]
  BY <1>2 DEF RowItems, cover
<1>9. Len(cover) = m
  BY <1>4, <1>5
<1>11. ASSUME NEW i \in 1..m
       PROVE  [cover[i] EXCEPT !.para = @ + r.first] = [para |-> a + i, coarse |-> section[a + i] = 0]
  <2>1. cover[i] = [para |-> (0 + i) - 1, coarse |-> i \in PieceCoarse(r, section)]
    BY <1>4
  <2>2. (i \in PieceCoarse(r, section)) = (section[a + i] = 0)
    <3>1. i \in PieceCoarse(r, section) <=> section[a + i] = 0
      BY DEF PieceCoarse, r, m, a
    <3> QED BY <3>1
  <2> QED BY <1>6, <2>1, <2>2
<1> DEFINE e(i) == [para |-> a + i, coarse |-> section[a + i] = 0]
<1>12. x = [i \in 1..m |-> e(i)]
  BY <1>8, <1>9, <1>11
<1>13. \A i \in 1..m : e(i) \in CoverSet
  BY <1>5 DEF CoverSet
<1>14. m \in Nat
  BY <1>5
<1> HIDE DEF e
<1>15. x \in Seq(CoverSet) /\ Len(x) = m /\ \A i \in 1..m : x[i] = e(i)
  BY <1>12, <1>13, <1>14
<1> QED BY <1>15 DEF e, m, a

\* What reassembly drops is the paragraph a mid chunk repeats, and nothing else.
LEMMA WhichRepeated ==
  ASSUME NEW R, NEW Q, Holding(R, Q), NEW k \in 1..Len(R),
         NEW i \in 1..PieceCount(R[k])
  PROVE  Repeated(k, R[k].pStart + i) <=> R[k].mid
<1> DEFINE r == R[k]
           p == r.pStart + i
<1>1. /\ r.mid => PieceCount(r) = 1 /\ k > 1
      /\ (IF r.mid THEN r.pStart + 1 ELSE r.pStart) = ParasTo(R)[k - 1]
      /\ rows[k].paragraphCount = r.pEnd - r.pStart
      /\ r \in RangeSet /\ InPlace(r, section, Q) /\ Len(R) \in Nat
  <2>1. r.mid => PieceCount(r) = 1
    BY RowParagraphs
  <2>2. (r.mid => k > 1) /\ (IF r.mid THEN r.pStart + 1 ELSE r.pStart) = ParasTo(R)[k - 1]
    BY RangeStarts
  <2>3. /\ rows[k].paragraphCount = r.pEnd - r.pStart
        /\ r \in RangeSet /\ InPlace(r, section, Q) /\ Len(R) \in Nat
    BY HoldingRow
  <2> HIDE DEF r
  <2> QED BY <2>1, <2>2, <2>3
<1>2. r.pStart \in Nat /\ r.pEnd \in Nat
  BY <1>1 DEF RangeSet
<1>3. CASE ~r.mid
  <2>1. r.pStart < r.pEnd
    BY <1>1, <1>3 DEF InPlace
  <2>2. rows[k].paragraphCount # 0
    BY <1>1, <1>2, <2>1
  <2> QED BY <1>3, <2>2 DEF Repeated, IsMidParagraph
<1>4. CASE r.mid
  <2>1. IsMidParagraph(k)
    <3>1. r.pEnd = r.pStart
      BY <1>1, <1>4 DEF InPlace
    <3> QED BY <1>1, <1>2, <1>4, <3>1 DEF IsMidParagraph
  <2>2. p = ParasTo(R)[k - 1]
    BY <1>1, <1>2, <1>4
  <2>3. k - 1 \in 1..k-1 /\ k - 1 \in 1..Len(R)
    BY <1>1, <1>4
  <2> DEFINE j == k - 1
             m == PieceCount(R[j])
             paras == rows[j].blob.paragraphs
  <2>4. m \in Nat \ {0} /\ R[j].pStart + m = Reached(R[j]) /\ R[j].pStart \in Nat
        /\ Len(paras) = m /\ RowParas(j)[m] = R[j].pStart + m
    <3>1. j \in 1..Len(R)
      BY <2>3
    <3> HIDE DEF j
    <3>2. m \in Nat \ {0} /\ R[j].pStart + m = Reached(R[j]) /\ R[j].pStart \in Nat
      BY <3>1, RowParagraphs
    <3>3. Len(paras) = m /\ \A x \in 1..m : RowParas(j)[x] = R[j].pStart + x
      BY <3>1, RowParagraphs
    <3>4. m \in 1..m
      BY <3>2
    <3> QED BY <3>2, <3>3, <3>4
  <2>5. ParasTo(R)[j] = Reached(R[j])
    BY <2>3, RangeStarts
  <2>6. RowParas(j) = [x \in 1..Len(paras) |-> paras[x] + rows[j].first]
    BY DEF RowParas
  <2> HIDE DEF m, j, paras
  <2>7. m \in 1..m
    BY <2>4
  <2>8. m \in 1..Len(paras)
    BY <2>4, <2>7
  <2>9. paras[m] + rows[j].first = p
    BY <2>2, <2>4, <2>5, <2>6, <2>7, <2>8 DEF j
  <2>10. \E x \in 1..Len(paras) : paras[x] + rows[j].first = p
    BY <2>8, <2>9
  <2> QED BY <1>4, <2>1, <2>3, <2>10 DEF Repeated, j, paras
<1> QED BY <1>3, <1>4

\* What a row adds to the paragraphs and coverage of the section.
LEMMA RowAdds ==
  ASSUME NEW R, NEW Q, Holding(R, Q), NEW k \in 1..Len(R)
  PROVE  /\ NewParas(k) \in Seq(Nat) /\ NewCover(k) \in Seq(CoverSet)
         /\ Len(NewParas(k)) = IF R[k].mid THEN 0 ELSE PieceCount(R[k])
         /\ Len(NewCover(k)) = IF R[k].mid THEN 0 ELSE PieceCount(R[k])
         /\ \A i \in 1..Len(NewParas(k)) : NewParas(k)[i] = R[k].pStart + i
         /\ \A i \in 1..Len(NewCover(k)) :
              NewCover(k)[i] = [para |-> R[k].pStart + i, coarse |-> section[R[k].pStart + i] = 0]
<1> DEFINE m == PieceCount(R[k])
           a == R[k].pStart
           paras == RowParas(k)
           cover == RowItems(k, rows[k].blob.coverage)
           keptParas == {i \in 1..Len(paras) : ~Repeated(k, paras[i])}
           keptCover == {i \in 1..Len(cover) : ~Repeated(k, cover[i].para)}
<1>1. /\ m \in Nat \ {0} /\ a \in Nat
      /\ paras \in Seq(Nat) /\ Len(paras) = m /\ \A i \in 1..m : paras[i] = a + i
  BY RowParagraphs
<1>2. \A i \in 1..m : Repeated(k, a + i) <=> R[k].mid
  BY WhichRepeated
<1>3. NewParas(k) = Selected(paras, keptParas) /\ NewCover(k) = Selected(cover, keptCover)
  BY DEF NewParas, NewCover
<1>4. /\ cover \in Seq(CoverSet) /\ Len(cover) = m
      /\ \A i \in 1..m : cover[i] = [para |-> a + i, coarse |-> section[a + i] = 0]
  BY RowCoverage
<1> HIDE DEF paras, cover, m, a
<1>5. \A i \in 1..m : cover[i].para = a + i
  BY <1>4
<1>8. /\ \A i \in 1..Len(paras) : Repeated(k, paras[i]) <=> R[k].mid
      /\ \A i \in 1..Len(cover) : Repeated(k, cover[i].para) <=> R[k].mid
  <2>1. \A i \in 1..Len(paras) : Repeated(k, paras[i]) <=> R[k].mid
    BY <1>1, <1>2
  <2>2. Len(cover) = m
    BY <1>4
  <2>3. \A i \in 1..Len(cover) : Repeated(k, cover[i].para) <=> R[k].mid
    BY <1>2, <1>5, <2>2
  <2> QED BY <2>1, <2>3
<1>6. CASE R[k].mid
  <2>1. /\ \A i \in 1..Len(paras) : i \notin keptParas
        /\ \A i \in 1..Len(cover) : i \notin keptCover
    BY <1>6, <1>8
  <2> HIDE DEF keptParas, keptCover
  <2>2. Selected(paras, keptParas) = <<>>
    BY <1>1, <2>1, SelectedNone
  <2>3. Selected(cover, keptCover) = <<>>
    BY <1>4, <2>1, SelectedNone
  <2> QED BY <1>3, <1>6, <2>2, <2>3
<1>7. CASE ~R[k].mid
  <2>1. /\ \A i \in 1..Len(paras) : i \in keptParas
        /\ \A i \in 1..Len(cover) : i \in keptCover
    BY <1>7, <1>8
  <2> HIDE DEF keptParas, keptCover
  <2>2. Selected(paras, keptParas) = paras
    BY <1>1, <2>1, SelectedAll
  <2>3. Selected(cover, keptCover) = cover
    BY <1>4, <2>1, SelectedAll
  <2>4. NewParas(k) = paras /\ NewCover(k) = cover
    BY <1>3, <2>2, <2>3
  <2>5. Len(paras) = m /\ Len(cover) = m
    BY <1>1, <1>4
  <2>6. \A i \in 1..Len(NewParas(k)) : NewParas(k)[i] = a + i
    BY <1>1, <2>4, <2>5
  <2>7. \A i \in 1..Len(NewCover(k)) : NewCover(k)[i] = [para |-> a + i, coarse |-> section[a + i] = 0]
    BY <1>4, <2>4, <2>5
  <2>8. NewParas(k) \in Seq(Nat) /\ NewCover(k) \in Seq(CoverSet)
    BY <1>1, <1>4, <2>4
  <2>9. Len(NewParas(k)) = m /\ Len(NewCover(k)) = m
    BY <2>4, <2>5
  <2> QED BY <1>7, <2>6, <2>7, <2>8, <2>9 DEF m, a
<1> QED BY <1>6, <1>7 DEF m, a

\* What a range adds to the paragraphs and the sentences before it.
LEMMA EndsGrow ==
  ASSUME NEW R, NEW Q, Holding(R, Q), NEW k \in 1..Len(R)
  PROVE  /\ ParasTo(R)[k - 1] \in Nat /\ ParasTo(R)[k] \in Nat
         /\ ParasTo(R)[k] = ParasTo(R)[k - 1] + IF R[k].mid THEN 0 ELSE PieceCount(R[k])
         /\ SentsTo(R)[k - 1] \in Nat /\ SentsTo(R)[k] \in Nat
         /\ SentsTo(R)[k] = SentsTo(R)[k - 1] + (R[k].sEnd - R[k].sStart)
         /\ (~R[k].mid => R[k].pStart = ParasTo(R)[k - 1])
<1> DEFINE r == R[k]
           m == PieceCount(R[k])
           a == R[k].pStart
<1>1. /\ r.sStart = SentsTo(R)[k - 1] /\ SentsTo(R)[k] = r.sEnd
      /\ (IF r.mid THEN a + 1 ELSE a) = ParasTo(R)[k - 1] /\ ParasTo(R)[k] = Reached(r)
  BY RangeStarts
<1>2. m \in Nat \ {0} /\ a \in Nat /\ a + m = Reached(r) /\ (r.mid => m = 1)
  BY RowParagraphs
<1>3. r \in RangeSet
  BY HoldingRow
<1>4. r.sStart \in Nat /\ r.sEnd \in Nat
  BY <1>3 DEF RangeSet
<1> HIDE DEF r, m, a
<1>5. /\ SentsTo(R)[k - 1] \in Nat /\ SentsTo(R)[k] \in Nat
      /\ SentsTo(R)[k] = SentsTo(R)[k - 1] + (r.sEnd - r.sStart)
  BY <1>1, <1>4
<1>6. /\ ParasTo(R)[k - 1] \in Nat /\ ParasTo(R)[k] \in Nat
      /\ ParasTo(R)[k] = ParasTo(R)[k - 1] + IF r.mid THEN 0 ELSE m
      /\ (~r.mid => a = ParasTo(R)[k - 1])
  <2>1. CASE r.mid
    BY <1>1, <1>2, <2>1
  <2>2. CASE ~r.mid
    BY <1>1, <1>2, <2>2
  <2> QED BY <2>1, <2>2
<1> QED BY <1>5, <1>6 DEF r, m, a

\* The ends of the ranges are sums of what each adds.
LEMMA EndsAreSums ==
  ASSUME NEW R, NEW Q, Holding(R, Q)
  PROVE  /\ IsPartialSums(ParasTo(R), [k \in 1..Len(R) |-> IF R[k].mid THEN 0 ELSE PieceCount(R[k])], Len(R))
         /\ IsPartialSums(SentsTo(R), [k \in 1..Len(R) |-> R[k].sEnd - R[k].sStart], Len(R))
         /\ ParasTo(R)[Len(R)] = Len(section) /\ SentsTo(R)[Len(R)] = Q[Len(section)]
<1> DEFINE n == Len(R)
           P == ParasTo(R)
           S == SentsTo(R)
           v == [k \in 1..n |-> IF R[k].mid THEN 0 ELSE PieceCount(R[k])]
           w == [k \in 1..n |-> R[k].sEnd - R[k].sStart]
<1>1. n \in Nat \ {0}
  BY DEF Holding, StoredAs, Tiles
<1>2. 1 \in 1..n
  BY <1>1
<1>3. P[0] = 0 /\ S[0] = 0 /\ P[n] = Len(section) /\ S[n] = Q[Len(section)]
  BY <1>2, RangeStarts
<1>4. \A k \in 1..n : P[k] \in Nat /\ P[k] = P[k - 1] + v[k]
  BY EndsGrow
<1>5. \A k \in 1..n : S[k] \in Nat /\ S[k] = S[k - 1] + w[k]
  BY EndsGrow
<1>6. P = [k \in 0..n |-> P[k]] /\ S = [k \in 0..n |-> S[k]]
  BY DEF ParasTo, SentsTo
<1> HIDE DEF P, S, n, v, w
<1>7. \A k \in 0..n : P[k] \in Nat /\ S[k] \in Nat
  <2> TAKE k \in 0..n
  <2>1. k = 0 \/ k \in 1..n
    BY <1>1
  <2> QED BY <1>3, <1>4, <1>5, <2>1
<1>8. P \in [0..n -> Nat] /\ S \in [0..n -> Nat]
  BY <1>6, <1>7
<1>9. IsPartialSums(P, v, n) /\ IsPartialSums(S, w, n)
  BY <1>3, <1>4, <1>5, <1>8 DEF IsPartialSums
<1> QED BY <1>3, <1>9 DEF P, S, n, v, w

\* The sentences of the rows, in order, are those of the layout.
LEMMA SentencesReassembled ==
  ASSUME NEW R, NEW Q, Holding(R, Q)
  PROVE  FlattenSeq([k \in 1..Len(rows) |-> RowItems(k, rows[k].blob.sentences)]) = layout.sentences
<1> DEFINE n == Len(R)
           seqs == [k \in 1..n |-> RowItems(k, rows[k].blob.sentences)]
           S == SentsTo(R)
           w == [k \in 1..n |-> R[k].sEnd - R[k].sStart]
           list == layout.sentences
<1>1. n \in Nat /\ Len(rows) = n
  BY DEF Holding, StoredAs, Tiles
<1>2. ASSUME NEW k \in 1..n
      PROVE  /\ seqs[k] \in Seq(Units) /\ Len(seqs[k]) = w[k]
             /\ \A j \in 1..Len(seqs[k]) : seqs[k][j] = list[S[k - 1] + j]
  <2> DEFINE x == RowItems(k, rows[k].blob.sentences)
  <2>1. /\ x \in Seq(Units) /\ Len(x) = R[k].sEnd - R[k].sStart
        /\ \A j \in 1..Len(x) : x[j] = list[R[k].sStart + j]
    BY RowSentences
  <2>2. R[k].sStart = S[k - 1]
    BY RangeStarts
  <2>3. seqs[k] = x /\ w[k] = R[k].sEnd - R[k].sStart
    OBVIOUS
  <2> HIDE DEF x, seqs, w
  <2> QED BY <2>1, <2>2, <2>3
<1>3. IsPartialSums(S, w, n) /\ S[n] = Q[Len(section)]
  BY EndsAreSums
<1>4. list \in Seq(Units) /\ Len(list) = Q[Len(section)]
  <2>1. PICK O : Setting(section, "paragraph", Q, O)
    <3>1. section \in Seq(Nat) /\ IsPartialSums(Q, section, Len(section))
      BY DEF Holding
    <3> QED BY <3>1, SettingExists DEF Kinds
  <2>2. layout = LayoutOf(section)
    BY DEF Holding
  <2> QED BY <2>1, <2>2, SentencePlaces
<1>5. seqs = [k \in 1..n |-> seqs[k]] /\ w = [k \in 1..n |-> w[k]]
  OBVIOUS
<1>10. FlattenSeq([k \in 1..Len(rows) |-> RowItems(k, rows[k].blob.sentences)]) = FlattenSeq(seqs)
  BY <1>1
<1> HIDE DEF seqs, w, S, n, list
<1>6. seqs \in [1..n -> Seq(Units)]
  BY <1>2, <1>5
<1>7. seqs \in Seq(Seq(Units)) /\ Len(seqs) = n
  BY <1>1, <1>6
<1>8. LensOf(seqs) = w
  BY <1>2, <1>5, <1>7 DEF LensOf
<1>9. FlattenSeq(seqs) = list
  <2>1. \A k \in 1..Len(seqs) : \A j \in 1..Len(seqs[k]) : seqs[k][j] = list[S[k - 1] + j]
    <3> TAKE k \in 1..Len(seqs)
    <3>1. k \in 1..n
      BY <1>7
    <3> QED BY <1>2, <3>1
  <2>2. IsPartialSums(S, LensOf(seqs), Len(seqs)) /\ Len(list) = S[Len(seqs)] /\ list \in Seq(Units)
    BY <1>3, <1>4, <1>7, <1>8
  <2> QED BY <1>7, <2>1, <2>2, JoinsTo
<1> QED BY <1>9, <1>10 DEF list

\* The paragraphs and coverage records that are kept, in order, are those of the layout.
LEMMA ParagraphsReassembled ==
  ASSUME NEW R, NEW Q, Holding(R, Q)
  PROVE  /\ FlattenSeq([k \in 1..Len(rows) |-> NewParas(k)]) = layout.paragraphs
         /\ FlattenSeq([k \in 1..Len(rows) |-> NewCover(k)]) = layout.coverage
<1> DEFINE n == Len(R)
           paras == [k \in 1..n |-> NewParas(k)]
           cover == [k \in 1..n |-> NewCover(k)]
           P == ParasTo(R)
           w == [k \in 1..n |-> IF R[k].mid THEN 0 ELSE PieceCount(R[k])]
           c(p) == [para |-> p, coarse |-> section[p] = 0]
           L == layout.paragraphs
           M == layout.coverage
           N == Len(section)
<1>1. n \in Nat /\ Len(rows) = n /\ N \in Nat
  BY DEF Holding, StoredAs, Tiles
<1>2. /\ L = [p \in 1..N |-> p] /\ M = [p \in 1..N |-> c(p)]
  BY DEF LayoutOf, Holding
<1>3. IsPartialSums(P, w, n) /\ P[n] = N
  BY EndsAreSums
<1>4. \A p \in 1..N : c(p) \in CoverSet
  BY DEF CoverSet
<1> HIDE DEF c
<1>5. /\ L \in Seq(Nat) /\ Len(L) = N /\ \A p \in 1..N : L[p] = p
      /\ M \in Seq(CoverSet) /\ Len(M) = N /\ \A p \in 1..N : M[p] = c(p)
  <2> HIDE DEF N, L, M
  <2> QED BY <1>1, <1>2, <1>4
<1>6. ASSUME NEW k \in 1..n
      PROVE  /\ NewParas(k) \in Seq(Nat) /\ Len(NewParas(k)) = w[k]
             /\ NewCover(k) \in Seq(CoverSet) /\ Len(NewCover(k)) = w[k]
             /\ \A j \in 1..Len(NewParas(k)) : NewParas(k)[j] = L[P[k - 1] + j]
             /\ \A j \in 1..Len(NewCover(k)) : NewCover(k)[j] = M[P[k - 1] + j]
  <2> DEFINE m == PieceCount(R[k])
             a == R[k].pStart
  <2>1. /\ NewParas(k) \in Seq(Nat) /\ NewCover(k) \in Seq(CoverSet)
        /\ Len(NewParas(k)) = w[k] /\ Len(NewCover(k)) = w[k]
    BY RowAdds
  <2>2. w[k] = IF R[k].mid THEN 0 ELSE m
    OBVIOUS
  <2>3. CASE R[k].mid
    <3>1. Len(NewParas(k)) = 0 /\ Len(NewCover(k)) = 0
      BY <2>1, <2>2, <2>3
    <3> QED BY <2>1, <3>1
  <2>4. CASE ~R[k].mid
    <3>1. a = P[k - 1] /\ w[k] = m
      BY <2>2, <2>4, EndsGrow
    <3>2. m \in Nat \ {0} /\ a \in Nat /\ a + m <= N
      BY RowParagraphs
    <3>3. \A j \in 1..m : a + j \in 1..N
      <4> HIDE DEF a, m, N
      <4> QED BY <1>1, <3>2
    <3>4. \A j \in 1..Len(NewParas(k)) : NewParas(k)[j] = a + j
      BY RowAdds
    <3>5. \A j \in 1..Len(NewCover(k)) : NewCover(k)[j] = c(a + j)
      BY RowAdds DEF c
    <3> HIDE DEF a, m, N, P, L, M, w
    <3>6. \A j \in 1..Len(NewParas(k)) : NewParas(k)[j] = L[P[k - 1] + j]
      BY <1>5, <2>1, <3>1, <3>3, <3>4
    <3>7. \A j \in 1..Len(NewCover(k)) : NewCover(k)[j] = M[P[k - 1] + j]
      BY <1>5, <2>1, <3>1, <3>3, <3>5
    <3> QED BY <2>1, <3>6, <3>7
  <2> QED BY <2>3, <2>4
<1>7. /\ \A k \in 1..n : paras[k] = NewParas(k) /\ cover[k] = NewCover(k)
      /\ paras = [k \in 1..n |-> paras[k]] /\ cover = [k \in 1..n |-> cover[k]]
      /\ w = [k \in 1..n |-> w[k]]
  OBVIOUS
<1>8. /\ FlattenSeq([k \in 1..Len(rows) |-> NewParas(k)]) = FlattenSeq(paras)
      /\ FlattenSeq([k \in 1..Len(rows) |-> NewCover(k)]) = FlattenSeq(cover)
  BY <1>1
<1> HIDE DEF paras, cover, w, P, L, M, N, n
<1>9. paras \in [1..n -> Seq(Nat)] /\ cover \in [1..n -> Seq(CoverSet)]
  BY <1>6, <1>7
<1>10. /\ paras \in Seq(Seq(Nat)) /\ Len(paras) = n
       /\ cover \in Seq(Seq(CoverSet)) /\ Len(cover) = n
  BY <1>1, <1>9
<1>11. LensOf(paras) = w /\ LensOf(cover) = w
  BY <1>6, <1>7, <1>10 DEF LensOf
<1>12. FlattenSeq(paras) = L
  <2>1. \A k \in 1..Len(paras) : \A j \in 1..Len(paras[k]) : paras[k][j] = L[P[k - 1] + j]
    <3> TAKE k \in 1..Len(paras)
    <3>1. k \in 1..n
      BY <1>10
    <3>2. paras[k] = NewParas(k)
      BY <1>7, <3>1
    <3>3. \A j \in 1..Len(NewParas(k)) : NewParas(k)[j] = L[P[k - 1] + j]
      BY <1>6, <3>1
    <3> QED BY <3>2, <3>3
  <2>2. IsPartialSums(P, LensOf(paras), Len(paras)) /\ Len(L) = P[Len(paras)] /\ L \in Seq(Nat)
    BY <1>3, <1>5, <1>10, <1>11
  <2> QED BY <1>10, <2>1, <2>2, JoinsTo
<1>13. FlattenSeq(cover) = M
  <2>1. \A k \in 1..Len(cover) : \A j \in 1..Len(cover[k]) : cover[k][j] = M[P[k - 1] + j]
    <3> TAKE k \in 1..Len(cover)
    <3>1. k \in 1..n
      BY <1>10
    <3>2. cover[k] = NewCover(k)
      BY <1>7, <3>1
    <3>3. \A j \in 1..Len(NewCover(k)) : NewCover(k)[j] = M[P[k - 1] + j]
      BY <1>6, <3>1
    <3> QED BY <3>2, <3>3
  <2>2. IsPartialSums(P, LensOf(cover), Len(cover)) /\ Len(M) = P[Len(cover)] /\ M \in Seq(CoverSet)
    BY <1>3, <1>5, <1>10, <1>11
  <2> QED BY <1>10, <2>1, <2>2, JoinsTo
<1> QED BY <1>8, <1>12, <1>13 DEF L, M

\* A section without a paragraph is read back as one.
LEMMA EmptyReassembled ==
  ASSUME NEW R, NEW Q, StoredAs(rows, R, <<>>, Q), layout = LayoutOf(<<>>)
  PROVE  Reassembled = layout
<1>1. R = <<WholeRange>> /\ Len(rows) = Len(R) /\ \A k \in 1..Len(R) : RowIs(rows[k], R[k], <<>>, Q)
  BY DEF StoredAs, Tiles
<1>2. Len(rows) = 1 /\ rows[1].blob = EmptyLayout
  <2>1. Len(R) = 1
    BY <1>1
  <2> QED BY <1>1, <2>1 DEF RowIs
<1>3. FlattenSeq([k \in 1..Len(rows) |-> <<>>]) = <<>>
  <2> DEFINE seqs == [k \in 1..Len(rows) |-> <<>>]
             P == [k \in 0..1 |-> 0]
  <2>1. seqs \in Seq(Seq(Nat)) /\ Len(seqs) = 1 /\ seqs[1] = <<>>
    BY <1>2
  <2>2. IsPartialSums(P, LensOf(seqs), Len(seqs))
    <3> HIDE DEF seqs
    <3>1. LensOf(seqs) = [k \in 1..1 |-> 0]
      BY <2>1 DEF LensOf
    <3> QED BY <2>1, <3>1 DEF IsPartialSums
  <2> HIDE DEF seqs
  <2>3. <<>> \in Seq(Nat) /\ Len(<<>>) = P[Len(seqs)]
    BY <2>1
  <2>4. \A k \in 1..Len(seqs) : \A j \in 1..Len(seqs[k]) : seqs[k][j] = <<>>[P[k - 1] + j]
    BY <2>1
  <2> HIDE DEF P
  <2> QED BY <2>1, <2>2, <2>3, <2>4, JoinsTo DEF seqs
<1>4. ASSUME NEW k \in 1..Len(rows)
      PROVE  NewParas(k) = <<>> /\ NewCover(k) = <<>> /\ RowItems(k, rows[k].blob.sentences) = <<>>
  <2>1. rows[k].blob.paragraphs = <<>> /\ rows[k].blob.coverage = <<>> /\ rows[k].blob.sentences = <<>>
    BY <1>2 DEF EmptyLayout
  <2>2. RowParas(k) = <<>> /\ RowItems(k, <<>>) = <<>>
    BY <2>1 DEF RowParas, RowItems
  <2>3. \A chosen : Selected(<<>>, chosen) = <<>>
    <3> TAKE chosen
    <3>1. <<>> \in Seq(Nat) /\ \A i \in 1..Len(<<>>) : i \notin chosen
      OBVIOUS
    <3> QED BY <3>1, SelectedNone
  <2> QED BY <2>1, <2>2, <2>3 DEF NewParas, NewCover
<1>5. /\ [k \in 1..Len(rows) |-> NewParas(k)] = [k \in 1..Len(rows) |-> <<>>]
      /\ [k \in 1..Len(rows) |-> NewCover(k)] = [k \in 1..Len(rows) |-> <<>>]
      /\ [k \in 1..Len(rows) |-> RowItems(k, rows[k].blob.sentences)] = [k \in 1..Len(rows) |-> <<>>]
  BY <1>4
<1>6. Reassembled = [paragraphs |-> <<>>, sentences |-> <<>>, coverage |-> <<>>]
  BY <1>3, <1>5, ReassembledIs
<1>7. layout = [paragraphs |-> <<>>, sentences |-> <<>>, coverage |-> <<>>]
  <2>1. LayoutOf(<<>>).sentences = <<>>
    <3> DEFINE e == <<>>
               Q0 == [k \in 0..0 |-> 0]
    <3>1. e \in Seq(Nat) /\ Len(e) = 0 /\ IsPartialSums(Q0, e, Len(e))
      BY DEF IsPartialSums
    <3>2. PICK O : Setting(e, "paragraph", Q0, O)
      <4> HIDE DEF e, Q0
      <4> QED BY <3>1, SettingExists DEF Kinds
    <3>3. LayoutOf(e).sentences \in Seq(Units) /\ Len(LayoutOf(e).sentences) = Q0[Len(e)]
      <4> HIDE DEF e, Q0
      <4> QED BY <3>2, SentencePlaces
    <3> QED BY <3>1, <3>3
  <2> QED BY <2>1 DEF LayoutOf
<1> QED BY <1>6, <1>7

\* The layout reassemble_section_layout reads back from the rows is the layout that was stored, for
\* every section and every way its records cost it to be cut.
THEOREM ReassemblesStoredLayout == Spec => []ReassemblesLayout
<1>1. CutInv /\ PlaceInv /\ StoredInv => ReassemblesLayout
  <2> SUFFICES ASSUME CutInv, PlaceInv, StoredInv, rows # <<>> PROVE Reassembled = layout
    BY DEF ReassemblesLayout, Stored
  <2>1. section \in Seq(Nat) /\ layout = LayoutOf(section)
    BY DEF CutInv, Shape, PlaceInv
  <2>2. PICK Q : IsPartialSums(Q, section, Len(section))
    <3>1. section \in [1..Len(section) -> Nat] /\ Len(section) \in Nat
      BY <2>1
    <3> QED BY <3>1, PartialSumsExist
  <2>3. PICK R : StoredAs(rows, R, section, Q)
    BY <2>2 DEF StoredInv, IsStored
  <2>4. CASE section = <<>>
    BY <2>1, <2>3, <2>4, EmptyReassembled
  <2>5. CASE section # <<>>
    <3>1. Holding(R, Q)
      BY <2>1, <2>2, <2>3, <2>5 DEF Holding
    <3>2. layout = [paragraphs |-> layout.paragraphs, sentences |-> layout.sentences,
                    coverage |-> layout.coverage]
      BY <2>1 DEF LayoutOf
    <3> QED BY <3>1, <3>2, ReassembledIs, SentencesReassembled, ParagraphsReassembled
  <2> QED BY <2>4, <2>5
<1> QED BY <1>1, CutInvariant, StoredChunks, PTL

-----------------------------------------------------------------------------
(* The entries read from one row *)

\* Where the entries of each paragraph of a chunk end in the walk of its blob.
LocalEnds(r, units, sec, Q, O) ==
  [i \in 0..PieceCount(r) |->
     IF i = 0 THEN 0
     ELSE (IF i = PieceCount(r) THEN CoveredTo(r, units, sec, Q, O) ELSE O[r.pStart + i])
            - BeginsAt(r, units, Q, O)]

\* Those ends are the ends in the section's walk, counted from where the chunk begins.
LEMMA LocalEndsAre ==
  ASSUME NEW sec, NEW units, NEW Q, NEW O, Setting(sec, units, Q, O),
         NEW r \in RangeSet, InPlace(r, sec, Q), units = "paragraph" => ~r.mid,
         NEW m, NEW a, NEW S, NEW c, NEW d, PieceAt(sec, Q, r, m, a, S, c, d),
         NEW u, u = BeginsAt(r, units, Q, O), NEW E, E = LocalEnds(r, units, sec, Q, O)
  PROVE  /\ IsPartialSums(E, Widths(units, m, c, PieceCoarse(r, sec)), m)
         /\ u \in Nat /\ E[m] = CoveredTo(r, units, sec, Q, O) - u
         /\ \A i \in 1..m :
              /\ E[i - 1] \in Nat /\ E[i] \in Nat
              /\ u + E[i - 1] = O[(a + i) - 1] + (IF Wide(units, sec, a + i) THEN d[i] ELSE 0)
              /\ E[i] = E[i - 1] + (IF Wide(units, sec, a + i) THEN c[i] ELSE 1)
              /\ Wide(units, sec, a + i) <=> ~(units = "paragraph" \/ i \in PieceCoarse(r, sec))
<1> DEFINE t == CoveredTo(r, units, sec, Q, O)
           q == Reached(r)
           z == r.sStart
           e == r.sEnd
           n == Len(sec)
           wide(p) == Wide(units, sec, p)
           g == PieceCoarse(r, sec)
           F == [i \in 0..m |-> IF i = 0 THEN u ELSE IF i = m THEN t ELSE O[a + i]]
<1>1. /\ m \in Nat \ {0} /\ a \in Nat /\ a + m = q /\ q <= n /\ z \in Nat /\ e \in Nat /\ n \in Nat
      /\ r.first = a + 1 /\ (r.mid => m = 1) /\ S[m] = e - z /\ S[0] = 0
  BY PieceFacts, SettingSteps DEF IsPartialSums
<1>2. (~r.mid => z = Q[a])
  BY PieceFacts
<1>3. c \in [1..m -> Nat] /\ d \in [1..m -> Nat]
  BY PieceFacts
<1>4. \A i \in 1..m : /\ a + i \in 1..n
                      /\ Q[(a + i) - 1] + d[i] = z + S[i - 1]
                      /\ S[i - 1] \in Nat /\ S[i] \in Nat /\ S[i] = S[i - 1] + c[i]
                      /\ (i < m => d[i] + c[i] = sec[a + i])
                      /\ (i > 1 => d[i] = 0)
  <2> HIDE DEF n, z
  <2> TAKE i \in 1..m
  <2>1. a + i \in 1..n
    BY PieceFacts DEF n
  <2>2. Q[(a + i) - 1] + d[i] = z + S[i - 1]
    BY PieceFacts, SMTT(60) DEF z
  <2>3. S[i - 1] \in Nat /\ S[i] \in Nat /\ S[i] = S[i - 1] + c[i]
    BY PieceFacts
  <2>4. (i < m => d[i] + c[i] = sec[a + i]) /\ (i > 1 => d[i] = 0)
    BY PieceFacts
  <2> QED BY <2>1, <2>2, <2>3, <2>4
<1>5. \A p \in 1..n : /\ sec[p] \in Nat /\ Q[p - 1] \in Nat /\ O[p - 1] \in Nat /\ O[p] \in Nat
                      /\ O[p] = O[p - 1] + IF wide(p) THEN sec[p] ELSE 1
  BY SettingSteps
<1>6. u \in Nat /\ t \in Nat
  BY BeginsIs, CoveredIs
<1>7. u = IF ~r.mid THEN O[a] ELSE O[a] + (z - Q[a])
  <2>1. r.pStart = a
    BY DEF PieceAt
  <2>2. units = "paragraph" \/ units = "sentence"
    BY DEF Setting, Kinds
  <2> QED BY <2>1, <2>2 DEF BeginsAt
<1>8. t = O[q - 1] + IF wide(q) THEN e - Q[q - 1] ELSE 1
  BY DEF CoveredTo
<1>9. r.mid => wide(a + 1)
  <2>1. r.mid => sec[r.first] # 0 /\ units # "paragraph"
    BY ReachedIs
  <2>2. units = "paragraph" \/ units = "sentence"
    BY DEF Setting, Kinds
  <2> QED BY <1>1, <2>1, <2>2 DEF Wide
<1>10. \A i \in 1..m : wide(a + i) <=> ~(units = "paragraph" \/ i \in g)
  <2>1. g = {i \in 1..m : sec[a + i] = 0}
    BY DEF PieceCoarse, PieceAt
  <2>2. units = "paragraph" \/ units = "sentence"
    BY DEF Setting, Kinds
  <2> HIDE DEF g
  <2> QED BY <2>1, <2>2 DEF Wide
<1>11. m = PieceCount(r) /\ a = r.pStart
  BY DEF PieceAt
<1>12. E = [i \in 0..m |-> IF i = 0 THEN 0 ELSE (IF i = m THEN t ELSE O[a + i]) - u]
  BY <1>11 DEF LocalEnds
<1>13. F[0] = u /\ F[m] = t /\ \A i \in 1..m : i < m => F[i] = O[a + i]
  BY <1>1
<1> HIDE DEF t, q, z, e, n, g, F, wide
<1>14. ASSUME NEW i \in 1..m
       PROVE  /\ F[i - 1] = O[(a + i) - 1] + (IF wide(a + i) THEN d[i] ELSE 0)
              /\ F[i] = F[i - 1] + (IF wide(a + i) THEN c[i] ELSE 1)
              /\ F[i - 1] \in Nat /\ F[i] \in Nat
  <2> DEFINE o == O[(a + i) - 1]
             b == Q[(a + i) - 1]
             w == wide(a + i)
             x == d[i]
             y == c[i]
             s == S[i - 1]
             l == sec[a + i]
  <2>1. /\ o \in Nat /\ b \in Nat /\ x \in Nat /\ y \in Nat /\ s \in Nat /\ l \in Nat
        /\ O[a + i] = o + IF w THEN l ELSE 1
        /\ b + x = z + s /\ S[i] = s + y
        /\ (i < m => x + y = l) /\ (i > 1 => x = 0)
    <3>1. a + i \in 1..n
      BY <1>4
    <3>2. l \in Nat /\ b \in Nat /\ o \in Nat /\ O[a + i] = o + IF w THEN l ELSE 1
      BY <1>5, <3>1
    <3>3. x \in Nat /\ y \in Nat
      BY <1>3
    <3> QED BY <1>4, <3>2, <3>3
  <2>2. F[i - 1] = o + IF w THEN x ELSE 0
    <3>1. CASE i = 1
      <4>1. (a + i) - 1 = a /\ F[i - 1] = u /\ s = 0 /\ a + i = a + 1
        BY <1>1, <1>13, <3>1
      <4>2. CASE r.mid
        <5>1. w
          BY <1>9, <4>1, <4>2
        <5>2. u = o + (z - b) /\ z = b + x
          <6> HIDE DEF x, s
          <6>1. u = O[a] + (z - Q[a]) /\ O[a] = o /\ Q[a] = b
            BY <1>7, <4>1, <4>2
          <6> HIDE DEF o, b
          <6>2. z = b + x
            BY <1>1, <2>1, <4>1
          <6> QED BY <6>1, <6>2
        <5> HIDE DEF o, b, x, w
        <5> QED BY <1>1, <2>1, <4>1, <5>1, <5>2
      <4>3. CASE ~r.mid
        <5>1. u = o /\ z = b
          BY <1>2, <1>7, <4>1, <4>3
        <5>2. x = 0
          <6> HIDE DEF o, b, x, s
          <6> QED BY <1>1, <2>1, <4>1, <5>1
        <5> HIDE DEF o, x, w
        <5> QED BY <2>1, <4>1, <5>1, <5>2
      <4> QED BY <4>2, <4>3
    <3>2. CASE i # 1
      <4>1. i - 1 \in 1..m /\ i - 1 < m /\ a + (i - 1) = (a + i) - 1 /\ i > 1
        BY <1>1, <3>2
      <4>2. F[i - 1] = o
        BY <1>13, <4>1
      <4> HIDE DEF o, w, x
      <4> QED BY <2>1, <4>1, <4>2
    <3> QED BY <3>1, <3>2
  <2>3. F[i] = o + IF w THEN x + y ELSE 1
    <3>1. CASE i = m
      <4>1. a + i = q /\ F[i] = t /\ S[i] = e - z
        BY <1>1, <1>13, <3>1
      <4>2. t = o + IF w THEN e - b ELSE 1
        BY <1>8, <4>1
      <4> HIDE DEF o, b, w, x, y, s
      <4>3. e - b = x + y
        BY <1>1, <2>1, <4>1
      <4> QED BY <4>1, <4>2, <4>3
    <3>2. CASE i # m
      <4>1. i < m
        BY <1>1, <3>2
      <4>2. F[i] = O[a + i]
        BY <1>13, <4>1
      <4> QED BY <2>1, <4>1, <4>2
    <3> QED BY <3>1, <3>2
  <2> HIDE DEF o, w, x, y
  <2>4. F[i] = F[i - 1] + (IF w THEN y ELSE 1) /\ F[i - 1] \in Nat /\ F[i] \in Nat
    BY <2>1, <2>2, <2>3
  <2> QED BY <2>2, <2>4 DEF o, w, x, y
<1>15. \A i \in 0..m : F[i] \in Nat /\ u <= F[i]
  <2> DEFINE T == {i \in 0..m : F[i] \in Nat /\ u <= F[i]}
  <2>1. 0 \in T
    BY <1>1, <1>6, <1>13
  <2>2. \A i \in 0..m : i < m /\ i \in T => i + 1 \in T
    <3> TAKE i \in 0..m
    <3> HAVE i < m /\ i \in T
    <3>1. i + 1 \in 1..m /\ (i + 1) - 1 = i
      BY <1>1
    <3>2. F[i + 1] = F[i] + (IF wide(a + (i + 1)) THEN c[i + 1] ELSE 1) /\ F[i + 1] \in Nat
      BY <1>14, <3>1
    <3>3. c[i + 1] \in Nat
      BY <1>3, <3>1
    <3> QED BY <1>6, <3>1, <3>2, <3>3
  <2> HIDE DEF T
  <2>3. \A i \in 0..m : i \in T
    BY <1>1, <2>1, <2>2, BoundedInduction
  <2> QED BY <2>3 DEF T
<1>16. \A i \in 0..m : E[i] = F[i] - u
  <2> TAKE i \in 0..m
  <2>1. CASE i = 0
    BY <1>6, <1>12, <1>13, <2>1
  <2>2. CASE i # 0
    <3>1. i \in 1..m /\ (i # m => i < m)
      BY <1>1, <2>2
    <3>2. F[i] = IF i = m THEN t ELSE O[a + i]
      BY <1>13, <3>1
    <3> QED BY <1>12, <2>2, <3>2
  <2> QED BY <2>1, <2>2
<1>17. ASSUME NEW i \in 1..m
       PROVE  /\ E[i - 1] \in Nat /\ E[i] \in Nat
              /\ u + E[i - 1] = O[(a + i) - 1] + (IF wide(a + i) THEN d[i] ELSE 0)
              /\ E[i] = E[i - 1] + (IF wide(a + i) THEN c[i] ELSE 1)
  <2>1. i - 1 \in 0..m /\ i \in 0..m
    BY <1>1
  <2> DEFINE x == F[i - 1]
             y == F[i]
             w == IF wide(a + i) THEN c[i] ELSE 1
  <2>2. x \in Nat /\ y \in Nat /\ u <= x /\ u <= y /\ y = x + w
    BY <1>14, <1>15, <2>1
  <2>3. E[i - 1] = x - u /\ E[i] = y - u
    BY <1>16, <2>1
  <2>4. w \in Nat
    BY <1>3
  <2> HIDE DEF x, y, w
  <2>5. E[i - 1] \in Nat /\ E[i] \in Nat /\ u + E[i - 1] = x /\ E[i] = E[i - 1] + w
    BY <1>6, <2>2, <2>3, <2>4
  <2> QED BY <1>14, <2>5 DEF x, w
<1>18. IsPartialSums(E, Widths(units, m, c, g), m)
  <2>1. E[0] = 0
    BY <1>1, <1>12
  <2>2. \A i \in 0..m : E[i] \in Nat
    <3> TAKE i \in 0..m
    <3>1. i = 0 \/ i \in 1..m
      BY <1>1
    <3> QED BY <1>17, <2>1, <3>1
  <2>3. E \in [0..m -> Nat]
    BY <1>12, <2>2
  <2>4. \A i \in 1..m : Widths(units, m, c, g)[i] = IF wide(a + i) THEN c[i] ELSE 1
    BY <1>10 DEF Widths
  <2> HIDE DEF wide
  <2>5. \A i \in 1..m : E[i] = E[i - 1] + Widths(units, m, c, g)[i]
    BY <1>17, <2>4
  <2> QED BY <2>1, <2>3, <2>5 DEF IsPartialSums
<1>19. E[m] = t - u
  BY <1>1, <1>13, <1>16
<1>20. \A i \in 1..m :
         /\ E[i - 1] \in Nat /\ E[i] \in Nat
         /\ u + E[i - 1] = O[(a + i) - 1] + (IF wide(a + i) THEN d[i] ELSE 0)
         /\ E[i] = E[i - 1] + (IF wide(a + i) THEN c[i] ELSE 1)
         /\ wide(a + i) <=> ~(units = "paragraph" \/ i \in g)
  BY <1>10, <1>17
<1> QED BY <1>6, <1>18, <1>19, <1>20 DEF t, g, wide

\* An entry of a chunk with the section's indices.
Absolute(entry, first) == [entry EXCEPT !.unit.para = @ + first]

\* An entry made absolute.
LEMMA AbsoluteIs ==
  ASSUME NEW p, NEW s, NEW b, NEW first
  PROVE  Absolute([unit |-> [para |-> p, sent |-> s], eligible |-> b], first) =
           [unit |-> [para |-> p + first, sent |-> s], eligible |-> b]
BY DEF Absolute

\* The walk of a chunk's blob lists the run of the section's walk from where the chunk begins to
\* where it covers.
LEMMA LocalWalk ==
  ASSUME NEW sec, NEW units, NEW Q, NEW O, Setting(sec, units, Q, O),
         NEW r \in RangeSet, InPlace(r, sec, Q), units = "paragraph" => ~r.mid,
         NEW L, IsPiece(L, 0, PieceCount(r), PieceCounts(r, Q), PieceSkips(r, Q),
                        PieceCoarse(r, sec), PieceEnds(r, Q)),
         NEW W, W = Walk(LayoutOf(sec), units), NEW X, X = Walk(L, units),
         NEW u, u = BeginsAt(r, units, Q, O)
  PROVE  /\ X \in Seq(Entries) /\ Len(X) = CoveredTo(r, units, sec, Q, O) - u /\ u \in Nat
         /\ \A j \in 1..Len(X) : Absolute(X[j], r.first) = W[u + j]
<1> DEFINE m == PieceCount(r)
           a == r.pStart
           S == PieceEnds(r, Q)
           c == PieceCounts(r, Q)
           d == PieceSkips(r, Q)
           g == PieceCoarse(r, sec)
           E == LocalEnds(r, units, sec, Q, O)
           t == CoveredTo(r, units, sec, Q, O)
           n == Len(sec)
           V == Widths(units, m, c, g)
           wide(p) == Wide(units, sec, p)
<1>1. PieceAt(sec, Q, r, m, a, S, c, d)
  BY DEF PieceAt
<1>2. g = {i \in 1..m : sec[a + i] = 0}
  BY DEF PieceCoarse
<1>3. IsPiece(L, 0, m, c, d, g, S)
  OBVIOUS
<1> HIDE DEF m, a, S, c, d, g, E, t, n
<1>4. /\ IsPartialSums(E, V, m) /\ u \in Nat /\ E[m] = t - u
      /\ \A i \in 1..m :
           /\ E[i - 1] \in Nat /\ E[i] \in Nat
           /\ u + E[i - 1] = O[(a + i) - 1] + (IF wide(a + i) THEN d[i] ELSE 0)
           /\ E[i] = E[i - 1] + (IF wide(a + i) THEN c[i] ELSE 1)
           /\ wide(a + i) <=> ~(units = "paragraph" \/ i \in g)
  BY <1>1, LocalEndsAre DEF E, t, g
<1>5. units \in Kinds
  BY DEF Setting
<1>6. IsWalk(X, units, 0, m, c, d, g, E)
  BY <1>3, <1>4, <1>5, WalkIs
<1>7. /\ m \in Nat \ {0} /\ a \in Nat /\ r.first = a + 1
      /\ c \in [1..m -> Nat] /\ d \in [1..m -> Nat]
  BY <1>1, PieceFacts
<1>8. \A i \in 1..m : a + i \in 1..n /\ d[i] + c[i] <= sec[a + i]
  <2> TAKE i \in 1..m
  <2>1. a + i \in 1..n
    BY <1>1, PieceFacts DEF n
  <2>2. d[i] + c[i] <= sec[a + i]
    BY <1>1, PieceFacts
  <2> QED BY <2>1, <2>2
<1>9. \A p \in 1..n : sec[p] \in Nat /\ O[p - 1] \in Nat
  BY SettingSteps DEF n
<1>10. V \in [1..m -> Nat]
  BY <1>7 DEF Widths
<1>11. X \in Seq(Entries) /\ Len(X) = E[m] /\ E[m] = t - u
  BY <1>4, <1>6 DEF IsWalk
<1> HIDE DEF V
<1>12. ASSUME NEW j \in 1..Len(X)
       PROVE  Absolute(X[j], r.first) = W[u + j]
  <2>1. j \in 1..E[m] /\ j \in Nat
    BY <1>11
  <2>2. PICK i \in 1..m : E[i - 1] < j /\ j <= E[i]
    BY <1>4, <1>7, <1>10, <2>1, PartialSumsLocate
  <2> DEFINE p == a + i
             x == E[i - 1]
             y == c[i]
             k == d[i]
             o == O[p - 1]
             l == sec[p]
             s == j - x
  <2>3. /\ p \in 1..n /\ x \in Nat /\ y \in Nat /\ k \in Nat /\ o \in Nat /\ l \in Nat
        /\ k + y <= l /\ u + x = o + (IF wide(p) THEN k ELSE 0)
        /\ E[i] = x + IF wide(p) THEN y ELSE 1
    BY <1>4, <1>7, <1>8, <1>9
  <2>4. ((0 + i) - 1) + r.first = p
    BY <1>7
  <2>5. CASE wide(p)
    <3> HIDE DEF x, y, k, o, l, p, wide
    <3>0. x < j /\ j <= E[i]
      BY <2>2 DEF x
    <3>1. s \in 1..y /\ x + s = j /\ k + s \in 1..l /\ o + (k + s) = u + j
      <4> DEFINE e == E[i]
      <4>1. e = x + y /\ u + x = o + k /\ x < j /\ j <= e /\ j \in Nat
        BY <2>1, <2>3, <2>5, <3>0
      <4>2. x \in Nat /\ y \in Nat /\ k \in Nat /\ o \in Nat /\ l \in Nat /\ k + y <= l /\ u \in Nat
        BY <1>4, <2>3
      <4> HIDE DEF e
      <4> QED BY <4>1, <4>2
    <3> HIDE DEF s
    <3>2. X[x + s] = [unit |-> Sentence((0 + i) - 1, k + s), eligible |-> TRUE]
      <4>1. ~(units = "paragraph" \/ i \in g)
        BY <1>4, <2>5 DEF p
      <4> QED BY <1>6, <3>1, <4>1 DEF IsWalk, x, y, k
    <3>3. W[o + (k + s)] = [unit |-> Sentence(p, k + s), eligible |-> TRUE]
      <4>1. Wide(units, sec, p)
        BY <2>5 DEF wide
      <4>2. p \in 1..Len(sec)
        BY <2>3 DEF n
      <4>3. \A v \in 1..sec[p] : W[O[p - 1] + v] = [unit |-> Sentence(p, v), eligible |-> TRUE]
        <5>1. IF Wide(units, sec, p)
                THEN \A v \in 1..sec[p] : W[O[p - 1] + v] = [unit |-> Sentence(p, v), eligible |-> TRUE]
                ELSE W[O[p - 1] + 1] = [unit |-> Paragraph(p), eligible |-> p \notin CoarseOf(sec)]
          BY <4>2, WalkPlaces
        <5> QED BY <4>1, <5>1
      <4> QED BY <3>1, <4>3 DEF o, l
    <3>4. Absolute(X[j], r.first) = [unit |-> Sentence(p, k + s), eligible |-> TRUE]
      <4> DEFINE v == k + s
      <4>1. X[j] = [unit |-> Sentence((0 + i) - 1, v), eligible |-> TRUE]
        BY <3>1, <3>2
      <4> HIDE DEF v
      <4>2. Absolute(X[j], r.first) = [unit |-> Sentence(p, v), eligible |-> TRUE]
        <5> DEFINE w == (0 + i) - 1
                   b == TRUE
        <5>1. X[j] = [unit |-> [para |-> w, sent |-> v], eligible |-> b] /\ w + r.first = p
          BY <2>4, <4>1 DEF Sentence
        <5> HIDE DEF w, p, b
        <5>2. Absolute(X[j], r.first) = [unit |-> [para |-> p, sent |-> v], eligible |-> b]
          BY <5>1, AbsoluteIs
        <5> QED BY <5>2 DEF Sentence, b
      <4> QED BY <4>2 DEF v
    <3> QED BY <3>1, <3>3, <3>4
  <2>6. CASE ~wide(p)
    <3> HIDE DEF x, y, k, o, l, p, wide
    <3>1. j = x + 1 /\ u + j = o + 1
      BY <1>4, <2>1, <2>2, <2>3, <2>6 DEF x
    <3>2. X[x + 1] = [unit |-> Paragraph((0 + i) - 1), eligible |-> i \notin g]
      <4>1. units = "paragraph" \/ i \in g
        BY <1>4, <2>6 DEF p
      <4> QED BY <1>6, <4>1 DEF IsWalk, x
    <3>3. W[o + 1] = [unit |-> Paragraph(p), eligible |-> p \notin CoarseOf(sec)]
      <4>1. ~Wide(units, sec, p)
        BY <2>6 DEF wide
      <4>2. p \in 1..Len(sec)
        BY <2>3 DEF n
      <4> QED BY <4>1, <4>2, WalkPlaces DEF o
    <3>4. (i \notin g) = (p \notin CoarseOf(sec))
      BY <1>2, <2>3 DEF CoarseOf, p, n
    <3>5. Absolute(X[j], r.first) = [unit |-> Paragraph(p), eligible |-> i \notin g]
      BY <2>4, <3>1, <3>2 DEF Absolute, Paragraph
    <3> QED BY <3>1, <3>3, <3>4, <3>5
  <2> QED BY <2>5, <2>6
<1> QED BY <1>4, <1>11, <1>12 DEF t

\* C counts what the policy keeps of the list.
KeptCounts(C, list, policy) ==
  list \in Seq(Entries) /\ Counts(C, KeptSet(list, policy), Len(list))

\* Where what a policy keeps of a walk is in the stream.
LEMMA KeptPlaces ==
  ASSUME NEW list, NEW policy, NEW C, KeptCounts(C, list, policy)
  PROVE  /\ Kept(list, policy) \in Seq(Entries)
         /\ Len(Kept(list, policy)) = C[Len(list)]
         /\ \A i \in 1..Len(list) :
              i \in KeptSet(list, policy) => Kept(list, policy)[C[i]] = list[i]
BY KeptIs DEF KeptCounts

\* X has the eligibility of the entries of W after the first u and up to the t-th.
RunsFrom(X, W, policy, u, t, C) ==
  /\ KeptCounts(C, W, policy) /\ X \in Seq(Entries)
  /\ u \in Nat /\ t \in Nat /\ u <= t /\ t <= Len(W) /\ Len(X) = t - u
  /\ \A j \in 1..Len(X) : X[j].eligible = W[u + j].eligible

\* What a policy keeps of a run of a walk is the run of what it keeps of the walk.
LEMMA KeptRun ==
  ASSUME NEW W, NEW X, NEW policy, NEW u, NEW t, NEW C, RunsFrom(X, W, policy, u, t, C)
  PROVE  /\ C[u] \in Nat /\ C[t] \in Nat /\ C[u] <= C[t] /\ C[t] <= C[Len(W)] /\ C[Len(W)] \in Nat
         /\ Kept(X, policy) \in Seq(Entries) /\ Len(Kept(X, policy)) = C[t] - C[u]
         /\ Kept(W, policy) \in Seq(Entries) /\ Len(Kept(W, policy)) = C[Len(W)]
         /\ \A q \in 1..Len(Kept(X, policy)) :
              \E j \in 1..Len(X) : Kept(X, policy)[q] = X[j] /\ Kept(W, policy)[C[u] + q] = W[u + j]
<1> DEFINE n == Len(W)
           l == Len(X)
           K == KeptSet(W, policy)
           M == KeptSet(X, policy)
           D == [j \in 0..l |-> C[u + j] - C[u]]
<1>0. /\ W \in Seq(Entries) /\ X \in Seq(Entries) /\ KeptCounts(C, W, policy)
      /\ u \in Nat /\ t \in Nat /\ u <= t /\ t <= n /\ l = t - u
      /\ \A j \in 1..l : X[j].eligible = W[u + j].eligible
  BY DEF RunsFrom, KeptCounts
<1>1. /\ n \in Nat /\ l \in Nat /\ l = t - u /\ u + l = t /\ u \in 0..n /\ t \in u..n
      /\ t \in 0..n /\ n \in t..n /\ u \in Nat /\ t \in Nat
  BY <1>0
<1>4. Counts(C, K, n)
  BY <1>0 DEF KeptCounts
<1>2. C[u] \in Nat /\ C[t] \in Nat /\ C[u] <= C[t] /\ C[t] <= C[n] /\ C[n] \in Nat
  <2> HIDE DEF K
  <2>1. C[u] <= C[t] /\ C[u] \in Nat /\ C[t] \in Nat
    BY <1>1, <1>4, CountsGrow
  <2>2. C[t] <= C[n] /\ C[n] \in Nat
    BY <1>1, <1>4, CountsGrow
  <2> QED BY <2>1, <2>2
<1>3. \A j \in 1..l : j \in M <=> u + j \in K
  <2> TAKE j \in 1..l
  <2>1. u + j \in 1..n /\ X[j].eligible = W[u + j].eligible
    BY <1>0, <1>1
  <2> QED BY <2>1 DEF KeptSet
<1> HIDE DEF K, M
<1>5. ASSUME NEW j \in 0..l PROVE C[u + j] \in Nat /\ C[u] <= C[u + j]
  <2>1. u + j \in u..n
    BY <1>1
  <2> QED BY <1>1, <1>4, <2>1, CountsGrow
<1>6. Counts(D, M, l)
  <2>1. \A j \in 0..l : D[j] \in Nat /\ D[j] = C[u + j] - C[u]
    <3> TAKE j \in 0..l
    <3>1. D[j] = C[u + j] - C[u]
      OBVIOUS
    <3> DEFINE x == C[u + j]
               y == C[u]
               z == D[j]
    <3>2. x \in Nat /\ y \in Nat /\ y <= x /\ z = x - y
      BY <1>2, <1>5, <3>1
    <3> HIDE DEF x, y, z
    <3>3. z \in Nat
      BY <3>2
    <3> QED BY <3>1, <3>3 DEF z
  <2>2. D \in [0..l -> Nat]
    <3>1. D = [j \in 0..l |-> D[j]]
      OBVIOUS
    <3> HIDE DEF D
    <3> QED BY <2>1, <3>1
  <2> HIDE DEF D
  <2>3. D[0] = 0
    <3>1. 0 \in 0..l /\ u + 0 = u
      BY <1>1
    <3> QED BY <1>2, <2>1, <3>1
  <2>4. ASSUME NEW j \in 1..l PROVE D[j] = D[j - 1] + IF j \in M THEN 1 ELSE 0
    <3>1. j - 1 \in 0..l /\ j \in 0..l /\ u + j \in 1..n /\ (u + j) - 1 = u + (j - 1)
      BY <1>1
    <3>2. C[u + j] = C[u + (j - 1)] + IF u + j \in K THEN 1 ELSE 0
      BY <1>4, <3>1 DEF Counts
    <3>3. D[j] = C[u + j] - C[u] /\ D[j - 1] = C[u + (j - 1)] - C[u]
      BY <2>1, <3>1
    <3>4. C[u + j] \in Nat /\ C[u + (j - 1)] \in Nat
      BY <1>5, <3>1
    <3>5. (u + j \in K) = (j \in M)
      BY <1>3
    <3> DEFINE x == C[u + j]
               w == C[u + (j - 1)]
               y == C[u]
               b == IF j \in M THEN 1 ELSE 0
    <3>6. x = w + b /\ D[j] = x - y /\ D[j - 1] = w - y /\ x \in Nat /\ w \in Nat /\ y \in Nat /\ b \in Nat
      BY <1>2, <3>2, <3>3, <3>4, <3>5
    <3> HIDE DEF x, w, y, b
    <3>7. D[j] = D[j - 1] + b
      BY <3>6
    <3> QED BY <3>7 DEF b
  <2> QED BY <2>2, <2>3, <2>4 DEF Counts
<1>7. D[l] = C[t] - C[u] /\ \A j \in 1..l : D[j] = C[u + j] - C[u]
  BY <1>1
<1> HIDE DEF D
<1>8. /\ Kept(X, policy) \in Seq(Entries) /\ Len(Kept(X, policy)) = D[l]
      /\ \A j \in 1..l : j \in M => Kept(X, policy)[D[j]] = X[j]
  <2>1. KeptCounts(D, X, policy)
    BY <1>0, <1>6 DEF M, KeptCounts
  <2>2. Kept(X, policy) \in Seq(Entries) /\ Len(Kept(X, policy)) = D[l]
    BY <2>1, KeptPlaces
  <2>3. \A j \in 1..Len(X) : j \in KeptSet(X, policy) => Kept(X, policy)[D[j]] = X[j]
    BY <2>1, KeptPlaces
  <2> QED BY <2>2, <2>3 DEF M
<1>9. /\ Kept(W, policy) \in Seq(Entries) /\ Len(Kept(W, policy)) = C[n]
      /\ \A i \in 1..n : i \in K => Kept(W, policy)[C[i]] = W[i]
  BY <1>0, KeptPlaces DEF K
<1>10. ASSUME NEW q \in 1..Len(Kept(X, policy))
       PROVE  \E j \in 1..l : Kept(X, policy)[q] = X[j] /\ Kept(W, policy)[C[u] + q] = W[u + j]
  <2>1. q \in 1..D[l]
    BY <1>8
  <2>2. PICK j \in 1..l : j \in M /\ D[j] = q
    BY <1>1, <1>6, <2>1, CountsPlace
  <2>3. u + j \in 1..n /\ u + j \in K
    BY <1>1, <1>3, <2>2
  <2>4. C[u + j] = C[u] + q
    <3>1. j \in 0..l
      BY <2>2
    <3>2. C[u + j] \in Nat /\ C[u + j] - C[u] = q
      BY <1>5, <1>7, <2>2, <3>1
    <3> QED BY <1>2, <3>2
  <2>5. Kept(X, policy)[q] = X[j] /\ Kept(W, policy)[C[u] + q] = W[u + j]
    BY <1>8, <1>9, <2>2, <2>3, <2>4
  <2> QED BY <2>5
<1> QED BY <1>2, <1>7, <1>8, <1>9, <1>10

\* The streams of the stored section: O its offsets, W its walk and C the counts of what the policy keeps.
Reading(R, Q, units, policy, O, W, C) ==
  /\ Holding(R, Q) /\ policy \in Policies /\ Setting(section, units, Q, O)
  /\ W = Walk(LayoutOf(section), units)
  /\ Counts(C, KeptSet(W, policy), O[Len(section)])

\* Where a chunk's entries end in a stream.
StreamEnds(R, Q, units, O, C) == [k \in 0..Len(R) |-> C[Ends(R, units, section, Q, O)[k]]]

\* What ChunkEntries returns is the stream from where the row starts in it.
LEMMA RowEntries ==
  ASSUME NEW R, NEW Q, NEW units, NEW policy, NEW O, NEW W, NEW C, Reading(R, Q, units, policy, O, W, C),
         NEW k \in 1..Len(R), units = "paragraph" => ~R[k].mid,
         NEW D, D = StreamEnds(R, Q, units, O, C), NEW y, y = ChunkEntries(k, units, policy)
  PROVE  /\ y \in Seq(Entries) /\ Len(y) = D[k] - D[k - 1]
         /\ \A j \in 1..Len(y) : y[j] = Kept(W, policy)[D[k - 1] + j]
<1> DEFINE r == R[k]
           L == rows[k].blob
           X == Walk(L, units)
           u == BeginsAt(r, units, Q, O)
           t == CoveredTo(r, units, section, Q, O)
           n == O[Len(section)]
           B == Ends(R, units, section, Q, O)
           stream == Kept(W, policy)
           local == Kept(X, policy)
<1>1. /\ r \in RangeSet /\ InPlace(r, section, Q) /\ rows[k].first = r.first
      /\ IsPiece(L, 0, PieceCount(r), PieceCounts(r, Q), PieceSkips(r, Q),
                 PieceCoarse(r, section), PieceEnds(r, Q))
  BY HoldingRow DEF Reading
<1>2. Setting(section, units, Q, O) /\ W = Walk(LayoutOf(section), units)
      /\ Counts(C, KeptSet(W, policy), n)
  BY DEF Reading
<1>3. y = [j \in 1..Len(local) |-> Absolute(local[j], r.first)]
  BY <1>1 DEF ChunkEntries, Absolute
<1>4. B[k - 1] = u /\ B[k] = t /\ u <= t /\ u \in Nat /\ t \in Nat
  <2>1. Tiles(R, section, Q) /\ section # <<>>
    BY DEF Reading, Holding, StoredAs
  <2>2. \A x \in 1..Len(R) :
          /\ B[x - 1] = BeginsAt(R[x], units, Q, O)
          /\ B[x] = CoveredTo(R[x], units, section, Q, O)
          /\ B[x - 1] \in Nat /\ B[x] \in Nat /\ B[x - 1] <= B[x]
    <3> HIDE DEF B
    <3> QED BY <1>2, <2>1, EndsAre DEF B
  <2> HIDE DEF B, u, t
  <2>3. B[k - 1] = u /\ B[k] = t
    BY <2>2 DEF u, t, r
  <2> QED BY <2>2, <2>3
<1>5. t <= n /\ n \in Nat
  <2>1. t <= O[Reached(r)] /\ O[Reached(r)] <= n /\ n \in Nat
    BY <1>1, <1>2, CoveredIs
  <2>2. Reached(r) \in 1..Len(section) /\ Len(section) \in Nat
    BY <1>1, <1>2, ReachedIs, SettingSteps
  <2>3. O[Reached(r)] \in Nat
    BY <1>2, <2>2, SettingSteps
  <2> HIDE DEF t, n
  <2> QED BY <1>4, <2>1, <2>3
<1>6. D[k - 1] = C[u] /\ D[k] = C[t]
  <2>1. Len(R) \in Nat
    BY HoldingRow DEF Reading
  <2>2. k - 1 \in 0..Len(R) /\ k \in 0..Len(R)
    BY <2>1
  <2> QED BY <1>4, <2>2 DEF StreamEnds
<1>7. W \in Seq(Entries) /\ Len(W) = n
  BY <1>2, WalkPlaces
<1> HIDE DEF r, L, u, t, n, B
<1>8. /\ X \in Seq(Entries) /\ Len(X) = t - u
      /\ \A j \in 1..Len(X) : Absolute(X[j], r.first) = W[u + j]
  <2> HIDE DEF X
  <2>1. X = Walk(L, units) /\ (units = "paragraph" => ~r.mid)
    BY DEF X, r
  <2>2. X \in Seq(Entries) /\ Len(X) = t - u
    BY <1>1, <1>2, <2>1, LocalWalk DEF u, t
  <2>3. \A j \in 1..Len(X) : Absolute(X[j], r.first) = W[u + j]
    BY <1>1, <1>2, <2>1, LocalWalk DEF u
  <2> QED BY <2>2, <2>3
<1> HIDE DEF X
<1>9. \A j \in 1..Len(X) : X[j].eligible = W[u + j].eligible
  <2> TAKE j \in 1..Len(X)
  <2>1. X[j] \in Entries /\ W[u + j] = Absolute(X[j], r.first)
    BY <1>8
  <2>2. Absolute(X[j], r.first).eligible = X[j].eligible
    BY <2>1 DEF Absolute, Entries
  <2> QED BY <2>1, <2>2
<1>10. RunsFrom(X, W, policy, u, t, C)
  <2>1. KeptCounts(C, W, policy) /\ t <= Len(W)
    BY <1>2, <1>5, <1>7 DEF KeptCounts
  <2> QED BY <1>4, <1>8, <1>9, <2>1 DEF RunsFrom
<1>11. /\ C[u] \in Nat /\ C[t] \in Nat /\ C[u] <= C[t] /\ C[t] <= C[Len(W)] /\ C[Len(W)] \in Nat
       /\ local \in Seq(Entries) /\ Len(local) = C[t] - C[u]
       /\ stream \in Seq(Entries) /\ Len(stream) = C[Len(W)]
  <2>1. /\ C[u] \in Nat /\ C[t] \in Nat /\ C[u] <= C[t]
        /\ C[t] <= C[Len(W)] /\ C[Len(W)] \in Nat
    BY <1>10, KeptRun
  <2>2. local \in Seq(Entries) /\ Len(local) = C[t] - C[u]
    BY <1>10, KeptRun
  <2>3. stream \in Seq(Entries) /\ Len(stream) = C[Len(W)]
    BY <1>10, KeptRun
  <2> QED BY <2>1, <2>2, <2>3
<1>12. \A q \in 1..Len(local) :
         \E j \in 1..Len(X) : local[q] = X[j] /\ stream[C[u] + q] = W[u + j]
  BY <1>10, KeptRun
<1> HIDE DEF local, stream
<1>13. ASSUME NEW q \in 1..Len(local)
       PROVE  Absolute(local[q], r.first) = stream[C[u] + q] /\ stream[C[u] + q] \in Entries
  <2>1. PICK j \in 1..Len(X) : local[q] = X[j] /\ stream[C[u] + q] = W[u + j]
    BY <1>12
  <2>2. Absolute(X[j], r.first) = W[u + j]
    BY <1>8, <2>1
  <2>3. C[u] + q \in 1..Len(stream)
    BY <1>11, SMTT(40)
  <2> QED BY <1>11, <2>1, <2>2, <2>3, SMTT(40)
<1> DEFINE rel(q) == Absolute(local[q], r.first)
<1>14. \A q \in 1..Len(local) : rel(q) = stream[C[u] + q] /\ rel(q) \in Entries
  BY <1>13
<1>15. y = [q \in 1..Len(local) |-> rel(q)]
  BY <1>3
<1> HIDE DEF rel
<1>16. Len(local) \in Nat
  BY <1>11
<1>17. y \in Seq(Entries) /\ Len(y) = Len(local) /\ \A j \in 1..Len(y) : y[j] = stream[C[u] + j]
  BY <1>14, <1>15, <1>16
<1> QED BY <1>6, <1>11, <1>17 DEF stream

-----------------------------------------------------------------------------
(* A page *)

\* The candidates are rows whose keys are naturals, N the largest there may be.
Ordered(key, candidates, m, N) ==
  /\ m \in Nat /\ N \in Nat
  /\ candidates \subseteq 1..m /\ candidates # {}
  /\ \A k \in candidates : key[k] \in 0..N

\* The last row by a key has the largest key, and is the last of those that have it.
LEMMA LastByIs ==
  ASSUME NEW key, NEW candidates, NEW m, NEW N, Ordered(key, candidates, m, N)
  PROVE  /\ LastBy(key, candidates) \in candidates
         /\ \A j \in candidates :
              \/ key[j] < key[LastBy(key, candidates)]
              \/ key[j] = key[LastBy(key, candidates)] /\ j <= LastBy(key, candidates)
<1> DEFINE T == {key[k] : k \in candidates}
           M == Max(T)
           U == {k \in candidates : key[k] = M}
           l == Max(U)
<1>1. /\ m \in Nat /\ N \in Nat /\ candidates \subseteq 1..m /\ candidates # {}
      /\ \A k \in candidates : key[k] \in 0..N
  BY DEF Ordered
<1>2. M \in T /\ \A y \in T : y <= M
  <2>1. T \subseteq 0..N /\ T # {}
    BY <1>1
  <2> HIDE DEF T
  <2> QED BY <1>1, <2>1, MaxOf
<1>3. l \in U /\ \A y \in U : y <= l
  <2>1. U # {}
    <3> HIDE DEF M
    <3> QED BY <1>2
  <2>2. U \subseteq 0..m
    <3> HIDE DEF M
    <3>1. U \subseteq candidates
      OBVIOUS
    <3>2. 1..m \subseteq 0..m /\ candidates \subseteq 1..m
      BY <1>1
    <3> HIDE DEF U
    <3> QED BY <3>1, <3>2
  <2> HIDE DEF U
  <2> QED BY <1>1, <2>1, <2>2, MaxOf
<1> HIDE DEF l, M
<1>4. \A j \in candidates : key[j] < key[l] \/ (key[j] = key[l] /\ j <= l)
  <2> TAKE j \in candidates
  <2>1. key[j] <= M /\ key[l] = M /\ key[j] \in Nat /\ M \in Nat
    BY <1>1, <1>2, <1>3
  <2>2. CASE key[j] = M
    BY <1>3, <2>1, <2>2
  <2>3. CASE key[j] # M
    BY <2>1, <2>3
  <2> QED BY <2>2, <2>3
<1>5. l \in candidates
  BY <1>3
<1> QED BY <1>4, <1>5 DEF LastBy

\* The last chunk ends with the section's walk.
LEMMA EndsOf ==
  ASSUME NEW sec, NEW units, NEW Q, NEW O, Setting(sec, units, Q, O),
         NEW R, Tiles(R, sec, Q), sec # <<>>
  PROVE  /\ Len(R) \in Nat \ {0} /\ Ends(R, units, sec, Q, O)[0] = 0
         /\ Ends(R, units, sec, Q, O)[Len(R)] = O[Len(sec)]
<1> DEFINE B == Ends(R, units, sec, Q, O)
           m == Len(R)
           n == O[Len(sec)]
           w == [x \in 1..m |-> B[x] - B[x - 1]]
<1>1. /\ B[0] = 0 /\ B[m] = n /\ IsPartialSums(B, w, m) /\ w \in [1..m -> Nat] /\ m \in Nat \ {0}
  BY EndsAre
<1> QED BY <1>1

\* The parts of a stream its chunks hold follow each other and are all of it.
LEMMA StreamEndsAre ==
  ASSUME NEW R, NEW Q, NEW units, NEW policy, NEW O, NEW W, NEW C, Reading(R, Q, units, policy, O, W, C),
         NEW D, D = StreamEnds(R, Q, units, O, C)
  PROVE  /\ Len(R) \in Nat \ {0} /\ Len(rows) = Len(R) /\ D[0] = 0
         /\ Kept(W, policy) \in Seq(Entries) /\ Len(Kept(W, policy)) = D[Len(R)]
         /\ IsPartialSums(D, [k \in 1..Len(R) |-> D[k] - D[k - 1]], Len(R))
         /\ [k \in 1..Len(R) |-> D[k] - D[k - 1]] \in [1..Len(R) -> Nat]
         /\ \A k \in 1..Len(R) :
              /\ rows[k].entry[units][policy] = D[k - 1]
              /\ units = "paragraph" /\ R[k].mid => D[k] = D[k - 1]
<1> DEFINE B == Ends(R, units, section, Q, O)
           m == Len(R)
           n == O[Len(section)]
<1>1. /\ Setting(section, units, Q, O) /\ W = Walk(LayoutOf(section), units) /\ policy \in Policies
      /\ Counts(C, KeptSet(W, policy), n) /\ Holding(R, Q)
  BY DEF Reading
<1>2. Tiles(R, section, Q) /\ section # <<>> /\ Len(rows) = m /\ StartsAt(rows, R, section, Q)
  BY <1>1 DEF Holding, StoredAs
<1>3. /\ m \in Nat \ {0} /\ B[0] = 0 /\ B[m] = n
      /\ \A k \in 1..m : /\ B[k - 1] = BeginsAt(R[k], units, Q, O)
                         /\ B[k] = CoveredTo(R[k], units, section, Q, O)
                         /\ B[k - 1] \in Nat /\ B[k] \in Nat /\ B[k - 1] <= B[k]
  <2> HIDE DEF B
  <2>1. m \in Nat \ {0} /\ B[0] = 0 /\ B[m] = n
    BY <1>1, <1>2, EndsOf DEF B
  <2>2. \A k \in 1..m : /\ B[k - 1] = BeginsAt(R[k], units, Q, O)
                        /\ B[k] = CoveredTo(R[k], units, section, Q, O)
                        /\ B[k - 1] \in Nat /\ B[k] \in Nat /\ B[k - 1] <= B[k]
    BY <1>1, <1>2, EndsAre DEF B
  <2> QED BY <2>1, <2>2
<1>4. W \in Seq(Entries) /\ Len(W) = n
  BY <1>1, WalkPlaces
<1>5. IsPartialSums(B, [k \in 1..m |-> B[k] - B[k - 1]], m)
      /\ [k \in 1..m |-> B[k] - B[k - 1]] \in [1..m -> Nat]
  <2> HIDE DEF B
  <2> QED BY <1>1, <1>2, EndsAre DEF B
<1> HIDE DEF B, n
<1>6. n \in Nat
  BY <1>4
<1>7. \A k \in 0..m : B[k] \in Nat /\ B[k] <= n
  <2> TAKE k \in 0..m
  <2> DEFINE w == [x \in 1..m |-> B[x] - B[x - 1]]
  <2>1. IsPartialSums(B, w, m) /\ w \in [1..m -> Nat]
    BY <1>5
  <2> HIDE DEF w
  <2>2. k \in Nat /\ k <= m /\ m \in Nat
    BY <1>3
  <2>3. B[k] <= B[m] /\ B[k] \in Nat
    BY <2>1, <2>2, SumsGrow
  <2> QED BY <1>3, <2>3
<1>8. D = [k \in 0..m |-> C[B[k]]]
  BY DEF StreamEnds, B
<1>9. \A k \in 0..m : D[k] \in Nat
  <2> TAKE k \in 0..m
  <2>1. B[k] \in 0..n
    BY <1>6, <1>7
  <2> QED BY <1>1, <1>8, <2>1 DEF Counts
<1>10. ASSUME NEW k \in 1..m
       PROVE  D[k - 1] \in Nat /\ D[k] \in Nat /\ D[k - 1] <= D[k]
  <2>1. k - 1 \in 0..m /\ k \in 0..m
    BY <1>3
  <2>2. B[k - 1] \in 0..n /\ B[k] \in B[k - 1]..n
    BY <1>3, <1>6, <1>7, <2>1
  <2>3. C[B[k - 1]] <= C[B[k]]
    BY <1>1, <1>6, <2>2, CountsGrow
  <2> QED BY <1>8, <1>9, <2>1, <2>3
<1>11. D[0] = 0 /\ D[m] = C[n]
  <2>1. 0 \in 0..m /\ m \in 0..m
    BY <1>3
  <2>2. C[0] = 0
    BY <1>1 DEF Counts
  <2> QED BY <1>3, <1>8, <2>1, <2>2
<1> DEFINE w == [k \in 1..m |-> D[k] - D[k - 1]]
<1>12. w \in [1..m -> Nat]
  <2>1. \A k \in 1..m : D[k] - D[k - 1] \in Nat
    <3> TAKE k \in 1..m
    <3> DEFINE x == D[k]
               y == D[k - 1]
    <3>1. x \in Nat /\ y \in Nat /\ y <= x
      BY <1>10
    <3> HIDE DEF x, y
    <3> QED BY <3>1 DEF x, y
  <2> QED BY <2>1
<1>13. IsPartialSums(D, w, m)
  <2>1. D \in [0..m -> Nat]
    BY <1>8, <1>9
  <2>2. ASSUME NEW k \in 1..m PROVE D[k] = D[k - 1] + w[k]
    <3> DEFINE x == D[k]
               y == D[k - 1]
    <3>1. x \in Nat /\ y \in Nat /\ w[k] = x - y
      BY <1>10
    <3> HIDE DEF x, y, w
    <3> QED BY <3>1 DEF x, y
  <2> QED BY <1>11, <2>1, <2>2 DEF IsPartialSums
<1>14. Kept(W, policy) \in Seq(Entries) /\ Len(Kept(W, policy)) = D[m]
  <2>1. KeptCounts(C, W, policy)
    BY <1>1, <1>4 DEF KeptCounts
  <2> QED BY <1>4, <1>11, <2>1, KeptPlaces
<1>15. ASSUME NEW k \in 1..m PROVE rows[k].entry[units][policy] = D[k - 1]
  <2>1. units \in Kinds
    BY <1>1 DEF Setting
  <2>2. rows[k].entry[units][policy] = C[B[k - 1]]
    <3>1. \A x \in 1..Len(R) : rows[x].entry[units][policy] = C[Ends(R, units, section, Q, O)[x - 1]]
      <4>1. Counts(C, KeptSet(Walk(LayoutOf(section), units), policy), O[Len(section)])
        BY <1>1 DEF n
      <4>2. \A P, F : (/\ Setting(section, units, Q, P)
                      /\ Counts(F, KeptSet(Walk(LayoutOf(section), units), policy), P[Len(section)]))
              => \A x \in 1..Len(R) :
                   rows[x].entry[units][policy] = F[Ends(R, units, section, Q, P)[x - 1]]
        BY <1>1, <1>2, <2>1 DEF StartsAt
      <4> HIDE DEF m, n
      <4> QED BY <1>1, <4>1, <4>2
    <3> QED BY <3>1 DEF B
  <2>3. k - 1 \in 0..m
    BY <1>3
  <2> QED BY <1>8, <2>2, <2>3
<1>16. ASSUME NEW k \in 1..m, units = "paragraph", R[k].mid PROVE D[k] = D[k - 1]
  <2>1. R[k] \in RangeSet /\ InPlace(R[k], section, Q)
    BY <1>1, HoldingRow
  <2>2. BeginsAt(R[k], units, Q, O) = O[R[k].first]
    BY <1>16 DEF BeginsAt
  <2>3. CoveredTo(R[k], units, section, Q, O) = O[Reached(R[k])]
    <3>1. ~Wide(units, section, Reached(R[k]))
      BY <1>16 DEF Wide
    <3> QED BY <1>1, <2>1, <3>1, CoveredIs
  <2>4. Reached(R[k]) = R[k].first
    BY <1>1, <1>16, <2>1, ReachedIs
  <2>5. B[k] = B[k - 1]
    BY <1>3, <2>2, <2>3, <2>4
  <2>6. k - 1 \in 0..m /\ k \in 0..m
    BY <1>3
  <2> QED BY <1>8, <2>5, <2>6
<1> QED BY <1>2, <1>3, <1>11, <1>12, <1>13, <1>14, <1>15, <1>16

\* The rows a read takes for mid-paragraph are those of mid ranges.
LEMMA MidRows ==
  ASSUME NEW R, NEW Q, Holding(R, Q), NEW k \in 1..Len(R)
  PROVE  IsMidParagraph(k) <=> R[k].mid
<1> DEFINE r == R[k]
<1>1. /\ (r.mid => k > 1) /\ rows[k].paragraphCount = r.pEnd - r.pStart
      /\ r \in RangeSet /\ InPlace(r, section, Q)
  BY HoldingRow, RangeStarts
<1>2. r.pStart \in Nat /\ r.pEnd \in Nat
  BY <1>1 DEF RangeSet
<1>3. CASE r.mid
  <2>1. r.pEnd = r.pStart
    BY <1>1, <1>3 DEF InPlace
  <2> QED BY <1>1, <1>2, <1>3, <2>1 DEF IsMidParagraph
<1>4. CASE ~r.mid
  <2>1. r.pStart < r.pEnd
    BY <1>1, <1>4 DEF InPlace
  <2> HIDE DEF r
  <2>2. rows[k].paragraphCount # 0
    BY <1>1, <1>2, <2>1
  <2> QED BY <1>4, <2>2 DEF IsMidParagraph, r
<1> QED BY <1>3, <1>4

\* The items of a page.
ListItems == [position : Nat, entry : Entries]

\* The entries of a row with their positions, and those of the rows from one on.
Placed(k, units, policy) ==
  [j \in 1..Len(ChunkEntries(k, units, policy)) |->
     [position |-> rows[k].entry[units][policy] + j - 1, entry |-> ChunkEntries(k, units, policy)[j]]]

\* The items of the rows from one on, without the rows the paragraph stream skips.
ListedFrom(from, units, policy) ==
  FlattenSeq([i \in 1..Len(rows) |->
    IF i < from \/ (units = "paragraph" /\ IsMidParagraph(i)) THEN <<>> ELSE Placed(i, units, policy)])

\* A row's items are those of the stream from the row's stream start.
LEMMA PlacedIs ==
  ASSUME NEW R, NEW Q, NEW units, NEW policy, NEW O, NEW W, NEW C, Reading(R, Q, units, policy, O, W, C),
         NEW k \in 1..Len(R), units = "paragraph" => ~R[k].mid,
         NEW D, D = StreamEnds(R, Q, units, O, C)
  PROVE  /\ Placed(k, units, policy) \in Seq(ListItems)
         /\ Len(Placed(k, units, policy)) = D[k] - D[k - 1]
         /\ \A j \in 1..Len(Placed(k, units, policy)) :
              Placed(k, units, policy)[j] =
                [position |-> D[k - 1] + j - 1, entry |-> Kept(W, policy)[D[k - 1] + j]]
<1> DEFINE y == ChunkEntries(k, units, policy)
           d == D[k - 1]
           stream == Kept(W, policy)
           w == [x \in 1..Len(R) |-> D[x] - D[x - 1]]
           item(j) == [position |-> d + j - 1, entry |-> y[j]]
<1>1. y \in Seq(Entries) /\ Len(y) = D[k] - d /\ \A j \in 1..Len(y) : y[j] = stream[d + j]
  <2> HIDE DEF y
  <2>1. y = ChunkEntries(k, units, policy)
    BY DEF y
  <2> QED BY <2>1, RowEntries
<1>2. rows[k].entry[units][policy] = d
  <2>1. /\ IsPartialSums(D, w, Len(R)) /\ w \in [1..Len(R) -> Nat]
        /\ \A x \in 1..Len(R) : rows[x].entry[units][policy] = D[x - 1]
    BY StreamEndsAre
  <2> HIDE DEF w
  <2>2. k \in 1..Len(R)
    OBVIOUS
  <2> QED BY <2>1, <2>2
<1>3. d \in Nat
  <2>1. IsPartialSums(D, w, Len(R)) /\ w \in [1..Len(R) -> Nat] /\ Len(R) \in Nat \ {0}
    BY StreamEndsAre
  <2> HIDE DEF w
  <2> QED BY <2>1, SumsStep
<1>4. Placed(k, units, policy) = [j \in 1..Len(y) |-> item(j)]
  BY <1>2 DEF Placed
<1> HIDE DEF y, d, stream
<1>5. ASSUME NEW j \in 1..Len(y)
      PROVE  item(j) \in ListItems /\ item(j) = [position |-> d + j - 1, entry |-> stream[d + j]]
  <2>1. y[j] \in Entries /\ y[j] = stream[d + j]
    BY <1>1
  <2>2. d + j - 1 \in Nat
    BY <1>1, <1>3
  <2> QED BY <2>1, <2>2 DEF ListItems
<1>6. Len(y) \in Nat
  BY <1>1
<1> HIDE DEF item
<1>7. /\ Placed(k, units, policy) \in Seq(ListItems) /\ Len(Placed(k, units, policy)) = Len(y)
      /\ \A j \in 1..Len(y) :
           Placed(k, units, policy)[j] = [position |-> d + j - 1, entry |-> stream[d + j]]
  <2>1. \A j \in 1..Len(y) : item(j) \in ListItems
    BY <1>5
  <2>2. Placed(k, units, policy) \in Seq(ListItems) /\ Len(Placed(k, units, policy)) = Len(y)
    BY <1>4, <1>6, <2>1
  <2>3. \A j \in 1..Len(y) : Placed(k, units, policy)[j] = item(j)
    BY <1>4
  <2> QED BY <1>5, <2>2, <2>3
<1> QED BY <1>1, <1>7 DEF d, stream

\* The items of the rows from one on are the rest of the stream.
LEMMA ListedIs ==
  ASSUME NEW R, NEW Q, NEW units, NEW policy, NEW O, NEW W, NEW C, Reading(R, Q, units, policy, O, W, C),
         NEW from \in 1..Len(R), NEW D, D = StreamEnds(R, Q, units, O, C)
  PROVE  /\ ListedFrom(from, units, policy) \in Seq(ListItems)
         /\ Len(ListedFrom(from, units, policy)) = D[Len(R)] - D[from - 1]
         /\ D[from - 1] \in Nat /\ D[Len(R)] \in Nat /\ D[from - 1] <= D[Len(R)]
         /\ \A i \in 1..Len(ListedFrom(from, units, policy)) :
              ListedFrom(from, units, policy)[i] =
                [position |-> D[from - 1] + i - 1, entry |-> Kept(W, policy)[D[from - 1] + i]]
<1> DEFINE m == Len(R)
           f == D[from - 1]
           total == D[m]
           stream == Kept(W, policy)
           w == [x \in 1..m |-> D[x] - D[x - 1]]
           skipped(i) == units = "paragraph" /\ IsMidParagraph(i)
           seqs == [i \in 1..m |-> IF i < from \/ skipped(i) THEN <<>> ELSE Placed(i, units, policy)]
           item(i) == [position |-> f + i - 1, entry |-> stream[f + i]]
           list == [i \in 1..(total - f) |-> item(i)]
           P == [k \in 0..m |-> IF k < from THEN 0 ELSE D[k] - f]
<1>1. /\ m \in Nat \ {0} /\ Len(rows) = m /\ D[0] = 0
      /\ stream \in Seq(Entries) /\ Len(stream) = total
      /\ IsPartialSums(D, w, m) /\ w \in [1..m -> Nat]
      /\ \A k \in 1..m : units = "paragraph" /\ R[k].mid => D[k] = D[k - 1]
  BY StreamEndsAre
<1>2. ListedFrom(from, units, policy) = FlattenSeq(seqs)
  BY <1>1 DEF ListedFrom
<1>3. \A k \in 1..m : skipped(k) <=> (units = "paragraph" /\ R[k].mid)
  BY MidRows DEF Reading
<1> HIDE DEF w, stream
<1>4. \A x, y \in Nat : x <= y /\ y <= m => D[x] <= D[y] /\ D[x] \in Nat /\ D[y] \in Nat
  BY <1>1, SumsGrow
<1>5. f \in Nat /\ total \in Nat /\ f <= total
  <2>1. from - 1 \in Nat /\ from - 1 <= m /\ m \in Nat
    BY <1>1
  <2> QED BY <1>4, <2>1
<1>6. ASSUME NEW k \in 1..m, ~skipped(k)
      PROVE  /\ Placed(k, units, policy) \in Seq(ListItems)
             /\ Len(Placed(k, units, policy)) = D[k] - D[k - 1]
             /\ \A j \in 1..Len(Placed(k, units, policy)) :
                  Placed(k, units, policy)[j] =
                    [position |-> D[k - 1] + j - 1, entry |-> stream[D[k - 1] + j]]
  <2>1. units = "paragraph" => ~R[k].mid
    BY <1>3, <1>6
  <2> HIDE DEF skipped, m
  <2>2. k \in 1..Len(R)
    BY DEF m
  <2>3. Placed(k, units, policy) \in Seq(ListItems) /\ Len(Placed(k, units, policy)) = D[k] - D[k - 1]
    BY <2>1, <2>2, PlacedIs
  <2>4. \A j \in 1..Len(Placed(k, units, policy)) :
          Placed(k, units, policy)[j] =
            [position |-> D[k - 1] + j - 1, entry |-> stream[D[k - 1] + j]]
    BY <2>1, <2>2, PlacedIs DEF stream
  <2> QED BY <2>3, <2>4
<1>7. ASSUME NEW i \in 1..(total - f)
      PROVE  item(i) \in ListItems
  <2>1. f + i \in 1..Len(stream) /\ f + i - 1 \in Nat
    BY <1>1, <1>5, SMTT(40)
  <2>2. stream[f + i] \in Entries
    BY <1>1, <2>1
  <2> QED BY <2>1, <2>2 DEF ListItems
<1> DEFINE place(d, j) == [position |-> d + j - 1, entry |-> stream[d + j]]
<1>8. \A i : item(i) = place(f, i)
  OBVIOUS
<1>9. \A k \in 1..m : ~skipped(k) => \A j \in 1..Len(Placed(k, units, policy)) :
                        Placed(k, units, policy)[j] = place(D[k - 1], j)
  BY <1>6
<1>10. \A k \in 1..m : seqs[k] = IF k < from \/ skipped(k) THEN <<>> ELSE Placed(k, units, policy)
  OBVIOUS
<1>11. seqs = [k \in 1..m |-> seqs[k]]
  OBVIOUS
<1>12. \A k \in 0..m : P[k] = IF k < from THEN 0 ELSE D[k] - f
  OBVIOUS
<1>13. \A k \in 1..m : units = "paragraph" /\ R[k].mid => D[k] = D[k - 1]
  BY <1>1
<1> HIDE DEF f, total, skipped, seqs, item, P
\* Row by row: what is listed of it, and where.
<1>14. ASSUME NEW k \in 1..m
       PROVE  /\ seqs[k] \in Seq(ListItems) /\ P[k - 1] \in Nat /\ P[k] \in Nat
              /\ P[k] = P[k - 1] + Len(seqs[k])
              /\ \A j \in 1..Len(seqs[k]) : seqs[k][j] = list[P[k - 1] + j]
  <2> DEFINE x == D[k - 1]
             y == D[k]
  <2>1. x \in Nat /\ y \in Nat /\ x <= y /\ y <= total
    <3>1. k - 1 \in Nat /\ k \in Nat /\ k - 1 <= k /\ k <= m /\ m \in Nat
      BY <1>1
    <3>2. x <= y /\ x \in Nat /\ y \in Nat
      BY <1>4, <3>1
    <3>3. D[k] <= D[m]
      BY <1>4, <3>1
    <3> QED BY <3>2, <3>3 DEF total
  <2>2. CASE k < from
    <3>1. seqs[k] = <<>>
      BY <1>10, <2>2
    <3>2. k - 1 \in 0..m /\ k \in 0..m /\ k - 1 < from
      BY <1>1, <2>2
    <3>3. P[k - 1] = 0 /\ P[k] = 0
      BY <1>12, <2>2, <3>2
    <3> QED BY <3>1, <3>3
  <2>3. CASE ~(k < from)
    <3>1. f <= x /\ P[k - 1] = x - f /\ P[k] = y - f
      <4>1. k - 1 \in 0..m /\ k \in 0..m
        BY <1>1
      <4>2. P[k] = y - f
        BY <1>12, <2>3, <4>1
      <4>3. CASE k - 1 < from
        <5>1. k - 1 = from - 1
          BY <1>1, <2>3, <4>3
        <5>2. x = f
          BY <5>1 DEF f
        <5> HIDE DEF x, y
        <5> QED BY <1>5, <1>12, <4>1, <4>2, <4>3, <5>2
      <4>4. CASE ~(k - 1 < from)
        <5>1. from - 1 \in Nat /\ k - 1 \in Nat /\ from - 1 <= k - 1 /\ k - 1 <= m
          BY <1>1, <4>4
        <5>2. D[from - 1] <= D[k - 1]
          BY <1>4, <5>1
        <5> QED BY <1>12, <4>1, <4>2, <4>4, <5>2 DEF f
      <4> QED BY <4>3, <4>4
    <3>2. CASE skipped(k)
      <4>1. seqs[k] = <<>> /\ y = x
        BY <1>3, <1>10, <1>13, <3>2
      <4> HIDE DEF x, y
      <4> QED BY <1>5, <2>1, <3>1, <4>1
    <3>3. CASE ~skipped(k)
      <4>1. seqs[k] = Placed(k, units, policy)
        BY <1>10, <2>3, <3>3
      <4>2. /\ seqs[k] \in Seq(ListItems) /\ Len(seqs[k]) = y - x
            /\ \A j \in 1..Len(seqs[k]) : seqs[k][j] = place(x, j)
        <5> HIDE DEF place
        <5> QED BY <1>6, <1>9, <3>3, <4>1
      <4> HIDE DEF x, y
      <4>3. ASSUME NEW j \in 1..Len(seqs[k]) PROVE place(x, j) = list[P[k - 1] + j]
        <5> DEFINE i == P[k - 1] + j
        <5>1. i \in 1..(total - f) /\ f + i = x + j
          BY <1>5, <2>1, <3>1, <4>2, SMTT(40)
        <5> HIDE DEF i
        <5>2. list[i] = place(f, i)
          BY <1>8, <5>1
        <5>3. place(f, i) = place(x, j)
          <6>1. i \in Nat /\ f + i \in Nat /\ j \in Nat /\ f + i - 1 = x + j - 1
            BY <1>5, <2>1, <5>1
          <6> QED BY <5>1, <6>1
        <5> QED BY <5>2, <5>3 DEF i
      <4>4. P[k - 1] \in Nat /\ P[k] \in Nat /\ P[k] = P[k - 1] + Len(seqs[k])
        BY <1>5, <2>1, <3>1, <4>2
      <4> HIDE DEF place
      <4> QED BY <4>2, <4>3, <4>4
    <3> QED BY <3>2, <3>3
  <2> QED BY <2>2, <2>3
<1> HIDE DEF place
<1>15. \A i \in 1..(total - f) : item(i) \in ListItems
  BY <1>7
<1>16. total - f \in Nat
  BY <1>5
<1>17. list \in Seq(ListItems) /\ Len(list) = total - f
  BY <1>15, <1>16
<1>18. \A i \in 1..Len(list) : list[i] = item(i)
  BY <1>16
<1> HIDE DEF list
<1>19. seqs \in Seq(Seq(ListItems)) /\ Len(seqs) = m
  <2>1. seqs \in [1..m -> Seq(ListItems)]
    BY <1>11, <1>14
  <2>2. m \in Nat
    BY <1>1
  <2> HIDE DEF m
  <2> QED BY <2>1, <2>2
<1>20. IsPartialSums(P, LensOf(seqs), m)
  <2>1. P[0] = 0
    <3>1. 0 \in 0..m /\ 0 < from
      BY <1>1
    <3> QED BY <1>12, <3>1
  <2>2. \A k \in 0..m : P[k] \in Nat
    <3> TAKE k \in 0..m
    <3>1. k = 0 \/ k \in 1..m
      BY <1>1
    <3> QED BY <1>14, <2>1, <3>1
  <2>3. P \in [0..m -> Nat]
    <3>1. P = [k \in 0..m |-> P[k]]
      BY DEF P
    <3> QED BY <2>2, <3>1
  <2>4. \A k \in 1..m : LensOf(seqs)[k] = Len(seqs[k])
    BY <1>19 DEF LensOf
  <2> QED BY <1>14, <2>1, <2>3, <2>4 DEF IsPartialSums
<1>21. Len(list) = P[m]
  <2>1. m \in 0..m /\ ~(m < from)
    BY <1>1
  <2> QED BY <1>12, <1>17, <2>1 DEF total
<1>22. FlattenSeq(seqs) = list
  <2>1. \A k \in 1..Len(seqs) : \A j \in 1..Len(seqs[k]) : seqs[k][j] = list[P[k - 1] + j]
    BY <1>14, <1>19
  <2> QED BY <1>17, <1>19, <1>20, <1>21, <2>1, JoinsTo
<1>23. \A i \in 1..Len(list) : list[i] = [position |-> f + i - 1, entry |-> stream[f + i]]
  BY <1>18 DEF item
<1> QED BY <1>2, <1>5, <1>17, <1>22, <1>23 DEF f, total, stream

\* The entries of [start, end) of what the rows list.
Within(listed, start, end) ==
  LET past == {i \in 1..Len(listed) : listed[i].position >= end}
      before == IF past = {} THEN listed ELSE SubSeq(listed, 1, Min(past) - 1)
      wanted == {i \in 1..Len(before) : before[i].position >= start}
  IN  Selected(before, wanted)

\* Listed are the entries of a stream from the f-th on, with their positions.
ListsFrom(listed, stream, f) ==
  /\ listed \in Seq(ListItems) /\ f \in Nat /\ Len(listed) = Len(stream) - f
  /\ stream \in Seq(Entries) /\ f <= Len(stream)
  /\ \A i \in 1..Len(listed) : listed[i] = [position |-> f + i - 1, entry |-> stream[f + i]]

\* The part of a run of the stream inside a window is the window.
LEMMA WithinIs ==
  ASSUME NEW listed, NEW stream, NEW f, ListsFrom(listed, stream, f),
         NEW start \in Nat, NEW end \in Nat, f <= start, start < end, end <= Len(stream)
  PROVE  Within(listed, start, end) = Window(stream, start, end)
<1> DEFINE total == Len(stream)
           past == {i \in 1..Len(listed) : listed[i].position >= end}
           before == IF past = {} THEN listed ELSE SubSeq(listed, 1, Min(past) - 1)
           wanted == {i \in 1..Len(before) : before[i].position >= start}
           a == start - f
           b == end - f
<1>1. /\ listed \in Seq(ListItems) /\ f \in Nat /\ total \in Nat /\ Len(listed) = total - f
      /\ f <= total
      /\ \A i \in 1..Len(listed) : listed[i] = [position |-> f + i - 1, entry |-> stream[f + i]]
  BY DEF ListsFrom
<1>2. Within(listed, start, end) = Selected(before, wanted)
  BY DEF Within
<1>3. /\ a \in Nat /\ b \in Nat /\ a < b /\ b <= Len(listed) /\ b >= 1 /\ f + b = end /\ f + a = start
      /\ Len(listed) \in Nat /\ (b = Len(listed) <=> end = total) /\ b - a = end - start
  <2> HIDE DEF total
  <2>1. end <= total
    BY DEF total
  <2> QED BY <1>1, <2>1
<1>4. \A i \in 1..Len(listed) : listed[i].position = f + i - 1
  <2> TAKE i \in 1..Len(listed)
  <2>1. listed[i] = [position |-> f + i - 1, entry |-> stream[f + i]]
    BY <1>1
  <2> QED BY <2>1
<1>5. past = {i \in 1..Len(listed) : i > b}
  <2>1. \A i \in 1..Len(listed) : listed[i].position >= end <=> i > b
    <3> TAKE i \in 1..Len(listed)
    <3>1. i \in Nat
      BY <1>1
    <3> HIDE DEF a, b
    <3> QED BY <1>1, <1>3, <1>4, <3>1, SMTT(40)
  <2> HIDE DEF b
  <2> QED BY <2>1
<1> HIDE DEF past, a, b, total
<1>6. before \in Seq(ListItems) /\ Len(before) = b /\ \A i \in 1..b : before[i] = listed[i]
  <2>1. CASE b = Len(listed)
    <3>1. past = {}
      BY <1>3, <1>5, <2>1
    <3> QED BY <1>1, <2>1, <3>1
  <2>2. CASE b # Len(listed)
    <3>1. b + 1 \in past /\ past \subseteq Nat /\ \A i \in past : b + 1 <= i
      BY <1>3, <1>5, <2>2
    <3>2. Min(past) \in past /\ Min(past) <= b + 1
      BY <3>1, MinOf
    <3>3. Min(past) = b + 1
      <4> DEFINE p == Min(past)
      <4>1. p \in Nat /\ b + 1 <= p /\ p <= b + 1
        BY <3>1, <3>2
      <4> HIDE DEF p
      <4> QED BY <1>3, <4>1 DEF p
    <3>4. before = SubSeq(listed, 1, b)
      <4>1. past # {} /\ Min(past) - 1 = b
        BY <1>3, <3>1, <3>3
      <4> QED BY <4>1
    <3> HIDE DEF before
    <3>5. b \in 0..Len(listed)
      BY <1>3
    <3> QED BY <1>1, <1>3, <3>4, <3>5
  <2> QED BY <2>1, <2>2
<1>7. \A i \in 1..Len(before) : i \in wanted <=> a < i /\ i <= b
  <2> HIDE DEF before
  <2> TAKE i \in 1..Len(before)
  <2>1. i \in 1..b /\ i \in 1..Len(listed) /\ i \in Nat
    BY <1>3, <1>6
  <2>2. before[i].position = f + i - 1
    BY <1>4, <1>6, <2>1
  <2>3. i \in wanted <=> f + i - 1 >= start
    BY <2>2
  <2> QED BY <1>1, <1>3, <2>1, <2>3
<1> HIDE DEF before, wanted
<1>8. a \in 0..Len(before) /\ b \in a..Len(before)
  BY <1>3, <1>6
<1> DEFINE s == Selected(before, wanted)
<1>9. s \in Seq(ListItems) /\ Len(s) = b - a /\ \A i \in 1..(b - a) : s[i] = before[a + i]
  <2>1. before \in Seq(ListItems)
    BY <1>6
  <2> HIDE DEF a, b, s
  <2>2. /\ Selected(before, wanted) \in Seq(ListItems) /\ Len(Selected(before, wanted)) = b - a
        /\ \A i \in 1..(b - a) : Selected(before, wanted)[i] = before[a + i]
    <3>1. ChosenRun(ListItems, before, wanted, a, b)
      BY <1>7, <1>8, <2>1 DEF ChosenRun
    <3> QED BY <3>1, SelectedIsRun
  <2>3. s = Selected(before, wanted)
    BY DEF s
  <2> QED BY <2>2, <2>3
<1> HIDE DEF s
<1>10. \A i \in 1..(b - a) : s[i] = [position |-> start + i - 1, entry |-> stream[start + i]]
  <2> TAKE i \in 1..(b - a)
  <2>1. a + i \in 1..b /\ a + i \in 1..Len(listed) /\ i \in Nat
    BY <1>3
  <2>2. s[i] = listed[a + i]
    BY <1>6, <1>9, <2>1
  <2>3. listed[a + i] = [position |-> f + (a + i) - 1, entry |-> stream[f + (a + i)]]
    BY <1>1, <2>1
  <2>4. f + (a + i) = start + i /\ f + (a + i) - 1 = start + i - 1
    BY <1>1, <1>3, <2>1
  <2> QED BY <2>2, <2>3, <2>4
<1>11. s = [i \in 1..(b - a) |-> s[i]]
  BY <1>3, <1>9
<1>12. s = [i \in 1..(end - start) |-> [position |-> start + i - 1, entry |-> stream[start + i]]]
  BY <1>3, <1>10, <1>11
<1> QED BY <1>2, <1>12 DEF Window, s

\* A page read from the rows is the page of the stream.
LEMMA PageIs ==
  ASSUME NEW R, NEW Q, NEW units, NEW policy, NEW O, NEW W, NEW C, Reading(R, Q, units, policy, O, W, C),
         NEW start \in Nat, NEW end \in Nat, start <= end, end <= Len(Kept(W, policy))
  PROVE  Page(units, policy, start, end) = Window(Kept(W, policy), start, end)
<1> DEFINE D == StreamEnds(R, Q, units, O, C)
           m == Len(R)
           stream == Kept(W, policy)
           w == [x \in 1..m |-> D[x] - D[x - 1]]
           holders == RowsForStreamPosition(units, policy, start)
           entryOf == [k \in 1..Len(rows) |-> rows[k].entry[units][policy]]
           from == LastBy(entryOf, holders)
           listed == ListedFrom(from, units, policy)
<1>1. CASE start >= end
  <2>1. end - start <= 0
    BY <1>1
  <2>2. Page(units, policy, start, end) = <<>>
    BY <1>1 DEF Page
  <2>3. Window(stream, start, end) = <<>>
    <3>1. 1..(end - start) = {}
      BY <2>1
    <3> QED BY <3>1 DEF Window
  <2> QED BY <2>2, <2>3
<1>2. CASE ~(start >= end)
  <2>1. /\ m \in Nat \ {0} /\ Len(rows) = m /\ D[0] = 0
        /\ stream \in Seq(Entries) /\ Len(stream) = D[m]
        /\ IsPartialSums(D, w, m) /\ w \in [1..m -> Nat]
        /\ \A k \in 1..m : rows[k].entry[units][policy] = D[k - 1]
    <3> HIDE DEF D
    <3> QED BY StreamEndsAre DEF D
  <2> HIDE DEF D, stream, w
  <2>2. \A k \in 1..m : entryOf[k] = D[k - 1]
    BY <2>1
  <2>3. holders \subseteq 1..m /\ \A k \in holders : D[k - 1] <= start
    BY <2>1 DEF RowsForStreamPosition
  <2>4. 1 \in holders
    <3>1. 1 \in 1..m
      BY <2>1
    <3>2. rows[1].entry[units][policy] <= start
      <4>1. rows[1].entry[units][policy] = D[1 - 1] /\ 1 - 1 = 0
        BY <2>1, <3>1
      <4> QED BY <2>1, <4>1
    <3>3. rows[1].paragraphCount > 0
      <4>1. /\ (R[1].mid => 1 > 1) /\ rows[1].paragraphCount = R[1].pEnd - R[1].pStart
            /\ R[1] \in RangeSet /\ InPlace(R[1], section, Q)
        BY <3>1, HoldingRow, RangeStarts DEF Reading
      <4>2. R[1].pStart < R[1].pEnd /\ R[1].pStart \in Nat /\ R[1].pEnd \in Nat
        BY <4>1 DEF InPlace, RangeSet
      <4> QED BY <4>1, <4>2
    <3> QED BY <2>1, <3>1, <3>2, <3>3 DEF RowsForStreamPosition
  <2> HIDE DEF holders, entryOf, m
  <2>5. Ordered(entryOf, holders, m, start)
    <3>1. \A k \in holders : entryOf[k] \in 0..start
      <4> TAKE k \in holders
      <4>1. D[k - 1] \in Nat
        BY <2>1, <2>3, SumsStep
      <4> QED BY <2>2, <2>3, <4>1
    <3> QED BY <2>1, <2>3, <2>4, <3>1 DEF Ordered
  <2>6. from \in holders
    BY <2>5, LastByIs
  <2> HIDE DEF from
  <2>7. from \in 1..m /\ D[from - 1] <= start
    BY <2>3, <2>6
  <2>8. ListsFrom(listed, stream, D[from - 1])
    <3> HIDE DEF listed
    <3>1. from \in 1..Len(R) /\ D = StreamEnds(R, Q, units, O, C)
      BY <2>7 DEF m, D
    <3>2. /\ listed \in Seq(ListItems) /\ Len(listed) = D[Len(R)] - D[from - 1]
          /\ D[from - 1] \in Nat /\ D[Len(R)] \in Nat /\ D[from - 1] <= D[Len(R)]
      BY <3>1, ListedIs, SMTT(40) DEF listed
    <3>3. \A i \in 1..Len(listed) :
            listed[i] = [position |-> D[from - 1] + i - 1, entry |-> stream[D[from - 1] + i]]
      BY <3>1, ListedIs DEF listed, stream
    <3> QED BY <2>1, <3>2, <3>3 DEF ListsFrom, m
  <2>9. Page(units, policy, start, end) = Within(listed, start, end)
    <3>1. ~(start >= end) /\ holders # {}
      BY <1>2, <2>4
    <3> QED BY <3>1 DEF Page, Within, ListedFrom, Placed, holders, entryOf, from
  <2>10. start < end /\ end <= Len(stream)
    BY <1>2 DEF stream
  <2> HIDE DEF listed
  <2>11. Within(listed, start, end) = Window(stream, start, end)
    BY <2>7, <2>8, <2>10, WithinIs
  <2> QED BY <2>9, <2>11 DEF stream
<1> QED BY <1>1, <1>2

\* A stored section has the counts a reading is described with.
LEMMA ReadingExists ==
  ASSUME NEW R, NEW Q, Holding(R, Q), NEW units \in Kinds, NEW policy \in Policies
  PROVE  \E O, C : Reading(R, Q, units, policy, O, Walk(LayoutOf(section), units), C)
<1> DEFINE W == Walk(LayoutOf(section), units)
<1>1. PICK O : Setting(section, units, Q, O)
  BY SettingExists DEF Holding
<1>2. W \in Seq(Entries) /\ Len(W) = O[Len(section)]
  BY <1>1, WalkPlaces
<1>3. Len(W) \in Nat
  <2> HIDE DEF W
  <2> QED BY <1>2
<1> HIDE DEF W
<1>4. PICK C : Counts(C, KeptSet(W, policy), Len(W))
  BY <1>3, CountsExist
<1>5. Reading(R, Q, units, policy, O, W, C)
  BY <1>1, <1>2, <1>4 DEF Reading, W
<1> QED BY <1>5 DEF W

\* The stream of a section without a paragraph is empty.
LEMMA EmptyStream ==
  ASSUME NEW sec, sec = <<>>, NEW units \in Kinds, NEW policy
  PROVE  Len(Stream(sec, units, policy)) = 0
<1> DEFINE Q == [k \in 0..0 |-> 0]
           W == Walk(LayoutOf(sec), units)
<1>1. sec \in Seq(Nat) /\ Len(sec) = 0 /\ IsPartialSums(Q, sec, Len(sec))
  BY DEF IsPartialSums
<1>2. PICK O : Setting(sec, units, Q, O)
  <2> HIDE DEF Q
  <2> QED BY <1>1, SettingExists
<1>3. W \in Seq(Entries) /\ Len(W) = O[Len(sec)] /\ O[0] = 0
  <2> HIDE DEF Q
  <2>1. W \in Seq(Entries) /\ Len(W) = O[Len(sec)]
    BY <1>2, WalkPlaces
  <2>2. O[0] = 0
    BY <1>2, SettingSteps
  <2> QED BY <2>1, <2>2
<1> HIDE DEF W
<1>4. Len(W) = 0
  BY <1>1, <1>3
<1>5. PICK C : Counts(C, KeptSet(W, policy), Len(W))
  BY <1>4, CountsExist
<1>6. KeptCounts(C, W, policy)
  BY <1>3, <1>5 DEF KeptCounts
<1>7. Len(Kept(W, policy)) = C[Len(W)]
  BY <1>6, KeptPlaces
<1>8. C[0] = 0
  BY <1>5 DEF Counts
<1> QED BY <1>4, <1>7, <1>8 DEF Stream, W

\* Every page of the stream is read as the stream has it.
PagesAre(units, policy, stream) ==
  \A start, end \in Nat :
    start <= end /\ end <= Len(stream) => Page(units, policy, start, end) = Window(stream, start, end)

\* The page forward and the page backward from a position are those of the stream.
ItemsMatch(units, policy, stream, position, limit) ==
  LET total == Len(stream)
      first == Min({position, total})
      stop  == Min({position + limit, total})
      from  == IF limit > first THEN 0 ELSE first - limit
  IN  /\ Items(units, policy, total, "forward", position, limit) = Window(stream, first, stop)
      /\ Items(units, policy, total, "backward", position, limit) = Window(stream, from, first)

\* Where every page is, so are the pages of section_stream_items, clamped to the total.
LEMMA ItemsAre ==
  ASSUME NEW units, NEW policy, NEW stream, NEW position, NEW limit,
         /\ Len(stream) \in Nat /\ PagesAre(units, policy, stream)
         /\ position \in Nat /\ limit \in Nat
  PROVE  ItemsMatch(units, policy, stream, position, limit)
<1> DEFINE total == Len(stream)
           first == Min({position, total})
           stop == Min({position + limit, total})
           from == IF limit > first THEN 0 ELSE first - limit
<1>1. first = (IF position <= total THEN position ELSE total)
  BY MinOfTwo
<1>2. stop = (IF position + limit <= total THEN position + limit ELSE total)
  BY MinOfTwo
<1> HIDE DEF total, stop, first
<1>3. total \in Nat
  BY DEF total
<1>4. /\ first \in Nat /\ stop \in Nat /\ first <= stop /\ stop <= total /\ first <= total
      /\ from \in Nat /\ from <= first
  BY <1>1, <1>2, <1>3
<1>5. /\ Page(units, policy, first, stop) = Window(stream, first, stop)
      /\ Page(units, policy, from, first) = Window(stream, from, first)
  <2> HIDE DEF from
  <2> QED BY <1>4 DEF PagesAre, total
<1>6. Items(units, policy, total, "forward", position, limit) = Page(units, policy, first, stop)
  BY DEF Items, total, first, stop
<1>7. Items(units, policy, total, "backward", position, limit) = Page(units, policy, from, first)
  BY DEF Items, total, first
<1> QED BY <1>5, <1>6, <1>7 DEF ItemsMatch, total, first, stop

\* The rows of a stored section give every window of its streams, and every row can be walked.
LEMMA RowsGivePages ==
  ASSUME CutInv, PlaceInv, StoredInv, rows # <<>>, NEW kind \in Kinds, NEW policy \in Policies
  PROVE  /\ \A k \in 1..Len(rows) : ~WalkFails(rows[k].blob)
         /\ Len(Stream(section, kind, policy)) \in Nat
         /\ PagesAre(kind, policy, Stream(section, kind, policy))
<1> DEFINE stream == Stream(section, kind, policy)
           total == Len(stream)
<1>1. section \in Seq(Nat) /\ layout = LayoutOf(section)
  BY DEF CutInv, Shape, PlaceInv
<1>2. PICK Q : IsPartialSums(Q, section, Len(section))
  <2>1. section \in [1..Len(section) -> Nat] /\ Len(section) \in Nat
    BY <1>1
  <2> QED BY <2>1, PartialSumsExist
<1>3. PICK R : StoredAs(rows, R, section, Q)
  BY <1>2 DEF StoredInv, IsStored
<1>4. CASE section = <<>>
  <2>1. total = 0
    BY <1>4, EmptyStream
  <2>2. \A k \in 1..Len(rows) : rows[k].blob = EmptyLayout
    BY <1>3, <1>4 DEF StoredAs, RowIs
  <2>3. ~WalkFails(EmptyLayout)
    BY DEF WalkFails, EmptyLayout
  <2> HIDE DEF stream
  <2>4. ASSUME NEW start \in Nat, NEW end \in Nat, start <= end, end <= total
        PROVE  Page(kind, policy, start, end) = Window(stream, start, end)
    <3>1. start = 0 /\ end = 0
      BY <2>1, <2>4
    <3>2. Page(kind, policy, start, end) = <<>>
      BY <3>1 DEF Page
    <3>3. 1..(end - start) = {}
      BY <3>1
    <3> QED BY <3>2, <3>3 DEF Window
  <2> QED BY <2>1, <2>2, <2>3, <2>4 DEF PagesAre, stream
<1>5. CASE section # <<>>
  <2>1. Holding(R, Q)
    BY <1>1, <1>2, <1>3, <1>5 DEF Holding
  <2>2. PICK O, C : Reading(R, Q, kind, policy, O, Walk(LayoutOf(section), kind), C)
    BY <2>1, ReadingExists
  <2> DEFINE W == Walk(LayoutOf(section), kind)
  <2>3. stream = Kept(W, policy)
    BY DEF Stream
  <2>4. Reading(R, Q, kind, policy, O, W, C)
    BY <2>2
  <2> HIDE DEF W, stream
  <2>5. stream \in Seq(Entries)
    BY <2>3, <2>4, StreamEndsAre
  <2>6. ASSUME NEW start \in Nat, NEW end \in Nat, start <= end, end <= total
        PROVE  Page(kind, policy, start, end) = Window(stream, start, end)
    BY <2>3, <2>4, <2>6, PageIs
  <2>7. ASSUME NEW k \in 1..Len(rows) PROVE ~WalkFails(rows[k].blob)
    <3>1. k \in 1..Len(R)
      BY <1>3 DEF StoredAs
    <3>2. IsPiece(rows[k].blob, 0, PieceCount(R[k]), PieceCounts(R[k], Q), PieceSkips(R[k], Q),
                  PieceCoarse(R[k], section), PieceEnds(R[k], Q))
      BY <2>1, <3>1, HoldingRow
    <3> QED BY <3>2, PieceWalk
  <2> QED BY <2>5, <2>6, <2>7 DEF PagesAre, stream
<1> QED BY <1>4, <1>5

\* The pages forward and backward from every position, of every length, are those of the stream.
EveryPageMatches ==
  Stored => \A kind \in Kinds, policy \in Policies : \A position, limit \in Nat :
    ItemsMatch(kind, policy, Stream(section, kind, policy), position, limit)

\* Every window of a section's stream, wherever it starts and however long, is what its rows hold of
\* it: the pages that section_stream_items reads are those of the whole section.
THEOREM EveryPageOfStream == Spec => []EveryPageMatches
<1>1. CutInv /\ PlaceInv /\ StoredInv => EveryPageMatches
  <2> SUFFICES ASSUME CutInv, PlaceInv, StoredInv, rows # <<>>,
                      NEW kind \in Kinds, NEW policy \in Policies, NEW position \in Nat, NEW limit \in Nat
               PROVE  ItemsMatch(kind, policy, Stream(section, kind, policy), position, limit)
    BY DEF EveryPageMatches, Stored
  <2> QED BY RowsGivePages, ItemsAre
<1> QED BY <1>1, CutInvariant, StoredChunks, PTL

\* Every page of a section's stream is what its rows hold of that page, and every row can be walked.
THEOREM PagesOfStream == Spec => []PagesMatchStream
<1>1. CutInv /\ PlaceInv /\ StoredInv => PagesMatchStream
  <2> SUFFICES ASSUME CutInv, PlaceInv, StoredInv, rows # <<>>,
                      NEW kind \in Kinds, NEW policy \in Policies
               PROVE  LET stream == Stream(section, kind, policy)
                          total == Len(stream)
                      IN  /\ \A k \in 1..Len(rows) : ~WalkFails(rows[k].blob)
                          /\ \A position \in 0..total + 1, limit \in {1, 2, total + 1} :
                               LET first == Min({position, total})
                                   stop  == Min({position + limit, total})
                                   from  == IF limit > first THEN 0 ELSE first - limit
                               IN  /\ Items(kind, policy, total, "forward", position, limit) =
                                        Window(stream, first, stop)
                                   /\ Items(kind, policy, total, "backward", position, limit) =
                                        Window(stream, from, first)
    BY DEF PagesMatchStream, Stored
  <2> DEFINE stream == Stream(section, kind, policy)
             total == Len(stream)
  <2>1. /\ \A k \in 1..Len(rows) : ~WalkFails(rows[k].blob)
        /\ total \in Nat /\ PagesAre(kind, policy, stream)
    BY RowsGivePages
  <2> HIDE DEF stream
  <2>2. ASSUME NEW position \in 0..total + 1, NEW limit \in {1, 2, total + 1}
        PROVE  LET first == Min({position, total})
                   stop  == Min({position + limit, total})
                   from  == IF limit > first THEN 0 ELSE first - limit
               IN  /\ Items(kind, policy, total, "forward", position, limit) = Window(stream, first, stop)
                   /\ Items(kind, policy, total, "backward", position, limit) = Window(stream, from, first)
    <3>1. position \in Nat /\ limit \in Nat
      BY <2>1, <2>2
    <3>2. ItemsMatch(kind, policy, stream, position, limit)
      BY <2>1, <3>1, ItemsAre
    <3> QED BY <3>2 DEF ItemsMatch
  <2> QED BY <2>1, <2>2 DEF stream
<1> QED BY <1>1, CutInvariant, StoredChunks, PTL

-----------------------------------------------------------------------------
(* A unit's position *)

\* Where the key never falls, the last row by it is the last row.
LEMMA LastIsLargest ==
  ASSUME NEW key, NEW candidates, NEW m, NEW N, Ordered(key, candidates, m, N),
         \A i, j \in candidates : i <= j => key[i] <= key[j],
         NEW h \in candidates, \A j \in candidates : j <= h
  PROVE  LastBy(key, candidates) = h
<1> DEFINE l == LastBy(key, candidates)
<1>1. /\ l \in candidates
      /\ \A j \in candidates : key[j] < key[l] \/ (key[j] = key[l] /\ j <= l)
  BY LastByIs
<1> HIDE DEF l
<1>2. candidates \subseteq Nat /\ \A k \in candidates : key[k] \in Nat
  BY DEF Ordered
<1>3. l <= h /\ key[l] <= key[h] /\ key[l] \in Nat /\ key[h] \in Nat /\ l \in Nat /\ h \in Nat
  BY <1>1, <1>2
<1>4. ~(key[h] < key[l])
  BY <1>3
<1>5. h <= l
  BY <1>1, <1>4
<1>6. l = h
  BY <1>3, <1>5
<1> QED BY <1>6 DEF l

\* A later row starts at a later paragraph, or at a later sentence of the same one.
LEMMA RowsInOrder ==
  ASSUME NEW R, NEW Q, Holding(R, Q), NEW i \in 1..Len(R), NEW j \in 1..Len(R), i <= j
  PROVE  /\ rows[i].first \in 1..Len(section) /\ rows[j].first \in 1..Len(section)
         /\ rows[i].firstSentence \in Nat /\ rows[j].firstSentence \in Nat
         /\ rows[i].first <= rows[j].first
         /\ rows[i].first = rows[j].first => rows[i].firstSentence <= rows[j].firstSentence
<1> DEFINE r == R[i]
           g == R[j]
           P == ParasTo(R)
           S == SentsTo(R)
<1>1. PICK O : Setting(section, "paragraph", Q, O)
  BY HoldingRow
<1>2. /\ r \in RangeSet /\ InPlace(r, section, Q) /\ g \in RangeSet /\ InPlace(g, section, Q)
      /\ rows[i].first = r.first /\ rows[i].firstSentence = r.firstSentence
      /\ rows[j].first = g.first /\ rows[j].firstSentence = g.firstSentence
      /\ Len(R) \in Nat
  BY HoldingRow
<1>7. /\ r.first \in 1..Len(section) /\ r.first = r.pStart + 1
      /\ r.first <= Reached(r) /\ Reached(r) \in 1..Len(section)
      /\ (r.mid => Q[r.pStart] <= r.sStart /\ r.sStart < r.sEnd)
  BY <1>1, <1>2, ReachedIs
<1>8. /\ g.first \in 1..Len(section) /\ g.first = g.pStart + 1
      /\ (g.mid => Q[g.pStart] <= g.sStart)
  BY <1>1, <1>2, ReachedIs
<1>9. Len(section) \in Nat
  BY <1>1, SettingSteps
<1>3. /\ r.first \in 1..Len(section) /\ g.first \in 1..Len(section) /\ Len(section) \in Nat
      /\ r.first <= Reached(r) /\ Reached(r) \in Nat
      /\ r.first = r.pStart + 1 /\ g.first = g.pStart + 1
      /\ (r.mid => Q[r.pStart] <= r.sStart /\ r.sStart < r.sEnd)
      /\ (g.mid => Q[g.pStart] <= g.sStart)
  <2> HIDE DEF r, g
  <2> QED BY <1>7, <1>8, <1>9
<1>4. /\ r.firstSentence \in Nat /\ g.firstSentence \in Nat
      /\ r.pStart \in Nat /\ g.pStart \in Nat /\ r.sStart \in Nat /\ g.sStart \in Nat
      /\ r.sEnd \in Nat
  BY <1>2 DEF RangeSet
<1>5. CASE i = j
  BY <1>2, <1>3, <1>4, <1>5
<1>6. CASE i # j
  <2>1. i \in 1..Len(R) /\ j - 1 \in 1..Len(R) /\ i \in Nat /\ j - 1 \in Nat /\ i <= j - 1 /\ j - 1 <= Len(R)
    BY <1>2, <1>6
  <2>2. P[i] = Reached(r) /\ S[i] = r.sEnd
    BY RangeStarts
  <2>3. g.sStart = S[j - 1] /\ (IF g.mid THEN g.pStart + 1 ELSE g.pStart) = P[j - 1]
    BY RangeStarts
  <2>4. P[i] <= P[j - 1] /\ S[i] <= S[j - 1]
    <3> DEFINE n == Len(R)
               v == [k \in 1..n |-> IF R[k].mid THEN 0 ELSE PieceCount(R[k])]
               w == [k \in 1..n |-> R[k].sEnd - R[k].sStart]
    <3>1. IsPartialSums(P, v, n) /\ IsPartialSums(S, w, n)
      BY EndsAreSums
    <3>2. v \in [1..n -> Nat]
      <4>1. \A k \in 1..n : PieceCount(R[k]) \in Nat
        BY RowParagraphs
      <4> QED BY <4>1
    <3>3. w \in [1..n -> Nat]
      <4> SUFFICES ASSUME NEW k \in 1..n PROVE R[k].sEnd - R[k].sStart \in Nat
        OBVIOUS
      <4>2. R[k] \in RangeSet /\ InPlace(R[k], section, Q)
        BY HoldingRow
      <4>3. R[k].sEnd - R[k].sStart \in Nat
        <5> DEFINE c == PieceCounts(R[k], Q)
                   d == PieceSkips(R[k], Q)
                   T == PieceEnds(R[k], Q)
                   p == PieceCount(R[k])
        <5>1. PieceAt(section, Q, R[k], p, R[k].pStart, T, c, d)
          BY DEF PieceAt
        <5>2. p \in Nat \ {0} /\ IsPartialSums(T, c, p) /\ T[p] = R[k].sEnd - R[k].sStart
          <6> HIDE DEF c, d, T, p
          <6> QED BY <1>1, <4>2, <5>1, PieceFacts
        <5> HIDE DEF T, c, p
        <5>3. T[p] \in Nat
          BY <5>2 DEF IsPartialSums
        <5> QED BY <5>2, <5>3
      <4> QED BY <4>3
    <3>4. n \in Nat
      BY <1>2
    <3> HIDE DEF v, w, n, P, S
    <3> QED BY <2>1, <3>1, <3>2, <3>3, <3>4, SumsGrow DEF n
  <2> HIDE DEF r, g, P, S
  <2>5. CASE g.mid
    <3>1. g.first = P[j - 1] /\ r.first <= g.first
      BY <1>3, <1>4, <2>2, <2>3, <2>4, <2>5, SMTT(40)
    <3>2. ASSUME r.first = g.first PROVE r.firstSentence <= g.firstSentence
      <4>1. r.pStart = g.pStart
        BY <1>3, <1>4, <3>2, SMTT(40)
      <4>2. CASE r.mid
        <5> DEFINE q == Q[r.pStart]
        <5>1. r.firstSentence = (r.sStart - q) + 1 /\ g.firstSentence = (g.sStart - q) + 1
          BY <1>2, <2>5, <4>1, <4>2 DEF InPlace
        <5>2. r.sStart <= g.sStart
          BY <1>3, <1>4, <2>2, <2>3, <2>4, <4>2
        <5>3. q \in Nat
          <6>1. r.pStart \in Nat /\ r.pStart <= Len(section)
            BY <1>3, <1>4
          <6> QED BY <1>1, <1>3, <6>1, SettingSteps
        <5> HIDE DEF q
        <5> QED BY <1>4, <5>1, <5>2, <5>3
      <4>3. CASE ~r.mid
        <5>1. r.firstSentence = 0
          BY <1>2, <4>3 DEF InPlace
        <5> QED BY <1>4, <5>1
      <4> QED BY <4>2, <4>3
    <3> QED BY <1>2, <1>3, <1>4, <3>1, <3>2
  <2>6. CASE ~g.mid
    <3>1. g.first = P[j - 1] + 1 /\ P[j - 1] \in Nat /\ r.first <= P[j - 1]
      BY <1>3, <1>4, <2>2, <2>3, <2>4, <2>6, SMTT(40)
    <3>2. r.first < g.first
      BY <1>3, <3>1
    <3> QED BY <1>2, <1>3, <1>4, <3>2
  <2> QED BY <2>5, <2>6
<1> QED BY <1>5, <1>6

\* What a stream keeps of its walk, place by place.
LEMMA KeptFrom ==
  ASSUME NEW W, NEW policy, NEW C, KeptCounts(C, W, policy), NEW i \in 1..Len(Kept(W, policy))
  PROVE  \E j \in 1..Len(W) : j \in KeptSet(W, policy) /\ C[j] = i /\ Kept(W, policy)[i] = W[j]
<1>1. W \in Seq(Entries) /\ Counts(C, KeptSet(W, policy), Len(W)) /\ Len(W) \in Nat
  BY DEF KeptCounts
<1>2. Len(Kept(W, policy)) = C[Len(W)]
      /\ \A j \in 1..Len(W) : j \in KeptSet(W, policy) => Kept(W, policy)[C[j]] = W[j]
  BY KeptPlaces
<1>3. i \in 1..C[Len(W)]
  BY <1>2
<1>4. PICK j \in 1..Len(W) : j \in KeptSet(W, policy) /\ C[j] = i
  BY <1>1, <1>3, CountsPlace
<1> QED BY <1>2, <1>4

\* No unit is twice in a stream.
LEMMA UnitsDistinct ==
  ASSUME NEW R, NEW Q, NEW units, NEW policy, NEW O, NEW W, NEW C, Reading(R, Q, units, policy, O, W, C),
         NEW a \in 1..Len(Kept(W, policy)), NEW b \in 1..Len(Kept(W, policy)),
         Kept(W, policy)[a].unit = Kept(W, policy)[b].unit
  PROVE  a = b
<1>1. Setting(section, units, Q, O) /\ W = Walk(LayoutOf(section), units)
      /\ Counts(C, KeptSet(W, policy), O[Len(section)])
  BY DEF Reading
<1>2. W \in Seq(Entries) /\ Len(W) = O[Len(section)]
  BY <1>1, WalkPlaces
<1>3. KeptCounts(C, W, policy)
  BY <1>1, <1>2 DEF KeptCounts
<1>4. PICK x \in 1..Len(W) : C[x] = a /\ Kept(W, policy)[a] = W[x]
  BY <1>3, KeptFrom
<1>5. PICK y \in 1..Len(W) : C[y] = b /\ Kept(W, policy)[b] = W[y]
  BY <1>3, KeptFrom
<1>6. IsStream(W, units)
  <2>1. Stream(section, units, "preserve_source") = W
    BY <1>1 DEF Stream, Kept
  <2>2. section \in Seq(Nat) /\ units \in Kinds
    BY <1>1 DEF Setting
  <2> QED BY <2>1, <2>2, StreamDistinct
<1>7. x = y
  BY <1>4, <1>5, <1>6 DEF IsStream
<1> QED BY <1>4, <1>5, <1>7

\* What a chosen row gives for a unit.
PositionAt(k, units, policy, unit) ==
  LET entries == ChunkEntries(k, units, policy)
      found == {i \in 1..Len(entries) : entries[i].unit = unit}
  IN  IF found = {} THEN {} ELSE {rows[k].entry[units][policy] + Min(found) - 1}

\* Where a stream has a unit, from 0.
PlacesOf(stream, unit) == {i - 1 : i \in {j \in 1..Len(stream) : stream[j].unit = unit}}

\* y is a run of the stream after the first d, and the stream has the unit there, once, or not at all.
HasUnit(y, stream, d, unit) ==
  /\ y \in Seq(Entries) /\ stream \in Seq(Entries) /\ d \in Nat
  /\ d + Len(y) <= Len(stream)
  /\ \A j \in 1..Len(y) : y[j] = stream[d + j]
  /\ \A i, j \in 1..Len(stream) : stream[i].unit = stream[j].unit => i = j
  /\ \A i \in 1..Len(stream) : stream[i].unit = unit => d < i /\ i <= d + Len(y)

\* What section_stream_position makes of the place of a unit in the run y after the first d.
FoundPosition(y, d, unit) ==
  LET found == {i \in 1..Len(y) : y[i].unit = unit}
  IN  IF found = {} THEN {} ELSE {d + Min(found) - 1}

\* Found in a row are the places of a stream after the first d.
LEMMA FoundAt ==
  ASSUME NEW y, NEW stream, NEW d, NEW unit, HasUnit(y, stream, d, unit)
  PROVE  FoundPosition(y, d, unit) = PlacesOf(stream, unit)
<1> DEFINE found == {i \in 1..Len(y) : y[i].unit = unit}
           places == {j \in 1..Len(stream) : stream[j].unit = unit}
           n == Len(stream)
           l == Len(y)
<1>0. /\ y \in Seq(Entries) /\ stream \in Seq(Entries) /\ d \in Nat
      /\ d + Len(y) <= Len(stream)
      /\ \A j \in 1..Len(y) : y[j] = stream[d + j]
      /\ \A i, j \in 1..Len(stream) : stream[i].unit = stream[j].unit => i = j
      /\ \A i \in 1..Len(stream) : stream[i].unit = unit => d < i /\ i <= d + Len(y)
  BY DEF HasUnit
<1>1. n \in Nat /\ l \in Nat /\ d + l <= n /\ d \in Nat
  BY <1>0
<1>2. PlacesOf(stream, unit) = {i - 1 : i \in places}
  BY DEF PlacesOf
<1>5. FoundPosition(y, d, unit) = IF found = {} THEN {} ELSE {d + Min(found) - 1}
  BY DEF FoundPosition
<1>3. CASE found = {}
  <2>1. ASSUME NEW i \in 1..n, stream[i].unit = unit PROVE FALSE
    <3>1. d < i /\ i <= d + l /\ i \in Nat
      BY <1>0, <2>1
    <3> DEFINE j == i - d
    <3>2. j \in 1..l /\ d + j = i
      BY <1>1, <3>1
    <3> HIDE DEF j
    <3>3. y[j].unit = unit
      BY <1>0, <2>1, <3>2
    <3> QED BY <1>3, <3>2, <3>3
  <2>2. places = {}
    BY <2>1
  <2> HIDE DEF places
  <2> HIDE DEF found
  <2> QED BY <1>2, <1>3, <1>5, <2>2
<1>4. CASE found # {}
  <2>1. PICK j \in 1..l : y[j].unit = unit
    BY <1>4
  <2> DEFINE i == d + j
  <2>2. i \in 1..n /\ stream[i].unit = unit /\ j \in Nat
    BY <1>0, <1>1, <2>1
  <2>3. \A x \in 1..n : stream[x].unit = unit => x = i
    <3> HIDE DEF i
    <3> QED BY <1>0, <2>2
  <2>4. places = {i}
    <3> HIDE DEF i
    <3> QED BY <2>2, <2>3
  <2>5. \A x \in found : x = j
    <3> TAKE x \in found
    <3>1. x \in 1..l /\ y[x].unit = unit /\ x \in Nat
      BY <1>0
    <3>2. d + x \in 1..n /\ stream[d + x].unit = unit
      BY <1>0, <1>1, <3>1
    <3>3. d + x = d + j
      BY <2>3, <3>2
    <3> QED BY <1>1, <2>2, <3>1, <3>3
  <2>6. j \in found
    BY <2>1
  <2>7. Min(found) = j
    <3>1. found \subseteq Nat
      BY <2>2, <2>5
    <3>2. Min(found) \in found
      BY <1>4, <3>1, MinOf
    <3> QED BY <2>5, <3>2
  <2>8. d + Min(found) - 1 = i - 1
    BY <1>1, <2>2, <2>7
  <2> HIDE DEF places, i
  <2>9. PlacesOf(stream, unit) = {i - 1}
    BY <1>2, <2>4
  <2> HIDE DEF found
  <2> QED BY <1>4, <1>5, <2>8, <2>9
<1> QED BY <1>3, <1>4

\* A row that holds a unit, or any row when the stream does not list it, gives its position.
LEMMA PositionAtHolder ==
  ASSUME NEW R, NEW Q, NEW units, NEW policy, NEW O, NEW W, NEW C, Reading(R, Q, units, policy, O, W, C),
         NEW k \in 1..Len(R), units = "paragraph" => ~R[k].mid, NEW unit,
         \/ Holds(R[k], unit)
         \/ \A i \in 1..Len(Kept(W, policy)) : Kept(W, policy)[i].unit # unit
  PROVE  PositionAt(k, units, policy, unit) = PlacesOf(Kept(W, policy), unit)
<1> DEFINE D == StreamEnds(R, Q, units, O, C)
           B == Ends(R, units, section, Q, O)
           m == Len(R)
           n == O[Len(section)]
           stream == Kept(W, policy)
           y == ChunkEntries(k, units, policy)
           w == [x \in 1..m |-> D[x] - D[x - 1]]
           d == D[k - 1]
           e == D[k]
<1>1. Setting(section, units, Q, O) /\ W = Walk(LayoutOf(section), units) /\ Holding(R, Q)
      /\ Counts(C, KeptSet(W, policy), n)
  BY DEF Reading
<1>2. W \in Seq(Entries) /\ Len(W) = n
  BY <1>1, WalkPlaces
<1>3. KeptCounts(C, W, policy) /\ n \in Nat
  BY <1>1, <1>2 DEF KeptCounts
<1>4. /\ IsPartialSums(D, w, m) /\ w \in [1..m -> Nat] /\ m \in Nat \ {0}
      /\ stream \in Seq(Entries) /\ Len(stream) = D[m]
      /\ \A x \in 1..m : rows[x].entry[units][policy] = D[x - 1]
  <2> HIDE DEF D
  <2> QED BY StreamEndsAre DEF D
<1>5. y \in Seq(Entries) /\ Len(y) = e - d /\ \A j \in 1..Len(y) : y[j] = stream[d + j]
  <2> HIDE DEF y, D
  <2>1. y = ChunkEntries(k, units, policy) /\ D = StreamEnds(R, Q, units, O, C)
    BY DEF y, D
  <2> QED BY <2>1, RowEntries
<1>6. /\ d \in Nat /\ e \in Nat /\ d <= e /\ e <= Len(stream) /\ d + Len(y) = e
  <2> HIDE DEF D, w, y
  <2>1. k - 1 \in Nat /\ k \in Nat /\ k - 1 <= k /\ k <= m /\ m \in Nat
    BY <1>4
  <2>3. d <= e /\ d \in Nat /\ e \in Nat
    BY <1>4, <2>1, SumsGrow
  <2>4. D[k] <= D[m]
    <3> HIDE DEF m, d, e
    <3>1. m \in Nat /\ m <= m
      BY <2>1
    <3> QED BY <1>4, <2>1, <3>1, SumsGrow
  <2>2. d <= e /\ d \in Nat /\ e \in Nat /\ D[k] <= D[m]
    BY <2>3, <2>4
  <2> HIDE DEF d, e
  <2> QED BY <1>4, <1>5, <2>2 DEF e
<1>7. ASSUME NEW i \in 1..Len(stream), stream[i].unit = unit PROVE d < i /\ i <= e
  <2>1. Holds(R[k], unit)
    BY <1>7
  <2>2. PICK j \in 1..Len(W) : j \in KeptSet(W, policy) /\ C[j] = i /\ stream[i] = W[j]
    BY <1>3, KeptFrom
  <2>3. j \in 1..n /\ j \in Nat
    BY <1>2, <1>3
  <2> DEFINE u == BeginsAt(R[k], units, Q, O)
             t == CoveredTo(R[k], units, section, Q, O)
  <2>4. u < j /\ j <= t
    <3>1. R[k] \in RangeSet /\ InPlace(R[k], section, Q)
      BY <1>1, HoldingRow
    <3>2. R[k].sEnd <= Q[Len(section)]
      <4>1. Reached(R[k]) \in 1..Len(section) /\ R[k].sEnd <= Q[Reached(R[k])] /\ R[k].sEnd \in Nat
        BY <1>1, <3>1, ReachedIs
      <4>2. Len(section) \in Nat /\ Reached(R[k]) \in Nat /\ Reached(R[k]) <= Len(section)
        BY <1>1, <4>1, SettingSteps
      <4>3. Q[Reached(R[k])] <= Q[Len(section)] /\ Q[Reached(R[k])] \in Nat /\ Q[Len(section)] \in Nat
        BY <1>1, <4>2, SettingSteps
      <4> QED BY <4>1, <4>3
    <3>3. Holds(R[k], W[j].unit)
      BY <1>7, <2>1, <2>2
    <3>4. layout = LayoutOf(section)
      BY <1>1 DEF Holding
    <3> QED BY <1>1, <2>3, <3>1, <3>2, <3>3, <3>4, HoldsCovered
  <2>5. B[k - 1] = u /\ B[k] = t /\ u \in Nat /\ t \in Nat
    <3>1. Tiles(R, section, Q) /\ section # <<>>
      BY <1>1 DEF Holding, StoredAs
    <3>2. \A x \in 1..Len(R) :
            /\ B[x - 1] = BeginsAt(R[x], units, Q, O)
            /\ B[x] = CoveredTo(R[x], units, section, Q, O)
            /\ B[x - 1] \in Nat /\ B[x] \in Nat /\ B[x - 1] <= B[x]
      <4> HIDE DEF B
      <4> QED BY <1>1, <3>1, EndsAre DEF B
    <3> HIDE DEF B, u, t
    <3>3. B[k - 1] = u /\ B[k] = t
      BY <3>2 DEF u, t
    <3> QED BY <3>2, <3>3
  <2>6. d = C[u] /\ e = C[t]
    <3>1. k - 1 \in 0..Len(R) /\ k \in 0..Len(R)
      BY <1>4
    <3> HIDE DEF u, t
    <3> QED BY <2>5, <3>1 DEF StreamEnds
  <2>7. t <= n
    <3> DEFINE q == Reached(R[k])
    <3>1. R[k] \in RangeSet /\ InPlace(R[k], section, Q)
      BY <1>1, HoldingRow
    <3>2. t <= O[q] /\ O[q] <= n
      BY <1>1, <3>1, CoveredIs
    <3>3. q \in 1..Len(section) /\ Len(section) \in Nat
      BY <1>1, <3>1, ReachedIs, SettingSteps
    <3>4. O[q] \in Nat
      BY <1>1, <3>3, SettingSteps
    <3> HIDE DEF q, t, n
    <3> QED BY <1>3, <2>5, <3>2, <3>4
  <2> HIDE DEF u, t, B, D, d, e, n, stream
  <2>8. C[j - 1] \in Nat /\ C[j] = C[j - 1] + 1
    BY <1>1, <1>3, <2>2, <2>3, CountsAt
  <2>9. C[u] <= C[j - 1] /\ C[u] \in Nat
    <3>1. u \in 0..n /\ j - 1 \in u..n
      BY <1>3, <2>3, <2>4, <2>5
    <3> QED BY <1>1, <1>3, <3>1, CountsGrow
  <2>10. C[j] <= C[t] /\ C[t] \in Nat
    <3>1. j \in 0..n /\ t \in j..n
      BY <1>3, <2>3, <2>4, <2>5, <2>7
    <3> QED BY <1>1, <1>3, <3>1, CountsGrow
  <2> QED BY <2>2, <2>6, <2>8, <2>9, <2>10
<1>8. \A i, j \in 1..Len(stream) : stream[i].unit = stream[j].unit => i = j
  BY UnitsDistinct
<1>9. PositionAt(k, units, policy, unit) = FoundPosition(y, d, unit)
  <2>1. rows[k].entry[units][policy] = d
    <3> HIDE DEF D, w, y
    <3> QED BY <1>4
  <2> HIDE DEF d
  <2> QED BY <2>1 DEF PositionAt, FoundPosition
<1> HIDE DEF d, e, D, stream, y
<1>10. HasUnit(y, stream, d, unit)
  <2>1. d + Len(y) <= Len(stream)
    BY <1>6
  <2>2. \A i \in 1..Len(stream) : stream[i].unit = unit => d < i /\ i <= d + Len(y)
    BY <1>6, <1>7
  <2> QED BY <1>4, <1>5, <1>6, <1>8, <2>1, <2>2 DEF HasUnit
<1>11. FoundPosition(y, d, unit) = PlacesOf(stream, unit)
  BY <1>10, FoundAt
<1> QED BY <1>9, <1>11 DEF stream

\* The units a stream lists.
LEMMA StreamUnits ==
  ASSUME NEW R, NEW Q, NEW units, NEW policy, NEW O, NEW W, NEW C, Reading(R, Q, units, policy, O, W, C),
         NEW i \in 1..Len(Kept(W, policy))
  PROVE  \E p \in 1..Len(section) :
           \/ Kept(W, policy)[i].unit = Paragraph(p)
           \/ units = "sentence" /\ \E s \in 1..section[p] : Kept(W, policy)[i].unit = Sentence(p, s)
<1>1. Setting(section, units, Q, O) /\ W = Walk(LayoutOf(section), units)
      /\ Counts(C, KeptSet(W, policy), O[Len(section)])
  BY DEF Reading
<1>2. W \in Seq(Entries) /\ Len(W) = O[Len(section)]
  BY <1>1, WalkPlaces
<1>3. KeptCounts(C, W, policy)
  BY <1>1, <1>2 DEF KeptCounts
<1>4. PICK x \in 1..Len(W) : Kept(W, policy)[i] = W[x]
  BY <1>3, KeptFrom
<1>5. x \in 1..O[Len(section)]
  BY <1>2
<1>6. PICK p \in 1..Len(section) :
        \/ ~Wide(units, section, p) /\ x = O[p - 1] + 1 /\ x = O[p] /\ W[x].unit = Paragraph(p)
        \/ /\ Wide(units, section, p)
           /\ \E s \in 1..section[p] : x = O[p - 1] + s /\ W[x].unit = Sentence(p, s)
  BY <1>1, <1>5, EntryAt
<1>7. CASE W[x].unit = Paragraph(p)
  BY <1>4, <1>7
<1>8. CASE Wide(units, section, p) /\ \E s \in 1..section[p] : W[x].unit = Sentence(p, s)
  <2>1. PICK s \in 1..section[p] : W[x].unit = Sentence(p, s)
    BY <1>8
  <2>2. units = "sentence"
    BY <1>8 DEF Wide
  <2> QED BY <1>4, <2>1, <2>2
<1> QED BY <1>6, <1>7, <1>8

\* A row's entries of the paragraph stream are whole paragraphs.
LEMMA ParagraphsOnly ==
  ASSUME NEW R, NEW Q, Holding(R, Q), NEW k \in 1..Len(R), NEW policy,
         NEW i \in 1..Len(ChunkEntries(k, "paragraph", policy))
  PROVE  ChunkEntries(k, "paragraph", policy)[i].unit.sent = 0
<1> DEFINE L == rows[k].blob
           X == Walk(L, "paragraph")
           m == PieceCount(R[k])
           c == PieceCounts(R[k], Q)
           d == PieceSkips(R[k], Q)
           g == PieceCoarse(R[k], section)
           S == PieceEnds(R[k], Q)
           V == Widths("paragraph", m, c, g)
           local == Kept(X, policy)
           y == ChunkEntries(k, "paragraph", policy)
<1>1. IsPiece(L, 0, m, c, d, g, S)
  BY HoldingRow
<1>2. m \in Nat
  BY <1>1 DEF IsPiece
<1> HIDE DEF m, c, d, g, S, L
<1>3. V \in [1..m -> Nat]
  BY DEF Widths
<1>3a. \A x \in 1..m : V[x] = 1
  BY DEF Widths
<1> HIDE DEF V
<1>4. PICK E : IsPartialSums(E, V, m)
  BY <1>2, <1>3, PartialSumsExist
<1>5. IsWalk(X, "paragraph", 0, m, c, d, g, E)
  <2>1. "paragraph" \in Kinds
    BY DEF Kinds
  <2> HIDE DEF X
  <2> QED BY <1>1, <1>4, <2>1, WalkIs DEF V, X
<1> HIDE DEF X
<1>6. X \in Seq(Entries) /\ Len(X) = E[m] /\ Len(X) \in Nat
  BY <1>5 DEF IsWalk
<1>7. ASSUME NEW j \in 1..Len(X) PROVE X[j].unit.sent = 0
  <2>1. j \in 1..E[m]
    BY <1>6
  <2>2. PICK x \in 1..m : E[x - 1] < j /\ j <= E[x]
    BY <1>2, <1>3, <1>4, <2>1, PartialSumsLocate
  <2>3. E[x - 1] \in Nat /\ E[x] \in Nat /\ E[x] = E[x - 1] + V[x]
    BY <1>2, <1>3, <1>4, SumsStep
  <2>4. j = E[x - 1] + 1
    <3>1. V[x] = 1
      BY <1>3a
    <3> DEFINE a == E[x - 1]
               b == E[x]
    <3>2. a \in Nat /\ b = a + 1 /\ a < j /\ j <= b /\ j \in Nat
      BY <2>2, <2>3, <3>1
    <3> HIDE DEF a, b
    <3>3. j = a + 1
      BY <3>2
    <3> QED BY <3>3 DEF a
  <2>5. X[j] = [unit |-> Paragraph((0 + x) - 1), eligible |-> x \notin g]
    BY <1>5, <2>4 DEF IsWalk
  <2> QED BY <2>5 DEF Paragraph
<1>8. PICK C : KeptCounts(C, X, policy)
  <2>1. \E C : Counts(C, KeptSet(X, policy), Len(X))
    BY <1>6, CountsExist
  <2> QED BY <1>6, <2>1 DEF KeptCounts
<1>9. \A q \in 1..Len(local) : local[q] \in Entries /\ local[q].unit.sent = 0
  <2> TAKE q \in 1..Len(local)
  <2>1. PICK j \in 1..Len(X) : local[q] = X[j]
    <3>1. q \in 1..Len(Kept(X, policy))
      OBVIOUS
    <3> HIDE DEF local
    <3>2. \E j \in 1..Len(X) : j \in KeptSet(X, policy) /\ C[j] = q /\ Kept(X, policy)[q] = X[j]
      BY <1>8, <3>1, KeptFrom
    <3> QED BY <3>2 DEF local
  <2> QED BY <1>6, <1>7, <2>1
<1>10. y = [q \in 1..Len(local) |-> Absolute(local[q], rows[k].first)]
  BY DEF ChunkEntries, Absolute, X, L
<1>11. local \in Seq(Entries) /\ Len(local) \in Nat
  <2>1. local \in Seq(Entries)
    BY <1>8, KeptPlaces
  <2> HIDE DEF local
  <2> QED BY <2>1
<1> HIDE DEF local
<1>12. Len(y) = Len(local) /\ \A q \in 1..Len(y) : y[q] = Absolute(local[q], rows[k].first)
  <2> HIDE DEF y
  <2> QED BY <1>10, <1>11
<1> HIDE DEF y
<1>13. \A q \in 1..Len(y) : y[q].unit.sent = 0
  <2> TAKE q \in 1..Len(y)
  <2>1. local[q] \in Entries /\ local[q].unit.sent = 0 /\ y[q] = Absolute(local[q], rows[k].first)
    BY <1>9, <1>12
  <2>2. Absolute(local[q], rows[k].first).unit.sent = local[q].unit.sent
    BY <2>1 DEF Absolute, Entries, Units
  <2> QED BY <2>1, <2>2
<1> QED BY <1>13 DEF y

\* The row a paragraph's position is read from holds the paragraph.
LEMMA ParagraphHolder ==
  ASSUME NEW R, NEW Q, Holding(R, Q), NEW p \in 1..Len(section)
  PROVE  /\ RowsAtParagraph(p) # {}
         /\ LastBy([k \in 1..Len(rows) |-> rows[k].first], RowsAtParagraph(p)) \in 1..Len(R)
         /\ ~R[LastBy([k \in 1..Len(rows) |-> rows[k].first], RowsAtParagraph(p))].mid
         /\ Holds(R[LastBy([k \in 1..Len(rows) |-> rows[k].first], RowsAtParagraph(p))], Paragraph(p))
<1> DEFINE m == Len(R)
           P == ParasTo(R)
           v == [k \in 1..m |-> IF R[k].mid THEN 0 ELSE PieceCount(R[k])]
           key == [k \in 1..Len(rows) |-> rows[k].first]
           holders == RowsAtParagraph(p)
<1>1. m \in Nat \ {0} /\ Len(rows) = m
  BY DEF Holding, StoredAs, Tiles
<1>2. IsPartialSums(P, v, m) /\ P[m] = Len(section)
  BY EndsAreSums
<1>3. v \in [1..m -> Nat]
  <2>1. \A k \in 1..m : PieceCount(R[k]) \in Nat
    BY RowParagraphs
  <2> QED BY <2>1
<1>4. \A k \in 1..m : v[k] = IF R[k].mid THEN 0 ELSE PieceCount(R[k])
  OBVIOUS
<1> HIDE DEF v, P
<1>5. PICK h \in 1..m : P[h - 1] < p /\ p <= P[h]
  <2>1. p \in 1..P[m]
    BY <1>2
  <2> QED BY <1>1, <1>2, <1>3, <2>1, PartialSumsLocate
<1>6. p \in Nat /\ Len(section) \in Nat
  BY DEF Holding
\* What a row with paragraphs says of where it starts.
<1>7. ASSUME NEW k \in 1..m
      PROVE  /\ rows[k].first = R[k].first /\ rows[k].first \in 1..Len(section)
             /\ rows[k].paragraphCount = R[k].pEnd - R[k].pStart
             /\ R[k].pStart \in Nat /\ R[k].pEnd \in Nat
             /\ R[k].first = R[k].pStart + 1
             /\ (R[k].mid => R[k].pEnd = R[k].pStart)
             /\ (~R[k].mid => R[k].pStart < R[k].pEnd /\ R[k].pStart = P[k - 1] /\ R[k].pEnd = P[k])
             /\ P[k - 1] \in Nat /\ P[k] \in Nat
  <2>1. /\ rows[k].first = R[k].first /\ rows[k].paragraphCount = R[k].pEnd - R[k].pStart
        /\ R[k] \in RangeSet /\ InPlace(R[k], section, Q)
    BY HoldingRow
  <2>2. rows[k].first \in 1..Len(section)
    BY RowsInOrder
  <2>3. (IF R[k].mid THEN R[k].pStart + 1 ELSE R[k].pStart) = P[k - 1] /\ P[k] = Reached(R[k])
    BY RangeStarts DEF P
  <2>4. P[k - 1] \in Nat /\ P[k] \in Nat /\ P[k] = P[k - 1] + v[k]
    <3>1. m \in Nat
      BY <1>1
    <3> HIDE DEF m
    <3> QED BY <1>2, <1>3, <3>1, SumsStep
  <2>5. R[k].pStart \in Nat /\ R[k].pEnd \in Nat
    BY <2>1 DEF RangeSet
  <2> QED BY <2>1, <2>2, <2>3, <2>4, <2>5 DEF InPlace, Reached
<1>8. ~R[h].mid
  <2>1. P[h] = P[h - 1] + v[h] /\ P[h] \in Nat /\ P[h - 1] \in Nat
    <3>1. m \in Nat
      BY <1>1
    <3> HIDE DEF m
    <3> QED BY <1>2, <1>3, <3>1, SumsStep
  <2>2. v[h] # 0
    BY <1>5, <1>6, <2>1
  <2> QED BY <1>4, <2>2
<1>9. holders = {k \in 1..m : rows[k].first <= p /\ rows[k].paragraphCount > 0}
  BY <1>1 DEF RowsAtParagraph
<1>10. \A k \in 1..m : k \in holders <=> rows[k].first <= p /\ ~R[k].mid
  <2> TAKE k \in 1..m
  <2>1. rows[k].paragraphCount > 0 <=> ~R[k].mid
    BY <1>7
  <2> QED BY <1>9, <2>1
<1>11. h \in holders
  <2>1. rows[h].first <= p
    BY <1>5, <1>6, <1>7, <1>8
  <2> QED BY <1>8, <1>10, <2>1
<1>12. ASSUME NEW j \in holders PROVE j <= h
  <2>1. j \in 1..m /\ ~R[j].mid /\ rows[j].first <= p
    BY <1>9, <1>10
  <2>2. CASE j > h
    <3>1. h \in Nat /\ j - 1 \in Nat /\ h <= j - 1 /\ j - 1 <= m
      BY <1>1, <2>1, <2>2
    <3>2. P[h] <= P[j - 1]
      BY <1>1, <1>2, <1>3, <3>1, SumsGrow
    <3>3. rows[j].first = P[j - 1] + 1 /\ P[j - 1] \in Nat
      BY <1>7, <2>1
    <3>4. P[h] \in Nat
      BY <1>7
    <3> QED BY <1>5, <1>6, <2>1, <3>2, <3>3, <3>4
  <2> QED BY <1>1, <2>1, <2>2
<1> HIDE DEF holders
<1>13. \A k \in 1..m : key[k] = rows[k].first
  BY <1>1
<1> HIDE DEF key
<1>14. holders \subseteq 1..m
  BY <1>9
<1>15. Ordered(key, holders, m, Len(section))
  <2>1. \A k \in holders : key[k] \in 0..Len(section)
    <3> TAKE k \in holders
    <3>1. key[k] \in 1..Len(section)
      BY <1>7, <1>13, <1>14
    <3> QED BY <1>6, <3>1
  <2> QED BY <1>1, <1>6, <1>11, <1>14, <2>1 DEF Ordered
<1>16. \A i, j \in holders : i <= j => key[i] <= key[j]
  <2> TAKE i, j \in holders
  <2> HAVE i <= j
  <2>1. i \in 1..Len(R) /\ j \in 1..Len(R)
    BY <1>14
  <2>2. rows[i].first <= rows[j].first
    BY <2>1, RowsInOrder
  <2> QED BY <1>13, <2>1, <2>2
<1>17. LastBy(key, holders) = h
  BY <1>11, <1>12, <1>15, <1>16, LastIsLargest
<1>18. Holds(R[h], Paragraph(p))
  <2>1. p \in R[h].pStart + 1 .. R[h].pEnd
    BY <1>5, <1>6, <1>7, <1>8
  <2>2. layout.paragraphs[p] = p
    BY DEF Holding, LayoutOf
  <2> QED BY <2>1, <2>2 DEF Holds, Paragraph
<1> QED BY <1>8, <1>11, <1>17, <1>18 DEF key, holders

\* Where a row's sentences lie, and what the row says of its first.
SpanOf(k, R, Q) ==
  LET r == R[k]
      n == Len(section)
  IN  /\ r.sStart \in Nat /\ r.sEnd \in Nat /\ r.sStart <= r.sEnd /\ r.sEnd <= Q[n]
      /\ r.sStart = SentsTo(R)[k - 1] /\ r.sEnd = SentsTo(R)[k]
      /\ rows[k].first \in 1..n /\ rows[k].firstSentence \in 0..Q[n]
      /\ Q[rows[k].first - 1] \in Nat
      /\ IF r.mid
           THEN /\ Q[rows[k].first - 1] <= r.sStart /\ r.sStart < r.sEnd /\ r.sEnd <= Q[rows[k].first]
                /\ rows[k].firstSentence = (r.sStart - Q[rows[k].first - 1]) + 1
           ELSE r.sStart = Q[rows[k].first - 1] /\ rows[k].firstSentence = 0

\* Every row spans its sentences so.
LEMMA RowSpan ==
  ASSUME NEW R, NEW Q, Holding(R, Q), NEW k \in 1..Len(R)
  PROVE  SpanOf(k, R, Q)
<1> DEFINE r == R[k]
           n == Len(section)
           f == r.first
<1>1. PICK O : Setting(section, "paragraph", Q, O)
  BY HoldingRow
<1>2. /\ r \in RangeSet /\ InPlace(r, section, Q)
      /\ rows[k].first = f /\ rows[k].firstSentence = r.firstSentence
  BY HoldingRow
<1>3. r.sStart = SentsTo(R)[k - 1] /\ SentsTo(R)[k] = r.sEnd
  BY RangeStarts
<1>4. /\ Reached(r) \in 1..n /\ r.sEnd \in Nat /\ r.sStart \in Nat /\ r.pStart \in Nat
      /\ f = r.pStart + 1 /\ f \in 1..n /\ f <= Reached(r) /\ r.sEnd <= Q[Reached(r)]
  BY <1>1, <1>2, ReachedIs
<1>5. n \in Nat
  BY <1>1, SettingSteps
<1> HIDE DEF f, r
<1>6. /\ Q[f - 1] \in Nat /\ Q[f] \in Nat /\ Q[Reached(r)] <= Q[n] /\ Q[Reached(r)] \in Nat /\ Q[n] \in Nat
      /\ r.pStart = f - 1
  <2>1. f - 1 \in Nat /\ f \in Nat /\ f - 1 <= f /\ f <= n /\ Reached(r) \in Nat /\ Reached(r) <= n
        /\ r.pStart = f - 1
    BY <1>4, <1>5
  <2>2. Q[f - 1] \in Nat /\ Q[f] \in Nat
    BY <1>1, <2>1, SettingSteps
  <2>3. Q[Reached(r)] <= Q[n] /\ Q[Reached(r)] \in Nat /\ Q[n] \in Nat
    BY <1>1, <1>5, <2>1, SettingSteps
  <2> QED BY <2>1, <2>2, <2>3
<1>7. r.sEnd <= Q[n]
  BY <1>4, <1>6
<1>8. IF r.mid
        THEN /\ Q[f - 1] <= r.sStart /\ r.sStart < r.sEnd /\ r.sEnd <= Q[f]
             /\ r.firstSentence = (r.sStart - Q[f - 1]) + 1
        ELSE r.sStart = Q[f - 1] /\ r.firstSentence = 0
  BY <1>2, <1>6 DEF InPlace, f
<1>9. r.sStart <= r.sEnd
  <2>1. SentsTo(R)[k] = SentsTo(R)[k - 1] + (R[k].sEnd - R[k].sStart)
    BY EndsGrow
  <2>2. SentsTo(R)[k - 1] \in Nat /\ SentsTo(R)[k] \in Nat
    BY EndsGrow
  <2>3. CASE r.mid
    BY <1>4, <1>8, <2>3
  <2>4. CASE ~r.mid
    <3>1. Q[r.pEnd - 1] <= r.sEnd /\ r.pStart < r.pEnd /\ r.pEnd <= n /\ r.pEnd \in Nat
      BY <1>2, <2>4 DEF InPlace, RangeSet
    <3>2. Q[r.pStart] <= Q[r.pEnd - 1] /\ Q[r.pStart] \in Nat /\ Q[r.pEnd - 1] \in Nat
      <4>1. r.pStart \in Nat /\ r.pEnd - 1 \in Nat /\ r.pStart <= r.pEnd - 1 /\ r.pEnd - 1 <= n
        BY <1>4, <1>5, <3>1, SMTT(40)
      <4> QED BY <1>1, <4>1, SettingSteps
    <3>3. r.sStart = Q[r.pStart]
      BY <1>2, <2>4 DEF InPlace
    <3> DEFINE a == Q[r.pStart]
               b == Q[r.pEnd - 1]
               e == r.sEnd
    <3>4. b <= e /\ a <= b /\ a \in Nat /\ b \in Nat /\ e \in Nat
      BY <1>4, <3>1, <3>2
    <3> HIDE DEF a, b, e
    <3>5. a <= e
      BY <3>4
    <3> QED BY <3>3, <3>5 DEF a, e
  <2> QED BY <2>3, <2>4
<1>10. r.firstSentence \in 0..Q[n]
  <2>1. r.firstSentence \in Nat
    BY <1>2 DEF RangeSet
  <2>2. r.firstSentence <= Q[n]
    <3>1. CASE r.mid
      <4> DEFINE a == Q[f - 1]
                 b == r.sStart
                 e == r.sEnd
                 z == Q[n]
                 h == r.firstSentence
      <4>1. h = (b - a) + 1 /\ b < e /\ e <= z /\ a \in Nat /\ b \in Nat /\ e \in Nat /\ z \in Nat
        BY <1>4, <1>6, <1>7, <1>8, <3>1
      <4> HIDE DEF a, b, e, z, h
      <4>2. h <= z
        BY <4>1
      <4> QED BY <4>2 DEF h, z
    <3>2. CASE ~r.mid
      BY <1>6, <1>8, <3>2
    <3> QED BY <3>1, <3>2
  <2> QED BY <1>6, <2>1, <2>2
<1> QED
  BY <1>2, <1>3, <1>4, <1>6, <1>7, <1>8, <1>9, <1>10 DEF SpanOf, r, f

\* The columns the rows are ordered by.
FirstKey == [k \in 1..Len(rows) |-> rows[k].first]
SentenceKey == [k \in 1..Len(rows) |-> rows[k].firstSentence]
\* The candidates for a sentence that start where the last of them by paragraph does.
SameFirst(p, s) ==
  {j \in RowsAtSentence(p, s) : rows[j].first = rows[LastBy(FirstKey, RowsAtSentence(p, s))].first}

\* The row a sentence's position is read from is a row.
LEMMA SentenceRow ==
  ASSUME NEW R, NEW Q, Holding(R, Q), NEW p \in 1..Len(section), NEW s \in Nat
  PROVE  /\ RowsAtSentence(p, s) # {}
         /\ Ordered(FirstKey, RowsAtSentence(p, s), Len(R), Len(section))
         /\ LastBy(FirstKey, RowsAtSentence(p, s)) \in RowsAtSentence(p, s)
         /\ Ordered(SentenceKey, SameFirst(p, s), Len(R), Q[Len(section)])
         /\ LastBy(SentenceKey, SameFirst(p, s)) \in 1..Len(R)
<1> DEFINE m == Len(R)
           n == Len(section)
           holders == RowsAtSentence(p, s)
           l == LastBy(FirstKey, holders)
           same == SameFirst(p, s)
<1>1. m \in Nat \ {0} /\ Len(rows) = m
  BY DEF Holding, StoredAs, Tiles
<1>2. \A k \in 1..m : /\ rows[k].first \in 1..n /\ rows[k].firstSentence \in 0..Q[n]
                      /\ FirstKey[k] = rows[k].first /\ SentenceKey[k] = rows[k].firstSentence
  <2> TAKE k \in 1..m
  <2>1. SpanOf(k, R, Q)
    BY RowSpan
  <2> QED BY <1>1, <2>1 DEF SpanOf, FirstKey, SentenceKey
<1>3. n \in Nat /\ Q[n] \in Nat
  <2>1. PICK O : Setting(section, "paragraph", Q, O)
    <3>1. 1 \in 1..Len(R)
      BY <1>1
    <3> QED BY <3>1, HoldingRow
  <2>2. n \in Nat
    BY <2>1, SettingSteps
  <2>3. n <= n
    BY <2>2
  <2> QED BY <2>1, <2>2, <2>3, SettingSteps
<1>4. 1 \in holders
  <2>1. 1 \in 1..m /\ 1 \in 1..Len(R)
    BY <1>1
  <2>2. ~R[1].mid /\ R[1].sStart = 0
    BY <2>1, RangeStarts
  <2>3. R[1].pStart = ParasTo(R)[0] /\ ParasTo(R)[0] = 0
    BY <2>1, <2>2, RangeStarts
  <2>4. rows[1].first = 1
    BY <2>1, <2>3, HoldingRow DEF InPlace
  <2>5. rows[1].firstSentence = 0
    <3>1. SpanOf(1, R, Q)
      BY <2>1, RowSpan
    <3> QED BY <2>2, <3>1 DEF SpanOf
  <2>6. 1 <= p /\ 0 <= s
    BY <1>3
  <2> QED BY <1>1, <2>1, <2>4, <2>5, <2>6 DEF RowsAtSentence
<1>5. holders \subseteq 1..m
  BY <1>1 DEF RowsAtSentence
<1> HIDE DEF holders, m, n
<1>6. Ordered(FirstKey, holders, m, n)
  <2>1. \A k \in holders : FirstKey[k] \in 0..n
    <3> TAKE k \in holders
    <3>1. FirstKey[k] \in 1..n
      BY <1>2, <1>5
    <3> QED BY <1>3, <3>1
  <2> QED BY <1>1, <1>3, <1>4, <1>5, <2>1 DEF Ordered
<1>7. l \in holders
  BY <1>6, LastByIs
<1>8. same = {j \in holders : rows[j].first = rows[l].first}
  BY DEF SameFirst, holders
<1> HIDE DEF l, same
<1>9. Ordered(SentenceKey, same, m, Q[n])
  <2>1. \A k \in same : SentenceKey[k] \in 0..Q[n]
    BY <1>2, <1>5, <1>8
  <2>2. l \in same /\ same \subseteq 1..m
    BY <1>5, <1>7, <1>8
  <2> QED BY <1>1, <1>3, <2>1, <2>2 DEF Ordered
<1>10. LastBy(SentenceKey, same) \in same
  BY <1>9, LastByIs
<1>11. same \subseteq 1..m
  BY <1>5, <1>8
<1> QED BY <1>4, <1>6, <1>7, <1>9, <1>10, <1>11 DEF holders, same, l, m, n

\* The row a sentence's position is read from holds the sentence.
LEMMA SentenceHolder ==
  ASSUME NEW R, NEW Q, Holding(R, Q), NEW p \in 1..Len(section), NEW s \in 1..section[p]
  PROVE  Holds(R[LastBy(SentenceKey, SameFirst(p, s))], Sentence(p, s))
<1> DEFINE m == Len(R)
           n == Len(section)
           S == SentsTo(R)
           w == [k \in 1..m |-> R[k].sEnd - R[k].sStart]
           holders == RowsAtSentence(p, s)
           same == SameFirst(p, s)
           q == Q[p - 1]
           slot == q + s
<1>1. m \in Nat \ {0} /\ Len(rows) = m
  BY DEF Holding, StoredAs, Tiles
<1>2. PICK O : Setting(section, "paragraph", Q, O)
  <2>1. 1 \in 1..Len(R)
    BY <1>1
  <2> QED BY <2>1, HoldingRow
<1>3. /\ n \in Nat /\ p \in Nat /\ section[p] \in Nat /\ s \in Nat
      /\ q \in Nat /\ Q[p] = q + section[p] /\ Q[p] \in Nat
  BY <1>2, SettingSteps
<1>4. \A x, y \in Nat : x <= y /\ y <= n => Q[x] <= Q[y] /\ Q[x] \in Nat /\ Q[y] \in Nat
  BY <1>2, SettingSteps
<1>5. /\ slot \in 1..Q[n] /\ slot <= Q[p] /\ q < slot /\ slot \in Nat
      /\ LayoutOf(section).sentences[slot] = Sentence(p, s)
  <2>1. /\ slot \in 1..Q[n]
        /\ LayoutOf(section).sentences[slot] = Sentence(p, s)
    BY <1>2, SentencePlaces
  <2> QED BY <1>3, <2>1
<1> HIDE DEF slot
<1>6. \A k \in 1..m : SpanOf(k, R, Q)
  BY RowSpan
<1>7. IsPartialSums(S, w, m) /\ S[m] = Q[n]
  BY EndsAreSums
<1>8. w \in [1..m -> Nat]
  <2>1. \A k \in 1..m : R[k].sEnd - R[k].sStart \in Nat
    <3> TAKE k \in 1..m
    <3>1. R[k].sStart \in Nat /\ R[k].sEnd \in Nat /\ R[k].sStart <= R[k].sEnd
      BY <1>6 DEF SpanOf
    <3> QED BY <3>1
  <2> QED BY <2>1
<1>9. PICK h \in 1..m : S[h - 1] < slot /\ slot <= S[h]
  <2>1. slot \in 1..S[m] /\ m \in Nat
    BY <1>1, <1>5, <1>7
  <2> HIDE DEF m, S, w
  <2> QED BY <1>7, <1>8, <2>1, PartialSumsLocate
<1>10. \A a, b \in 1..m : a < b => R[a].sEnd <= R[b].sStart
  <2> TAKE a, b \in 1..m
  <2> HAVE a < b
  <2>1. a \in Nat /\ b - 1 \in Nat /\ a <= b - 1 /\ b - 1 <= m /\ m \in Nat
    BY <1>1
  <2>2. S[a] <= S[b - 1]
    <3> HIDE DEF m, S, w
    <3> QED BY <1>7, <1>8, <2>1, SumsGrow
  <2>3. R[a].sEnd = S[a] /\ R[b].sStart = S[b - 1]
    BY <1>6 DEF SpanOf
  <2> QED BY <2>2, <2>3
<1>11. R[h].sStart < slot /\ slot <= R[h].sEnd
  BY <1>6, <1>9 DEF SpanOf
<1> HIDE DEF S, w
<1>12. holders \subseteq 1..m
       /\ \A k \in 1..m : k \in holders <=>
           rows[k].first <= p /\ (rows[k].first < p \/ rows[k].firstSentence <= s)
  <2>1. holders \subseteq 1..m
    BY <1>1 DEF RowsAtSentence
  <2>2. ASSUME NEW k \in 1..m
        PROVE  k \in holders <=>
           rows[k].first <= p /\ (rows[k].first < p \/ rows[k].firstSentence <= s)
    <3>1. k \in 1..Len(rows)
      BY <1>1
    <3> QED BY <3>1 DEF RowsAtSentence
  <2> QED BY <2>1, <2>2
\* The row that holds the sentence is one of the candidates.
<1>13. h \in holders
  <2> DEFINE f == rows[h].first
             x == Q[f - 1]
             b == R[h].sStart
             v == rows[h].firstSentence
  <2>1. /\ f \in 1..n /\ x \in Nat /\ b \in Nat /\ x <= b
        /\ \/ v = 0
           \/ v = (b - x) + 1
    <3>1. SpanOf(h, R, Q)
      BY <1>6
    <3>2. CASE R[h].mid
      BY <3>1, <3>2 DEF SpanOf
    <3>3. CASE ~R[h].mid
      BY <3>1, <3>3 DEF SpanOf
    <3> QED BY <3>2, <3>3
  <2>2. b < slot
    BY <1>11
  <2> HIDE DEF b, v
  <2>3. f <= p
    <3>1. CASE p < f
      <4>1. p \in Nat /\ f - 1 \in Nat /\ p <= f - 1 /\ f - 1 <= n
        <5>1. f \in 1..n
          BY <2>1
        <5> HIDE DEF f, n
        <5> QED BY <1>3, <3>1, <5>1
      <4>2. Q[p] <= x
        BY <1>4, <4>1
      <4> HIDE DEF x, f
      <4> QED BY <1>3, <1>5, <2>1, <2>2, <4>2
    <3> QED BY <1>3, <2>1, <3>1
  <2>4. CASE f < p
    BY <1>12, <2>3, <2>4
  <2>5. CASE f = p
    <3>1. x = q
      BY <2>5
    <3> HIDE DEF x, q
    <3>2. v <= s
      BY <1>3, <2>1, <2>2, <3>1 DEF slot
    <3> QED BY <1>12, <2>3, <3>2 DEF v
  <2>6. f \in Nat
    BY <2>1
  <2> HIDE DEF f
  <2> QED BY <1>3, <2>3, <2>4, <2>5, <2>6
\* No later row is one.
<1>14. ASSUME NEW j \in holders PROVE j <= h
  <2> DEFINE f == rows[j].first
             x == Q[f - 1]
             y == Q[f]
             b == R[j].sStart
             e == R[j].sEnd
             v == rows[j].firstSentence
  <2>1. j \in 1..m /\ f <= p /\ (f < p \/ v <= s)
    <3>1. j \in 1..m /\ j \in holders
      BY <1>12
    <3> HIDE DEF holders, m, x, y, b, e
    <3>2. /\ rows[j].first <= p
          /\ rows[j].first < p \/ rows[j].firstSentence <= s
      BY <1>12, <3>1
    <3> QED BY <3>1, <3>2
  <2>2. /\ f \in 1..n /\ x \in Nat /\ b \in Nat /\ e \in Nat
        /\ \/ b = x
           \/ b < e /\ e <= y /\ v = (b - x) + 1
    <3>1. SpanOf(j, R, Q)
      BY <1>6, <2>1
    <3>2. CASE R[j].mid
      BY <3>1, <3>2 DEF SpanOf
    <3>3. CASE ~R[j].mid
      BY <3>1, <3>3 DEF SpanOf
    <3> QED BY <3>2, <3>3
  <2>3. CASE h < j
    <3>1. slot <= b
      <4> DEFINE eh == R[h].sEnd
      <4>1. eh <= b /\ slot <= eh /\ eh \in Nat
        BY <1>6, <1>10, <1>11, <2>1, <2>3 DEF SpanOf
      <4> HIDE DEF eh, b
      <4> QED BY <1>5, <2>2, <4>1
    <3>2. f \in Nat /\ f - 1 \in Nat /\ p - 1 \in Nat /\ f - 1 <= p - 1 /\ p - 1 <= n
      <4>1. f \in 1..n /\ f <= p
        BY <2>1, <2>2
      <4>2. p \in 1..n
        OBVIOUS
      <4> HIDE DEF f, n
      <4> QED BY <1>3, <4>1, <4>2
    <3>3. x <= q
      BY <1>4, <3>2
    <3>4. CASE b = x
      <4> HIDE DEF b, x, q
      <4> QED BY <1>3, <1>5, <2>2, <3>1, <3>3, <3>4
    <3>5. CASE b < e /\ e <= y /\ v = (b - x) + 1
      <4>1. CASE f < p
        <5>1. f <= p - 1
          BY <1>3, <3>2, <4>1
        <5>2. y <= q /\ y \in Nat
          BY <1>4, <3>2, <5>1
        <5> HIDE DEF b, x, y, e, q
        <5> QED BY <1>3, <1>5, <2>2, <3>1, <3>5, <5>2
      <4>2. CASE f = p
        <5>1. x = q /\ v <= s
          BY <1>3, <2>1, <4>2
        <5> HIDE DEF b, x, y, e, q, v
        <5> QED BY <1>3, <2>2, <3>1, <3>5, <5>1 DEF slot
      <4> QED BY <1>3, <2>1, <3>2, <4>1, <4>2
    <3> QED BY <2>2, <3>4, <3>5
  <2> QED BY <1>1, <2>1, <2>3
<1> HIDE DEF holders
<1>15. \A i, j \in holders :
         i <= j => /\ rows[i].first <= rows[j].first
                   /\ rows[i].first = rows[j].first => rows[i].firstSentence <= rows[j].firstSentence
  <2> TAKE i, j \in holders
  <2> HAVE i <= j
  <2>1. i \in 1..Len(R) /\ j \in 1..Len(R)
    BY <1>12
  <2> QED BY <2>1, RowsInOrder
<1>16. \A k \in holders : FirstKey[k] = rows[k].first /\ SentenceKey[k] = rows[k].firstSentence
  BY <1>1, <1>12 DEF FirstKey, SentenceKey
<1>17. Ordered(FirstKey, holders, Len(R), n) /\ Ordered(SentenceKey, same, Len(R), Q[n])
  BY <1>3, SentenceRow DEF holders
<1>18. LastBy(FirstKey, holders) = h
  <2>1. \A i, j \in holders : i <= j => FirstKey[i] <= FirstKey[j]
    BY <1>15, <1>16
  <2> QED BY <1>13, <1>14, <1>17, <2>1, LastIsLargest
<1>19. same = {j \in holders : rows[j].first = rows[h].first}
  BY <1>18 DEF SameFirst, holders
<1> HIDE DEF same
<1>20. LastBy(SentenceKey, same) = h
  <2>1. h \in same /\ \A j \in same : j <= h
    BY <1>13, <1>14, <1>19
  <2>2. \A i, j \in same : i <= j => SentenceKey[i] <= SentenceKey[j]
    BY <1>15, <1>16, <1>19
  <2> QED BY <1>17, <2>1, <2>2, LastIsLargest
<1>21. Holds(R[h], Sentence(p, s))
  <2>1. slot \in R[h].sStart + 1 .. R[h].sEnd
    <3>1. R[h].sStart \in Nat /\ R[h].sEnd \in Nat
      BY <1>6 DEF SpanOf
    <3> QED BY <1>5, <1>11, <3>1
  <2>2. layout.sentences[slot] = Sentence(p, s)
    BY <1>5 DEF Holding
  <2>3. Sentence(p, s).sent # 0
    BY <1>3 DEF Sentence
  <2> QED BY <2>1, <2>2, <2>3 DEF Holds
<1> QED BY <1>20, <1>21 DEF same

\* The row a paragraph's position is read from is a row that is not mid-paragraph.
LEMMA ParagraphRow ==
  ASSUME NEW R, NEW Q, Holding(R, Q), NEW p \in Nat \ {0}
  PROVE  /\ RowsAtParagraph(p) # {}
         /\ LastBy(FirstKey, RowsAtParagraph(p)) \in 1..Len(R)
         /\ ~R[LastBy(FirstKey, RowsAtParagraph(p))].mid
<1> DEFINE m == Len(R)
           n == Len(section)
           holders == RowsAtParagraph(p)
           l == LastBy(FirstKey, holders)
<1>1. m \in Nat \ {0} /\ Len(rows) = m /\ 1 \in 1..Len(R)
  <2>1. m \in Nat \ {0} /\ Len(rows) = m
    BY DEF Holding, StoredAs, Tiles
  <2> QED BY <2>1
<1>2. \A k \in 1..m : /\ rows[k].first \in 1..n /\ FirstKey[k] = rows[k].first
                      /\ rows[k].paragraphCount > 0 <=> ~R[k].mid
  <2> TAKE k \in 1..m
  <2>1. SpanOf(k, R, Q)
    BY RowSpan
  <2>2. rows[k].paragraphCount = R[k].pEnd - R[k].pStart /\ R[k] \in RangeSet /\ InPlace(R[k], section, Q)
    BY HoldingRow
  <2>3. R[k].pStart \in Nat /\ R[k].pEnd \in Nat
    BY <2>2 DEF RangeSet
  <2>4. rows[k].paragraphCount > 0 <=> ~R[k].mid
    <3>1. CASE R[k].mid
      <4>1. R[k].pEnd = R[k].pStart
        BY <2>2, <3>1 DEF InPlace
      <4> QED BY <2>2, <2>3, <3>1, <4>1
    <3>2. CASE ~R[k].mid
      <4>1. R[k].pStart < R[k].pEnd
        BY <2>2, <3>2 DEF InPlace
      <4> QED BY <2>2, <2>3, <3>2, <4>1
    <3> QED BY <3>1, <3>2
  <2> QED BY <1>1, <2>1, <2>4 DEF SpanOf, FirstKey
<1>3. n \in Nat
  <2>1. PICK O : Setting(section, "paragraph", Q, O)
    BY <1>1, HoldingRow
  <2> QED BY <2>1, SettingSteps
<1>4. 1 \in holders
  <2>1. ~R[1].mid
    BY <1>1, RangeStarts
  <2>2. R[1].pStart = ParasTo(R)[0] /\ ParasTo(R)[0] = 0
    BY <1>1, <2>1, RangeStarts
  <2>3. rows[1].first = 1
    BY <1>1, <2>2, HoldingRow DEF InPlace
  <2>4. rows[1].paragraphCount > 0
    BY <1>1, <1>2, <2>1
  <2>5. 1 <= p
    OBVIOUS
  <2>6. 1 \in 1..Len(rows)
    BY <1>1
  <2> QED BY <2>3, <2>4, <2>5, <2>6 DEF RowsAtParagraph
<1>5. holders \subseteq 1..m
  BY <1>1 DEF RowsAtParagraph
<1>6. \A k \in holders : rows[k].paragraphCount > 0
  BY DEF RowsAtParagraph
<1> HIDE DEF holders, m, n
<1>7. Ordered(FirstKey, holders, m, n)
  <2>1. \A k \in holders : FirstKey[k] \in 0..n
    <3> TAKE k \in holders
    <3>1. FirstKey[k] \in 1..n
      BY <1>2, <1>5
    <3> QED BY <1>3, <3>1
  <2> QED BY <1>1, <1>3, <1>4, <1>5, <2>1 DEF Ordered
<1>8. l \in holders
  BY <1>7, LastByIs
<1> HIDE DEF l
<1>9. l \in 1..m /\ rows[l].paragraphCount > 0
  BY <1>5, <1>6, <1>8
<1> QED BY <1>2, <1>4, <1>9 DEF holders, l, m

\* A unit's position is read from the row chosen for it.
LEMMA ParagraphPosition ==
  ASSUME NEW units, NEW policy, NEW p, RowsAtParagraph(p) # {}
  PROVE  PositionOf(units, policy, Paragraph(p)) =
           PositionAt(LastBy(FirstKey, RowsAtParagraph(p)), units, policy, Paragraph(p))
<1>1. Paragraph(p).sent = 0 /\ Paragraph(p).para = p
  BY DEF Paragraph
<1> DEFINE unit == Paragraph(p)
<1> HIDE DEF unit
<1>2. unit.sent = 0 /\ unit.para = p
  BY <1>1 DEF unit
<1>3. PositionOf(units, policy, unit) = PositionAt(LastBy(FirstKey, RowsAtParagraph(p)), units, policy, unit)
  BY <1>2 DEF PositionOf, PositionAt, FirstKey
<1> QED BY <1>3 DEF unit

\* A sentence's position is read from the row chosen for it.
LEMMA SentencePosition ==
  ASSUME NEW units, NEW policy, NEW p, NEW s, s # 0, RowsAtSentence(p, s) # {}
  PROVE  PositionOf(units, policy, Sentence(p, s)) =
           PositionAt(LastBy(SentenceKey, SameFirst(p, s)), units, policy, Sentence(p, s))
<1>1. Sentence(p, s).sent = s /\ Sentence(p, s).para = p
  BY DEF Sentence
<1> DEFINE unit == Sentence(p, s)
<1> HIDE DEF unit
<1>2. unit.sent = s /\ unit.para = p
  BY <1>1 DEF unit
<1>3. PositionOf(units, policy, unit) =
        PositionAt(LastBy(SentenceKey, SameFirst(unit.para, unit.sent)), units, policy, unit)
  <2>1. unit.sent # 0 /\ RowsAtSentence(unit.para, unit.sent) # {}
    BY <1>2
  <2> QED BY <2>1 DEF PositionOf, PositionAt, FirstKey, SentenceKey, SameFirst
<1>4. SameFirst(unit.para, unit.sent) = SameFirst(p, s)
  BY <1>2
<1> QED BY <1>3, <1>4 DEF unit

\* A paragraph's position is where the stream lists it, a paragraph it does not list has none.
LEMMA ParagraphPlaced ==
  ASSUME NEW R, NEW Q, NEW units, NEW policy, NEW O, NEW W, NEW C, Reading(R, Q, units, policy, O, W, C),
         NEW p \in 1..Len(section) + 1
  PROVE  PositionOf(units, policy, Paragraph(p)) = PlacesOf(Kept(W, policy), Paragraph(p))
<1> DEFINE l == LastBy(FirstKey, RowsAtParagraph(p))
           unit == Paragraph(p)
           stream == Kept(W, policy)
<1>1. Holding(R, Q) /\ Len(section) \in Nat
  BY DEF Reading, Holding
<1>2. RowsAtParagraph(p) # {} /\ l \in 1..Len(R) /\ ~R[l].mid
  <2>1. p \in Nat \ {0}
    BY <1>1
  <2> QED BY <1>1, <2>1, ParagraphRow
<1>3. PositionOf(units, policy, unit) = PositionAt(l, units, policy, unit)
  BY <1>2, ParagraphPosition
<1>4. Holds(R[l], unit) \/ \A i \in 1..Len(stream) : stream[i].unit # unit
  <2>1. CASE p \in 1..Len(section)
    BY <1>1, <2>1, ParagraphHolder DEF FirstKey
  <2>2. CASE p \notin 1..Len(section)
    <3>1. ASSUME NEW i \in 1..Len(stream), stream[i].unit = unit PROVE FALSE
      <4>1. \E a \in 1..Len(section) :
              \/ stream[i].unit = Paragraph(a)
              \/ units = "sentence" /\ \E s \in 1..section[a] : stream[i].unit = Sentence(a, s)
        BY StreamUnits
      <4>2. \E a \in 1..Len(section) : stream[i].unit.para = a
        <5>1. PICK a \in 1..Len(section) :
                \/ stream[i].unit = Paragraph(a)
                \/ \E s \in 1..section[a] : stream[i].unit = Sentence(a, s)
          BY <4>1
        <5>2. stream[i].unit.para = a
          <6>1. CASE stream[i].unit = Paragraph(a)
            <7> HIDE DEF stream
            <7> QED BY <6>1 DEF Paragraph
          <6>2. CASE \E s \in 1..section[a] : stream[i].unit = Sentence(a, s)
            <7>1. PICK s \in 1..section[a] : stream[i].unit = Sentence(a, s)
              BY <6>2
            <7> HIDE DEF stream
            <7> QED BY <7>1 DEF Sentence
          <6> QED BY <5>1, <6>1, <6>2
        <5> QED BY <5>2
      <4>3. unit.para = p
        BY DEF Paragraph
      <4> HIDE DEF unit, stream
      <4> QED BY <2>2, <3>1, <4>2, <4>3
    <3> QED BY <3>1
  <2> QED BY <2>1, <2>2
<1> HIDE DEF l, unit, stream
<1>5. PositionAt(l, units, policy, unit) = PlacesOf(Kept(W, policy), unit)
  BY <1>2, <1>4, PositionAtHolder DEF stream
<1> QED BY <1>3, <1>5 DEF unit

\* A sentence's position is where the sentence stream lists it, and the paragraph stream lists none.
LEMMA SentencePlaced ==
  ASSUME NEW R, NEW Q, NEW units, NEW policy, NEW O, NEW W, NEW C, Reading(R, Q, units, policy, O, W, C),
         NEW p \in 1..Len(section), NEW s \in 1..section[p] + 1
  PROVE  PositionOf(units, policy, Sentence(p, s)) = PlacesOf(Kept(W, policy), Sentence(p, s))
<1> DEFINE l == LastBy(SentenceKey, SameFirst(p, s))
           unit == Sentence(p, s)
           stream == Kept(W, policy)
<1>1. Holding(R, Q) /\ section[p] \in Nat /\ units \in Kinds
  BY DEF Reading, Holding, Setting
<1>2. RowsAtSentence(p, s) # {} /\ l \in 1..Len(R)
  <2>1. s \in Nat
    BY <1>1
  <2> QED BY <1>1, <2>1, SentenceRow
<1>3. s # 0
  BY <1>1
<1>4. PositionOf(units, policy, unit) = PositionAt(l, units, policy, unit)
  BY <1>2, <1>3, SentencePosition
<1>5. unit.para = p /\ unit.sent = s
  BY DEF Sentence
<1>6. \A i \in 1..Len(stream) : \E a \in 1..Len(section) :
        \/ stream[i].unit.sent = 0
        \/ /\ units = "sentence" /\ stream[i].unit.para = a
           /\ stream[i].unit.sent \in 1..section[a]
  <2> TAKE i \in 1..Len(stream)
  <2>1. \E a \in 1..Len(section) :
          \/ stream[i].unit = Paragraph(a)
          \/ units = "sentence" /\ \E t \in 1..section[a] : stream[i].unit = Sentence(a, t)
    BY StreamUnits
  <2>2. PICK a \in 1..Len(section) :
          \/ stream[i].unit = Paragraph(a)
          \/ units = "sentence" /\ \E t \in 1..section[a] : stream[i].unit = Sentence(a, t)
    BY <2>1
  <2> HIDE DEF stream
  <2>3. CASE stream[i].unit = Paragraph(a)
    BY <2>3 DEF Paragraph
  <2>4. CASE units = "sentence" /\ \E t \in 1..section[a] : stream[i].unit = Sentence(a, t)
    <3>1. PICK t \in 1..section[a] : stream[i].unit = Sentence(a, t)
      BY <2>4
    <3>2. stream[i].unit.para = a /\ stream[i].unit.sent = t
      BY <3>1 DEF Sentence
    <3> QED BY <2>4, <3>2
  <2> QED BY <2>2, <2>3, <2>4
<1>7. s \in 1..section[p] => Holds(R[l], unit)
  BY <1>1, SentenceHolder
<1> HIDE DEF l, unit
<1>8. CASE units = "sentence"
  <2>1. Holds(R[l], unit) \/ \A i \in 1..Len(stream) : stream[i].unit # unit
    <3>1. CASE s \in 1..section[p]
      BY <1>7, <3>1
    <3>2. CASE s \notin 1..section[p]
      <4>1. ASSUME NEW i \in 1..Len(stream), stream[i].unit = unit PROVE FALSE
        <5> HIDE DEF stream
        <5>1. stream[i].unit.sent = s /\ stream[i].unit.para = p
          BY <1>5, <4>1
        <5> QED BY <1>3, <1>6, <3>2, <5>1
      <4> QED BY <4>1
    <3> QED BY <3>1, <3>2
  <2> HIDE DEF stream
  <2>2. units # "paragraph"
    BY <1>8
  <2>3. PositionAt(l, units, policy, unit) = PlacesOf(Kept(W, policy), unit)
    BY <1>2, <2>1, <2>2, PositionAtHolder DEF stream
  <2> QED BY <1>4, <2>3 DEF unit
<1>9. CASE units = "paragraph"
  <2> DEFINE y == ChunkEntries(l, "paragraph", policy)
  <2>1. \A i \in 1..Len(y) : y[i].unit.sent = 0
    BY <1>1, <1>2, ParagraphsOnly
  <2> HIDE DEF y, stream
  <2>2. \A i \in 1..Len(y) : y[i].unit # unit
    BY <1>3, <1>5, <2>1
  <2>3. PositionAt(l, units, policy, unit) = {}
    <3>1. {i \in 1..Len(y) : y[i].unit = unit} = {}
      BY <2>2
    <3> QED BY <1>9, <3>1 DEF PositionAt, y
  <2>4. {j \in 1..Len(stream) : stream[j].unit = unit} = {}
    BY <1>3, <1>5, <1>6, <1>9
  <2>5. PlacesOf(stream, unit) = {}
    BY <2>4 DEF PlacesOf
  <2> QED BY <1>4, <2>3, <2>5 DEF unit, stream
<1> QED BY <1>1, <1>8, <1>9 DEF Kinds

\* The position of a unit read from the rows is where the section's stream has it.
THEOREM PositionsOfStream == Spec => []PositionsInvertStream
<1>1. CutInv /\ PlaceInv /\ StoredInv => PositionsInvertStream
  <2> SUFFICES ASSUME CutInv, PlaceInv, StoredInv, rows # <<>>,
                      NEW kind \in Kinds, NEW policy \in Policies
               PROVE  LET stream == Stream(section, kind, policy)
                          units == {Paragraph(p) : p \in 1..Len(section) + 1} \cup
                                   UNION {{Sentence(p, s) : s \in 1..section[p] + 1} : p \in 1..Len(section)}
                      IN  \A unit \in units :
                            LET places == {i \in 1..Len(stream) : stream[i].unit = unit}
                            IN  PositionOf(kind, policy, unit) = {i - 1 : i \in places}
    BY DEF PositionsInvertStream, Stored
  <2> DEFINE stream == Stream(section, kind, policy)
             whole == {Paragraph(p) : p \in 1..Len(section) + 1}
             parts == UNION {{Sentence(p, s) : s \in 1..section[p] + 1} : p \in 1..Len(section)}
  <2>1. section \in Seq(Nat) /\ layout = LayoutOf(section)
    BY DEF CutInv, Shape, PlaceInv
  <2>2. PICK Q : IsPartialSums(Q, section, Len(section))
    <3>1. section \in [1..Len(section) -> Nat] /\ Len(section) \in Nat
      BY <2>1
    <3> QED BY <3>1, PartialSumsExist
  <2>3. PICK R : StoredAs(rows, R, section, Q)
    BY <2>2 DEF StoredInv, IsStored
  <2>4. ASSUME NEW unit \in whole \cup parts
        PROVE  PositionOf(kind, policy, unit) = PlacesOf(stream, unit)
    <3>1. CASE section = <<>>
      <4>1. Len(stream) = 0
        BY <3>1, EmptyStream
      <4>2. Len(section) = 0
        BY <3>1
      <4>3. parts = {}
        BY <4>2
      <4>4. \E p \in 1..Len(section) + 1 : unit = Paragraph(p)
        BY <2>4, <4>3
      <4>5. unit.sent = 0
        BY <4>4 DEF Paragraph
      <4>6. \A k \in 1..Len(rows) : rows[k].paragraphCount = 0
        <5> TAKE k \in 1..Len(rows)
        <5>1. R = <<WholeRange>> /\ Len(rows) = Len(R)
          BY <2>3, <3>1 DEF StoredAs, Tiles
        <5>2. k = 1 /\ R[1] = WholeRange
          BY <5>1
        <5>3. rows[k].paragraphCount = R[k].pEnd - R[k].pStart
          BY <2>3, <5>1 DEF StoredAs, RowIs
        <5> QED BY <5>2, <5>3 DEF WholeRange
      <4>7. RowsAtParagraph(unit.para) = {}
        BY <4>6 DEF RowsAtParagraph
      <4> HIDE DEF stream, whole, parts
      <4>8. PositionOf(kind, policy, unit) = {}
        BY <4>5, <4>7 DEF PositionOf
      <4>9. {i \in 1..Len(stream) : stream[i].unit = unit} = {}
        BY <4>1
      <4>10. PlacesOf(stream, unit) = {}
        BY <4>9 DEF PlacesOf
      <4> QED BY <4>8, <4>10
    <3>2. CASE section # <<>>
      <4>1. Holding(R, Q)
        BY <2>1, <2>2, <2>3, <3>2 DEF Holding
      <4>2. PICK O, C : Reading(R, Q, kind, policy, O, Walk(LayoutOf(section), kind), C)
        BY <4>1, ReadingExists
      <4> DEFINE W == Walk(LayoutOf(section), kind)
      <4>3. stream = Kept(W, policy)
        BY DEF Stream
      <4>4. Reading(R, Q, kind, policy, O, W, C)
        BY <4>2
      <4> HIDE DEF W, stream
      <4>5. CASE unit \in whole
        <5>1. PICK p \in 1..Len(section) + 1 : unit = Paragraph(p)
          BY <4>5
        <5> QED BY <4>3, <4>4, <5>1, ParagraphPlaced
      <4>6. CASE unit \in parts
        <5>1. PICK p \in 1..Len(section) : \E s \in 1..section[p] + 1 : unit = Sentence(p, s)
          BY <4>6
        <5>2. PICK s \in 1..section[p] + 1 : unit = Sentence(p, s)
          BY <5>1
        <5> QED BY <4>3, <4>4, <5>2, SentencePlaced
      <4> QED BY <2>4, <4>5, <4>6
    <3> QED BY <3>1, <3>2
  <2> QED BY <2>4 DEF PlacesOf
<1> QED BY <1>1, CutInvariant, StoredChunks, PTL
==============================================================================

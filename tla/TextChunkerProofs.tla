------------------------- MODULE TextChunkerProofs -------------------------
(***************************************************************************)
(* Proofs about TextChunker: for any well-formed text and any limit, the   *)
(* chunks keep to the limit and are in order; if no character and no       *)
(* entity is longer than the limit, nothing is lost and nothing divided.   *)
(***************************************************************************)
EXTENDS TextChunker, TLAPS

-----------------------------------------------------------------------------
(* Units of a well-formed text.                                            *)

\* Places are numbers, and so is where a unit begins.
LEMMA UnitPlaces ==
  ASSUME WellFormed(text), NEW p \in Places(text)
  PROVE  /\ text.unit[p] \in Places(text) /\ text.unit[p] <= p
         /\ p \in Nat /\ text.unit[p] \in Nat /\ text.size \in Nat
         /\ text.unit[p]..p \subseteq Places(text)
<1>1. text.size \in Nat /\ text.unit \in [Places(text) -> Places(text)] /\ text.unit[p] <= p
  BY DEF WellFormed
<1>2. text.unit[p] \in Places(text)
  BY <1>1
<1> QED
  BY <1>1, <1>2 DEF Places

\* A unit is consecutive.
LEMMA UnitWhole ==
  ASSUME WellFormed(text), NEW p \in Places(text), NEW q \in text.unit[p]..p
  PROVE  text.unit[q] = text.unit[p]
BY DEF WellFormed

\* Where the unit of a place begins, a unit begins; it does not begin with a continuation byte.
LEMMA UnitBegins ==
  ASSUME WellFormed(text), NEW p \in Places(text)
  PROVE  /\ text.unit[text.unit[p]] = text.unit[p]
         /\ text.byte[text.unit[p]] # "continuation"
<1>1. text.unit[p] \in Places(text) /\ text.unit[p] \in text.unit[p]..p /\ text.unit[p] \in Nat
  BY UnitPlaces
<1>2. text.unit[text.unit[p]] = text.unit[p]
  BY <1>1, UnitWhole
<1>3. text.byte[text.unit[p]] = "continuation" => text.unit[text.unit[p]] < text.unit[p]
  BY <1>1 DEF WellFormed
<1> QED
  BY <1>1, <1>2, <1>3

\* A unit does not reach over the beginning of another.
LEMMA UnitsApart ==
  ASSUME WellFormed(text), NEW p \in Places(text), NEW b \in Places(text),
         text.unit[b] = b, b <= p
  PROVE  b <= text.unit[p]
<1>1. /\ p \in Nat /\ text.unit[p] \in Nat /\ b \in Nat
  BY UnitPlaces
<1>2. b \in text.unit[p]..p => text.unit[b] = text.unit[p]
  BY UnitWhole
<1> QED
  BY <1>1, <1>2

\* What lies inside of a unit without being a continuation byte is in an entity.
LEMMA InsideEntity ==
  ASSUME WellFormed(text), NEW p \in Places(text), text.unit[p] < p,
         text.byte[p] # "continuation"
  PROVE  /\ text.escaped /\ text.byte[text.unit[p]] = "&"
         /\ \A q \in text.unit[p]..(p - 1) : text.byte[q] # ";"
         /\ \A q \in (text.unit[p] + 1)..p : text.byte[q] # "&"
<1>1. /\ text.escaped /\ text.byte[text.unit[p]] = "&"
      /\ \A q \in text.unit[p]..(p - 1) : text.byte[q] # ";"
  BY DEF WellFormed
<1>2. ASSUME NEW q \in (text.unit[p] + 1)..p PROVE text.byte[q] # "&"
  <2>1. q \in Places(text) /\ q \in text.unit[p]..p /\ text.unit[p] < q
    BY UnitPlaces
  <2>2. text.unit[q] = text.unit[p] /\ q \in Nat /\ text.unit[p] \in Nat
    BY <2>1, UnitWhole, UnitPlaces
  <2>3. text.byte[q] = "&" => text.unit[q] = q
    BY <1>1, <2>1 DEF WellFormed
  <2> QED
    BY <2>1, <2>2, <2>3
<1> QED
  BY <1>1, <1>2

\* What comes after a and not before p is at p or after it.
LEMMA Beyond ==
  ASSUME NEW a \in Nat, NEW p \in Nat, NEW e \in Nat, a < p, a < e, e \notin (a + 1)..(p - 1)
  PROVE  p \in a..e
OBVIOUS

\* What comes after the next place comes after this one.
LEMMA Further ==
  ASSUME NEW u \in Nat, NEW n \in Nat, NEW q \in (u + 1)..(n - 1)
  PROVE  q \in u..(n - 1)
OBVIOUS

\* An entity without a ";" up to a place reaches to it.
LEMMA EntityReaches ==
  ASSUME WellFormed(text), text.escaped, NEW a \in Places(text), text.byte[a] = "&",
         NEW p \in Places(text), a < p, \A q \in (a + 1)..(p - 1) : text.byte[q] # ";"
  PROVE  text.unit[p] = a
<1>1. PICK e \in Places(text) : a < e /\ text.unit[e] = a /\ text.byte[e] = ";"
  BY DEF WellFormed
<1>2. a \in Nat /\ p \in Nat /\ e \in Nat
  BY UnitPlaces
<1>3. e \notin (a + 1)..(p - 1)
  BY <1>1
<1>4. p \in a..e
  BY <1>1, <1>2, <1>3, Beyond
<1>5. \A q \in a..e : text.unit[q] = a
  BY <1>1, UnitWhole
<1> QED
  BY <1>4, <1>5

-----------------------------------------------------------------------------
(* The type invariant.                                                     *)

\* Appending keeps the type of a sequence.
LEMMA AppendType ==
  ASSUME NEW S, NEW s \in Seq(S), NEW e \in S
  PROVE  Append(s, e) \in Seq(S)
OBVIOUS

Chunk == [from : Nat, to : Nat]

\* What a chunk is cut from is inside of the text.
LEMMA EmitType ==
  ASSUME result \in Seq(Chunk), NEW from \in Nat, NEW to \in Nat, Emit(from, to)
  PROVE  result' \in Seq(Chunk)
<1>1. CASE Kept(from, to) = {}
  BY <1>1 DEF Emit
<1>2. CASE Kept(from, to) # {}
  <2>1. PICK first, last \in Kept(from, to) :
          result' = Append(result, [from |-> first, to |-> last + 1])
    BY <1>2 DEF Emit
  <2>2. first \in Nat /\ last + 1 \in Nat
    BY DEF Kept
  <2>3. [from |-> first, to |-> last + 1] \in Chunk
    BY <2>2 DEF Chunk
  <2> QED
    BY <2>1, <2>3, AppendType
<1> QED
  BY <1>1, <1>2

LEMMA TypeStep == ASSUME TypeOK, [Next]_vars PROVE TypeOK'
<1> USE DEF TypeOK, options
<1>0. /\ text.size \in Nat /\ limit \in Nat \ {0} /\ pos \in Nat /\ split \in Nat
  <2>1. text.size \in Nat
    BY DEF WellFormed
  <2> QED
    BY <2>1, LimitsAssumption
<1>1. CASE FindSplit
  <2>1. pos + limit < text.size /\ split' \in Candidates
    BY <1>0, <1>1 DEF FindSplit, TooLong
  <2>2. Candidates \subseteq pos..(pos + limit)
    BY <1>0 DEF Candidates, Natural, CodePoints, PlacesOf
  <2>3. split' \in pos..(pos + limit) /\ split' < text.size /\ pos < text.size /\ split' \in Nat
    BY <1>0, <2>1, <2>2
  <2> QED
    BY <1>1, <2>3 DEF FindSplit
<1>2. CASE AdjustEntity
  <2>1. PlacesOf("&", pos, split) \subseteq pos..(split - 1)
    BY <1>0 DEF PlacesOf
  <2>2. split' \in pos..(pos + limit) /\ split' < text.size /\ split' \in Nat
        /\ pc' \in {"entity", "yield"}
    BY <1>0, <1>2, <2>1 DEF AdjustEntity
  <2> QED
    BY <1>2, <2>2 DEF AdjustEntity
<1>3. CASE Yield
  <2>1. pos' \in 0..text.size
    BY <1>0, <1>3 DEF Yield, Advance
  <2>2. result' \in Seq([from : Nat, to : Nat])
    BY <1>0, <1>3, EmitType DEF Yield, Chunk
  <2> QED
    BY <1>3, <2>1, <2>2 DEF Yield
<1>4. CASE Remainder
  <2>1. result' \in Seq([from : Nat, to : Nat])
    BY <1>0, <1>4, EmitType DEF Remainder, Chunk
  <2> QED
    BY <1>0, <1>4, <2>1 DEF Remainder
<1>5. CASE UNCHANGED vars
  BY <1>5 DEF vars
<1> QED
  BY <1>1, <1>2, <1>3, <1>4, <1>5 DEF Next

\* Every variable keeps its type and no byte is read beyond the end of the text, for any text
\* and any limit (TextChunker.cpp:57-99).
THEOREM TypeCorrect == Spec => []TypeOK
<1>1. Init => TypeOK
  <2> SUFFICES ASSUME Init PROVE TypeOK
    OBVIOUS
  <2>1. WellFormed(text) /\ limit \in Limits
    BY TextsAssumption DEF Init
  <2>2. text.size \in Nat
    BY <2>1 DEF WellFormed
  <2>3. pos \in 0..text.size /\ split \in Nat /\ result \in Seq([from : Nat, to : Nat])
    BY <2>2 DEF Init
  <2> QED
    BY <2>1, <2>3 DEF Init, TypeOK
<1>2. TypeOK /\ [Next]_vars => TypeOK'
  BY TypeStep
<1> QED
  BY <1>1, <1>2, PTL DEF Spec

-----------------------------------------------------------------------------
(* What Emit adds.                                                         *)

\* A chunk cut from [from, to): it holds every byte that is kept, and both its ends are kept.
CutFrom(chunk, from, to) ==
  /\ chunk.from \in Kept(from, to) /\ chunk.to - 1 \in Kept(from, to) /\ chunk.to \in Nat
  /\ \A p \in Kept(from, to) : chunk.from <= p /\ p < chunk.to

LEMMA EmitAdds ==
  ASSUME TypeOK, NEW from \in Nat, NEW to \in Nat, Emit(from, to)
  PROVE  /\ DOMAIN result = 1..Len(result) /\ Len(result) \in Nat
         /\ DOMAIN result \subseteq DOMAIN result'
         /\ \A i \in DOMAIN result : result'[i] = result[i]
         /\ \A i \in DOMAIN result' \ DOMAIN result :
              i = Len(result) + 1 /\ CutFrom(result'[i], from, to)
         /\ \A p \in Kept(from, to) :
              \E i \in DOMAIN result' : p \in result'[i].from..(result'[i].to - 1)
<1>1. result \in Seq(Chunk) /\ DOMAIN result = 1..Len(result) /\ Len(result) \in Nat
  BY DEF TypeOK, Chunk
<1>2. CASE Kept(from, to) = {}
  BY <1>1, <1>2 DEF Emit
<1>3. CASE Kept(from, to) # {}
  <2>1. PICK first, last \in Kept(from, to) :
          /\ \A p \in Kept(from, to) : first <= p /\ p <= last
          /\ result' = Append(result, [from |-> first, to |-> last + 1])
    BY <1>3 DEF Emit
  <2>2. first \in Nat /\ last \in Nat /\ Kept(from, to) \subseteq Nat
    BY DEF Kept
  <2> DEFINE new == [from |-> first, to |-> last + 1]
  <2>3. new \in Chunk /\ new.from = first /\ new.to = last + 1
    BY <2>2 DEF Chunk
  <2> HIDE DEF new
  <2>4. /\ DOMAIN result' = 1..(Len(result) + 1)
        /\ \A i \in DOMAIN result : result'[i] = result[i]
        /\ result'[Len(result) + 1] = new
    BY <1>1, <2>1, <2>3 DEF new
  <2>5. CutFrom(new, from, to)
    BY <2>1, <2>2, <2>3 DEF CutFrom
  <2>6. \A p \in Kept(from, to) : p \in new.from..(new.to - 1)
    BY <2>1, <2>2, <2>3
  <2> QED
    BY <1>1, <2>4, <2>5, <2>6
<1> QED
  BY <1>2, <1>3

-----------------------------------------------------------------------------
(* The limit.                                                              *)

\* WithinLimit, and that no chunk reaches beyond the rest of the text, which the next one is
\* cut from.
LimitInv == WithinLimit /\ \A i \in DOMAIN result : result[i].to <= pos

LEMMA EmitLimit ==
  ASSUME TypeOK, LimitInv, NEW to \in pos..(pos + limit), Emit(pos, to), limit' = limit,
         pos' \in Nat, to <= pos'
  PROVE  LimitInv'
<1>1. pos \in Nat /\ limit \in Nat /\ to \in Nat /\ pos <= to /\ to <= pos + limit
  <2>1. text.size \in Nat
    BY DEF TypeOK, WellFormed
  <2> QED
    BY <2>1, LimitsAssumption DEF TypeOK
<1> DEFINE old == DOMAIN result
           new == DOMAIN result' \ DOMAIN result
<1>2. /\ old = 1..Len(result) /\ Len(result) \in Nat /\ old \subseteq DOMAIN result'
      /\ \A i \in old : result'[i] = result[i]
      /\ \A i \in new : i = Len(result) + 1 /\ CutFrom(result'[i], pos, to)
  BY <1>1, EmitAdds
<1>3. \A i \in old : /\ result[i].from \in Nat /\ result[i].to \in Nat /\ result[i].to <= pos
                     /\ 0 < result[i].to - result[i].from /\ result[i].to - result[i].from <= limit
  <2>0. result \in Seq(Chunk)
    BY DEF TypeOK, Chunk
  <2>1. \A i \in old : result[i] \in Chunk
    BY <2>0
  <2> QED
    BY <2>1 DEF LimitInv, WithinLimit, Chunk
<1>4. \A i, j \in old : i < j => result[i].to <= result[j].from
  BY DEF LimitInv, WithinLimit
<1>5. \A i \in new : /\ result'[i].from \in Nat /\ result'[i].to \in Nat
                     /\ pos <= result'[i].from /\ result'[i].from < result'[i].to
                     /\ result'[i].to <= to
  BY <1>1, <1>2 DEF CutFrom, Kept
<1>6. \A i \in DOMAIN result' :
        /\ 0 < result'[i].to - result'[i].from /\ result'[i].to - result'[i].from <= limit
        /\ result'[i].to <= pos'
  <2> TAKE i \in DOMAIN result'
  <2>1. CASE i \in old
    BY <1>1, <1>2, <1>3, <2>1
  <2>2. CASE i \in new
    BY <1>1, <1>5, <2>2
  <2> QED
    BY <2>1, <2>2
<1>7. \A i, j \in DOMAIN result' : i < j => result'[i].to <= result'[j].from
  <2> SUFFICES ASSUME NEW i \in DOMAIN result', NEW j \in DOMAIN result', i < j
               PROVE  result'[i].to <= result'[j].from
    OBVIOUS
  <2>1. i \in old
    BY <1>2
  <2>2. CASE j \in old
    BY <1>2, <1>4, <2>1, <2>2
  <2>3. CASE j \in new
    BY <1>1, <1>2, <1>3, <1>5, <2>1, <2>3
  <2> QED
    BY <2>2, <2>3
<1> QED
  BY <1>6, <1>7 DEF LimitInv, WithinLimit

LEMMA LimitStep == ASSUME TypeOK, LimitInv, [Next]_vars PROVE LimitInv'
<1>0. text.size \in Nat /\ limit \in Nat \ {0} /\ pos \in Nat /\ split \in Nat
  <2>1. text.size \in Nat
    BY DEF TypeOK, WellFormed
  <2> QED
    BY <2>1, LimitsAssumption DEF TypeOK
<1>1. CASE FindSplit
  BY <1>1 DEF FindSplit, options, LimitInv, WithinLimit
<1>2. CASE AdjustEntity
  BY <1>2 DEF AdjustEntity, options, LimitInv, WithinLimit
<1>3. CASE Yield
  <2>1. split \in pos..(pos + limit) /\ Emit(pos, split) /\ limit' = limit
    BY <1>3 DEF Yield, TypeOK, options
  <2>2. pos' \in Nat /\ split <= pos'
    BY <1>0, <1>3, <2>1 DEF Yield, Advance
  <2> QED
    BY <2>1, <2>2, EmitLimit
<1>4. CASE Remainder
  <2>1. Emit(pos, text.size) /\ limit' = limit /\ pos' = text.size
    BY <1>4 DEF Remainder, options
  <2>2. text.size \in pos..(pos + limit)
    BY <1>0, <1>4 DEF Remainder, TooLong, TypeOK
  <2> QED
    BY <1>0, <2>1, <2>2, EmitLimit
<1>5. CASE UNCHANGED vars
  BY <1>5 DEF vars, LimitInv, WithinLimit
<1> QED
  BY <1>1, <1>2, <1>3, <1>4, <1>5 DEF Next

\* Chunks are not empty, do not overlap, come in order and are not longer than
\* max_chunk_size, for any text and any limit (TextChunker.cpp:55-98).
THEOREM LimitKept == Spec => []WithinLimit
<1>1. Init => LimitInv
  BY DEF Init, LimitInv, WithinLimit
<1>2. TypeOK /\ LimitInv /\ [Next]_vars => LimitInv'
  BY LimitStep
<1>3. LimitInv => WithinLimit
  BY DEF LimitInv
<1> QED
  BY <1>1, <1>2, <1>3, TypeCorrect, PTL DEF Spec

-----------------------------------------------------------------------------
(* Words.                                                                  *)

\* A split that no separator is at has none before it.
NoneBefore(p) ==
  text.byte[p] \notin Strip =>
    PlacesOf("newline", pos, p) = {} /\ PlacesOf("space", pos, p) = {}

WordsInv ==
  /\ WordsCutLast
  /\ prefer_newline /\ prefer_space /\ pc \in {"entity", "yield"} => NoneBefore(split)

\* Where a place is white space, a unit of its own begins there.
LEMMA StripBegins ==
  ASSUME WellFormed(text), NEW p \in Places(text), text.byte[p] \in Strip
  PROVE  text.unit[p] = p
BY DEF WellFormed

LEMMA FindNoneBefore ==
  ASSUME TypeOK, FindSplit, prefer_newline, prefer_space
  PROVE  NoneBefore(split')
<1>0. /\ text.size \in Nat /\ limit \in Nat /\ pos \in Nat /\ pos + limit < text.size
      /\ split' \in Candidates
  <2>1. text.size \in Nat
    BY DEF TypeOK, WellFormed
  <2>2. pos \in Nat /\ limit \in Nat
    BY <2>1, LimitsAssumption DEF TypeOK
  <2> QED
    BY <2>1, <2>2 DEF FindSplit, TooLong
<1>1. CASE Natural # {}
  <2>1. text.byte[split'] \in {"newline", "space"}
    BY <1>0, <1>1 DEF Candidates, Natural, PlacesOf
  <2> QED
    BY <2>1 DEF NoneBefore, Strip
<1>2. CASE Natural = {}
  <2>1. PlacesOf("newline", pos, pos + limit) = {} /\ PlacesOf("space", pos, pos + limit) = {}
    BY <1>2 DEF Natural
  <2>2. split' \in Nat /\ split' <= pos + limit
    BY <1>0, <1>2 DEF Candidates, CodePoints
  <2>3. \A b : PlacesOf(b, pos, split') \subseteq PlacesOf(b, pos, pos + limit)
    BY <1>0, <2>2 DEF PlacesOf
  <2> QED
    BY <2>1, <2>3 DEF NoneBefore
<1> QED
  BY <1>1, <1>2

\* When the split moves, it moves from the inside of an entity, to where it begins.
LEMMA Moving ==
  ASSUME TypeOK, AdjustEntity, pc' = "entity"
  PROVE  /\ text.unit[split] = split' /\ split' \in pos..(split - 1) /\ text.escaped
         /\ text.byte[split'] = "&" /\ split' \in Places(text) /\ split \in Places(text)
<1>0. /\ text.size \in Nat /\ pos \in Nat /\ split \in Nat /\ split < text.size
      /\ WellFormed(text) /\ pc = "entity"
  <2>1. text.size \in Nat /\ WellFormed(text) /\ pc = "entity"
    BY DEF TypeOK, WellFormed, AdjustEntity
  <2> QED
    BY <2>1 DEF TypeOK
<1>1. /\ split' \in PlacesOf("&", pos, split) /\ text.escaped
      /\ Unterminated(split')
  BY <1>0 DEF AdjustEntity
<1>2. split' \in pos..(split - 1) /\ split' < text.size /\ text.byte[split'] = "&"
  BY <1>1 DEF PlacesOf
<1>3. split' \in Places(text) /\ split \in Places(text) /\ split' < split
  BY <1>0, <1>2 DEF Places
<1>4. \A q \in (split' + 1)..(split - 1) : text.byte[q] # ";"
  <2>1. PlacesOf(";", split' + 1, split) = {}
    BY <1>1 DEF Unterminated
  <2>2. \A q \in (split' + 1)..(split - 1) : q < text.size
    BY <1>0, <1>2
  <2> QED
    BY <2>1, <2>2 DEF PlacesOf
<1> DEFINE a == split'
<1>5. text.unit[split] = a
  <2> HIDE DEF a
  <2>1. /\ a \in Places(text) /\ a < split /\ text.byte[a] = "&"
        /\ \A q \in (a + 1)..(split - 1) : text.byte[q] # ";"
    BY <1>2, <1>3, <1>4 DEF a
  <2> QED
    BY <1>0, <1>1, <1>3, <2>1, EntityReaches
<1> QED
  BY <1>1, <1>2, <1>3, <1>5

LEMMA MoveNoneBefore ==
  ASSUME TypeOK, AdjustEntity, NoneBefore(split)
  PROVE  NoneBefore(split')
<1>1. pc' \in {"entity", "yield"} /\ (pc' = "yield" => split' = split)
  BY DEF AdjustEntity
<1>2. CASE pc' = "yield"
  BY <1>1, <1>2 DEF NoneBefore
<1>3. CASE pc' = "entity"
  <2>1. /\ split \in Nat /\ split' \in Nat /\ split' < split
        /\ text.unit[split] = split' /\ split \in Places(text)
    <3>1. pos \in Nat /\ split \in Nat
      <4>1. text.size \in Nat
        BY DEF TypeOK, WellFormed
      <4> QED
        BY <4>1 DEF TypeOK
    <3> QED
      BY <1>3, <3>1, Moving
  <2>2. text.byte[split] \notin Strip
    BY <2>1, StripBegins DEF TypeOK
  <2>3. \A b : PlacesOf(b, pos, split') \subseteq PlacesOf(b, pos, split)
    BY <2>1 DEF PlacesOf, TypeOK
  <2> QED
    BY <2>2, <2>3 DEF NoneBefore
<1> QED
  BY <1>1, <1>2, <1>3

\* The chunk from [pos, to) ends where the split is, or before white space.
LEMMA EmitWords ==
  ASSUME TypeOK, WordsInv, NEW to \in Nat, to <= text.size, Emit(pos, to),
         to = text.size \/ (prefer_newline /\ prefer_space => NoneBefore(to)),
         UNCHANGED options
  PROVE  WordsCutLast'
<1>0. UNCHANGED <<text, prefer_newline, prefer_space>>
  BY DEF options
<1> SUFFICES ASSUME prefer_newline, prefer_space, NEW i \in DOMAIN result',
                    result'[i].to < text.size, text.byte[result'[i].to] \notin Strip
             PROVE  /\ PlacesOf("newline", result'[i].from, result'[i].to) = {}
                    /\ PlacesOf("space", result'[i].from, result'[i].to) = {}
  BY <1>0 DEF WordsCutLast, PlacesOf
<1>1. text.size \in Nat /\ pos \in Nat
  <2>1. text.size \in Nat
    BY DEF TypeOK, WellFormed
  <2> QED
    BY <2>1 DEF TypeOK
<1>2. /\ \A j \in DOMAIN result : result'[j] = result[j]
      /\ i \notin DOMAIN result => CutFrom(result'[i], pos, to)
  BY <1>1, EmitAdds
<1>3. CASE i \in DOMAIN result
  BY <1>2, <1>3 DEF WordsInv, WordsCutLast
<1>4. CASE i \notin DOMAIN result
  <2> DEFINE c == result'[i]
  <2>1. /\ c.from \in pos..(to - 1) /\ c.to - 1 \in pos..(to - 1) /\ c.to \in Nat
        /\ c.to \notin Kept(pos, to)
    BY <1>1, <1>2, <1>4 DEF CutFrom, Kept
  <2>2. c.to \notin pos..(to - 1)
    BY <2>1 DEF Kept
  <2>3. c.to = to /\ pos <= c.from /\ c.from \in Nat
    BY <1>1, <2>1, <2>2
  <2>4. PlacesOf("newline", pos, to) = {} /\ PlacesOf("space", pos, to) = {}
    BY <1>1, <2>3 DEF NoneBefore
  <2>5. \A b : PlacesOf(b, c.from, to) \subseteq PlacesOf(b, pos, to)
    BY <1>1, <2>3 DEF PlacesOf
  <2> QED
    BY <2>3, <2>4, <2>5
<1> QED
  BY <1>3, <1>4

LEMMA WordsStep == ASSUME TypeOK, WordsInv, [Next]_vars PROVE WordsInv'
<1>0. text.size \in Nat /\ pos \in Nat /\ split \in Nat
  <2>1. text.size \in Nat
    BY DEF TypeOK, WellFormed
  <2> QED
    BY <2>1 DEF TypeOK
<1>1. CASE FindSplit
  <2>1. UNCHANGED <<text, prefer_newline, prefer_space, pos, result>>
    BY <1>1 DEF FindSplit, options
  <2>2. prefer_newline /\ prefer_space => NoneBefore(split)'
    BY <1>1, <2>1, FindNoneBefore DEF NoneBefore, PlacesOf
  <2> QED
    BY <2>1, <2>2 DEF WordsInv, WordsCutLast, PlacesOf
<1>2. CASE AdjustEntity
  <2>1. UNCHANGED <<text, prefer_newline, prefer_space, pos, result>> /\ pc = "entity"
    BY <1>2 DEF AdjustEntity, options
  <2>2. prefer_newline /\ prefer_space => NoneBefore(split)'
    BY <1>2, <2>1, MoveNoneBefore DEF NoneBefore, PlacesOf, WordsInv
  <2> QED
    BY <2>1, <2>2 DEF WordsInv, WordsCutLast, PlacesOf
<1>3. CASE Yield
  <2>1. /\ Emit(pos, split) /\ UNCHANGED options /\ pc = "yield" /\ pc' = "loop"
        /\ split <= text.size
    BY <1>0, <1>3 DEF Yield, TypeOK
  <2>2. WordsCutLast'
    BY <1>0, <2>1, EmitWords DEF WordsInv
  <2> QED
    BY <2>1, <2>2 DEF WordsInv
<1>4. CASE Remainder
  <2>1. Emit(pos, text.size) /\ UNCHANGED options /\ pc' = "done"
    BY <1>4 DEF Remainder
  <2>2. WordsCutLast'
    BY <1>0, <2>1, EmitWords
  <2> QED
    BY <2>1, <2>2 DEF WordsInv
<1>5. CASE UNCHANGED vars
  BY <1>5 DEF vars, WordsInv, WordsCutLast, NoneBefore, PlacesOf
<1> QED
  BY <1>1, <1>2, <1>3, <1>4, <1>5 DEF Next

\* With both preferences a word is divided only if no separator lies before the cut, for any
\* text and any limit (TextChunker.hpp:37-38; TextChunker.cpp:58-66).
THEOREM WordsKept == Spec => []WordsCutLast
<1>1. Init => WordsInv
  BY DEF Init, WordsInv, WordsCutLast
<1>2. TypeOK /\ WordsInv /\ [Next]_vars => WordsInv'
  BY WordsStep
<1>3. WordsInv => WordsCutLast
  BY DEF WordsInv
<1> QED
  BY <1>1, <1>2, <1>3, TypeCorrect, PTL DEF Spec

-----------------------------------------------------------------------------
(* Characters and entities.                                                *)

\* A split is between two units, or inside an entity that begins after the rest does; a split
\* that makes no progress is at white space, which may be skipped.
SplitWhole ==
  /\ text.byte[split] # "continuation"
  /\ text.unit[split] < split => pos < text.unit[split]
  /\ split = pos => text.byte[pos] \in Strip

WholeInv ==
  Fits =>
    /\ Between(pos)
    /\ \A i \in DOMAIN result : Between(result[i].from) /\ Between(result[i].to)
    /\ pc \in {"entity", "yield"} => SplitWhole
    /\ pc = "yield" => Between(split)

\* The places of a state with a split.
LEMMA SplitPlaces ==
  ASSUME TypeOK, pc \in {"entity", "yield"}
  PROVE  /\ WellFormed(text) /\ text.size \in Nat /\ pos \in Nat /\ split \in Nat
         /\ pos <= split /\ split < text.size
         /\ pos \in Places(text) /\ split \in Places(text)
<1>1. text.size \in Nat /\ WellFormed(text)
  BY DEF TypeOK, WellFormed
<1>2. pos \in Nat /\ split \in Nat /\ split < text.size /\ pos <= split
  BY <1>1 DEF TypeOK
<1> QED
  BY <1>1, <1>2 DEF Places

\* The split that is found: the walk back from the limit does not leave the unit it is in.
LEMMA FindWhole == ASSUME TypeOK, Fits, FindSplit PROVE SplitWhole'
<1>0. /\ WellFormed(text) /\ text.size \in Nat /\ limit \in Nat \ {0} /\ pos \in Nat
      /\ pos + limit < text.size
  <2>1. text.size \in Nat /\ WellFormed(text)
    BY DEF TypeOK, WellFormed
  <2>2. pos \in Nat /\ limit \in Nat \ {0}
    BY <2>1, LimitsAssumption DEF TypeOK
  <2> QED
    BY <2>1, <2>2 DEF FindSplit, TooLong
<1>1. PICK s \in Candidates : split' = s /\ IsLast(s, Candidates)
  BY DEF FindSplit
<1>2. UNCHANGED <<text, pos>>
  BY DEF FindSplit, options
<1> SUFFICES /\ text.byte[s] # "continuation"
             /\ text.unit[s] < s => pos < text.unit[s]
             /\ s = pos => text.byte[pos] \in Strip
  BY <1>1, <1>2 DEF SplitWhole
<1>3. CASE Natural # {}
  <2>1. /\ s \in Nat /\ s < text.size /\ text.byte[s] \in Strip
        /\ text.byte[s] \in {"newline", "space"}
    BY <1>0, <1>1, <1>3 DEF Candidates, Natural, PlacesOf, Strip
  <2>2. text.unit[s] = s
    BY <1>0, <2>1, StripBegins DEF Places
  <2> QED
    BY <2>1, <2>2
<1>4. CASE Natural = {}
  <2> DEFINE q == pos + limit
             v == text.unit[q]
  <2>1. q \in Places(text) /\ q \in Nat
    BY <1>0 DEF Places
  <2>2. /\ v \in Nat /\ v <= q /\ v \in Places(text) /\ text.byte[v] # "continuation"
        /\ \A p \in v..q : text.unit[p] = v
    BY <1>0, <2>1, UnitPlaces, UnitBegins, UnitWhole
  <2>3. q - v < limit
    BY <2>1 DEF Fits
  <2>4. pos < v
    BY <1>0, <2>2, <2>3
  <2>5. Candidates = {pos} \cup {p \in pos..q : p = text.size \/ text.byte[p] # "continuation"}
    BY <1>4 DEF Candidates, CodePoints
  <2>6. v \in Candidates
    BY <1>0, <2>2, <2>4, <2>5
  <2>7. v <= s /\ s <= q /\ s \in Nat
    BY <1>0, <1>1, <2>5, <2>6 DEF IsLast
  <2>8. text.unit[s] = v
    BY <2>2, <2>7
  <2>9. s # pos /\ s # text.size
    BY <1>0, <2>2, <2>4, <2>7
  <2>10. text.byte[s] # "continuation"
    BY <1>1, <2>5, <2>9
  <2> QED
    BY <2>4, <2>8, <2>9, <2>10
<1> QED
  BY <1>3, <1>4

\* Where no entity is open before the split, the split is between two units.
LEMMA NotMoving ==
  ASSUME TypeOK, SplitWhole, AdjustEntity, pc' = "yield"
  PROVE  text.unit[split] = split
<1>0. /\ WellFormed(text) /\ text.size \in Nat /\ pos \in Nat /\ split \in Nat
      /\ split < text.size /\ split \in Places(text)
  BY SplitPlaces DEF AdjustEntity
<1> DEFINE u == text.unit[split]
<1>1. u \in Nat /\ u <= split
  BY <1>0, UnitPlaces
<1> SUFFICES ASSUME u < split PROVE FALSE
  BY <1>0, <1>1
<1>1a. pos < u /\ u < split
  BY DEF SplitWhole
<1>2. /\ text.escaped /\ text.byte[u] = "&"
      /\ \A q \in u..(split - 1) : text.byte[q] # ";"
      /\ \A q \in (u + 1)..split : text.byte[q] # "&"
  BY <1>0, <1>1a, InsideEntity DEF SplitWhole
<1> HIDE DEF u
<1>3. u \in PlacesOf("&", pos, split)
  <2>1. u \in pos..(split - 1) /\ u < text.size
    BY <1>0, <1>1, <1>1a
  <2> QED
    BY <1>2, <2>1 DEF PlacesOf
<1>4. ASSUME NEW q \in PlacesOf("&", pos, split) PROVE q <= u
  <2>1. q \in pos..(split - 1) /\ text.byte[q] = "&"
    BY DEF PlacesOf
  <2>2. q \notin (u + 1)..split
    BY <1>2, <2>1
  <2> QED
    BY <1>0, <1>1, <2>1, <2>2
<1>5. Unterminated(u)
  <2>1. ASSUME NEW q \in PlacesOf(";", u + 1, split) PROVE FALSE
    <3>1. text.byte[q] = ";"
      BY DEF PlacesOf
    <3>2. q \in (u + 1)..(split - 1)
      BY DEF PlacesOf
    <3>3. q \in u..(split - 1)
      BY <1>0, <1>1, <3>2, Further
    <3> QED
      BY <1>2, <3>1, <3>3
  <2> QED
    BY <2>1 DEF Unterminated
<1>6. u \in {p \in PlacesOf("&", pos, split) :
              text.escaped /\ IsLast(p, PlacesOf("&", pos, split)) /\ Unterminated(p)}
  BY <1>2, <1>3, <1>4, <1>5 DEF IsLast
<1>7. pc' # "yield"
  BY <1>6 DEF AdjustEntity
<1> QED
  BY <1>7

LEMMA AdjustWhole ==
  ASSUME TypeOK, SplitWhole, AdjustEntity
  PROVE  SplitWhole' /\ (pc' = "yield" => Between(split)')
<1>0. UNCHANGED <<text, pos>> /\ pc = "entity"
  BY DEF AdjustEntity, options
<1>1. /\ WellFormed(text) /\ pos \in Nat /\ split \in Nat /\ split \in Places(text)
  BY <1>0, SplitPlaces
<1>2. CASE pc' = "entity"
  <2>1. /\ text.unit[split] = split' /\ split' \in pos..(split - 1)
        /\ text.byte[split'] = "&"
    BY <1>2, Moving
  <2>2. text.unit[split'] = split'
    BY <1>1, <2>1, UnitBegins
  <2>3. pos < split'
    BY <1>1, <2>1 DEF SplitWhole
  <2>4. split' \in Nat /\ split' # pos /\ ~(split' < split')
    BY <1>1, <2>1, <2>3
  <2> QED
    BY <1>0, <1>2, <2>1, <2>2, <2>4 DEF SplitWhole
<1>3. CASE pc' = "yield"
  <2>1. split' = split
    BY <1>3, <1>0 DEF AdjustEntity
  <2>2. text.unit[split] = split
    BY <1>3, NotMoving
  <2> QED
    BY <1>0, <2>1, <2>2 DEF SplitWhole, Between
<1>4. pc' \in {"entity", "yield"}
  BY <1>0 DEF AdjustEntity
<1> QED
  BY <1>2, <1>3, <1>4

\* After white space a unit begins, and so it does after the text.
LEMMA AfterStrip ==
  ASSUME WellFormed(text), NEW p \in Places(text), text.byte[p] \in Strip
  PROVE  Between(p + 1)
<1>1. p \in Nat /\ text.size \in Nat /\ p < text.size /\ text.unit[p] = p
  BY UnitPlaces, StripBegins DEF Places
<1>2. CASE p + 1 = text.size
  BY <1>2 DEF Between
<1>3. CASE p + 1 # text.size
  <2> DEFINE u == text.unit[p + 1]
  <2>1. p + 1 \in Places(text)
    BY <1>1, <1>3 DEF Places
  <2>2. u \in Nat /\ u <= p + 1
    BY <2>1, UnitPlaces
  <2>3. \A q \in u..(p + 1) : text.unit[q] = u
    BY <2>1, UnitWhole
  <2>4. u < p + 1 => text.byte[u] \notin Strip
    BY <2>1 DEF WellFormed
  <2>5. u < p + 1 => u = p
    BY <1>1, <2>2, <2>3
  <2> QED
    BY <1>1, <2>2, <2>4, <2>5 DEF Between
<1> QED
  BY <1>2, <1>3

\* What is cut from [pos, to), between two units, begins and ends between two units.
LEMMA CutWhole ==
  ASSUME WellFormed(text), NEW to \in Nat, to <= text.size, pos \in Nat,
         Between(pos), Between(to), NEW c, CutFrom(c, pos, to)
  PROVE  Between(c.from) /\ Between(c.to)
<1> DEFINE f == c.from
           l == c.to
<1>1. /\ f \in pos..(to - 1) /\ l - 1 \in pos..(to - 1) /\ l \in Nat
      /\ text.byte[f] \notin Strip
      /\ \A p \in Kept(pos, to) : f <= p /\ p < l
  BY DEF CutFrom, Kept
<1> HIDE DEF f, l
<1>0. text.size \in Nat
  BY DEF WellFormed
<1>2. f \in Nat /\ f < text.size /\ pos <= f /\ f < to /\ l <= to /\ pos < l /\ pos < text.size
  BY <1>0, <1>1
<1>3. f \in Places(text) /\ pos \in Places(text)
  BY <1>0, <1>2 DEF Places
<1>4. Between(f)
  <2> DEFINE u == text.unit[f]
  <2>1. u \in Nat /\ u <= f
    BY <1>3, UnitPlaces
  <2>2. pos <= u
    BY <1>2, <1>3, UnitsApart DEF Between
  <2>3. u < f => text.byte[u] \notin Strip
    BY <1>3 DEF WellFormed
  <2>4. u < f => u \in pos..(to - 1)
    BY <1>2, <2>1, <2>2
  <2>5. u < f => f <= u
    BY <1>1, <2>3, <2>4 DEF Kept
  <2> QED
    BY <1>2, <2>1, <2>5 DEF Between
<1>5. Between(l)
  <2>1. CASE l = to
    BY <2>1
  <2>2. CASE l < to
    <3>1. l \in pos..(to - 1) /\ l < text.size
      BY <1>0, <1>1, <1>2, <2>2
    <3>2. l \notin Kept(pos, to)
      BY <1>1
    <3>3. text.byte[l] \in Strip /\ l \in Places(text)
      BY <1>0, <1>1, <3>1, <3>2 DEF Kept, Places
    <3> QED
      BY <3>3, StripBegins DEF Between
  <2> QED
    BY <1>1, <1>2, <2>1, <2>2
<1> QED
  BY <1>4, <1>5 DEF f, l

LEMMA EmitWhole ==
  ASSUME TypeOK, WholeInv, Fits, NEW to \in Nat, to <= text.size, Between(to), Emit(pos, to)
  PROVE  \A i \in DOMAIN result' : Between(result'[i].from) /\ Between(result'[i].to)
<1>1. WellFormed(text) /\ pos \in Nat /\ Between(pos)
  <2>1. text.size \in Nat /\ WellFormed(text)
    BY DEF TypeOK, WellFormed
  <2> QED
    BY <2>1 DEF TypeOK, WholeInv
<1>2. /\ \A i \in DOMAIN result : result'[i] = result[i]
      /\ \A i \in DOMAIN result' \ DOMAIN result : CutFrom(result'[i], pos, to)
  BY <1>1, EmitAdds
<1> SUFFICES ASSUME NEW i \in DOMAIN result'
             PROVE  Between(result'[i].from) /\ Between(result'[i].to)
  OBVIOUS
<1>3. CASE i \in DOMAIN result
  BY <1>2, <1>3 DEF WholeInv
<1>4. CASE i \notin DOMAIN result
  BY <1>1, <1>2, <1>4, CutWhole
<1> QED
  BY <1>3, <1>4

LEMMA WholeStep == ASSUME TypeOK, WholeInv, [Next]_vars PROVE WholeInv'
<1>1. text' = text /\ limit' = limit
  BY DEF Next, FindSplit, AdjustEntity, Yield, Remainder, options, vars
<1> SUFFICES ASSUME Fits PROVE WholeInv'
  BY <1>1 DEF WholeInv, Fits, Places
<1>2. CASE FindSplit
  <2>1. UNCHANGED <<pos, result>> /\ pc' = "entity" /\ SplitWhole'
    BY <1>2, FindWhole DEF FindSplit
  <2> QED
    BY <1>1, <2>1 DEF WholeInv, Between
<1>3. CASE AdjustEntity
  <2>1. UNCHANGED <<pos, result>> /\ pc = "entity"
    BY <1>3 DEF AdjustEntity
  <2>2. SplitWhole' /\ (pc' = "yield" => Between(split)')
    BY <1>3, <2>1, AdjustWhole DEF WholeInv
  <2> QED
    BY <1>1, <2>1, <2>2 DEF WholeInv, Between
<1>4. CASE Yield
  <2>1. /\ pc = "yield" /\ pc' = "loop" /\ Emit(pos, split) /\ Between(split) /\ SplitWhole
        /\ pos' = IF split > pos THEN split ELSE pos + 1
    BY <1>4 DEF Yield, Advance, WholeInv
  <2>2. /\ WellFormed(text) /\ pos \in Nat /\ split \in Nat /\ text.size \in Nat
        /\ pos <= split /\ split < text.size /\ pos \in Places(text)
    BY <2>1, SplitPlaces
  <2>3. \A i \in DOMAIN result' : Between(result'[i].from) /\ Between(result'[i].to)
    BY <2>1, <2>2, EmitWhole
  <2>4. split = pos => Between(pos + 1)
    BY <2>1, <2>2, AfterStrip DEF SplitWhole
  <2>5. Between(pos')
    BY <2>1, <2>2, <2>4
  <2> QED
    BY <1>1, <2>1, <2>3, <2>5 DEF WholeInv, Between
<1>5. CASE Remainder
  <2>1. pc' = "done" /\ Emit(pos, text.size) /\ pos' = text.size /\ text.size \in Nat
    BY <1>5 DEF Remainder, TypeOK, WellFormed
  <2>2. Between(text.size)
    BY DEF Between
  <2>3. \A i \in DOMAIN result' : Between(result'[i].from) /\ Between(result'[i].to)
    BY <2>1, <2>2, EmitWhole
  <2> QED
    BY <1>1, <2>1, <2>2, <2>3 DEF WholeInv, Between
<1>6. CASE UNCHANGED vars
  BY <1>6 DEF vars, WholeInv, Fits, Places, Between, SplitWhole
<1> QED
  BY <1>2, <1>3, <1>4, <1>5, <1>6 DEF Next

\* The strengthening of UnitsWhole that every step preserves.
LEMMA WholeAlways == Spec => []WholeInv
<1>1. Init => WholeInv
  <2> SUFFICES ASSUME Init PROVE WholeInv
    OBVIOUS
  <2>1. WellFormed(text) /\ pos = 0 /\ result = <<>> /\ pc = "loop"
    BY TextsAssumption DEF Init
  <2>2. Between(0)
    <3>1. text.size \in Nat
      BY <2>1 DEF WellFormed
    <3>2. CASE text.size = 0
      BY <3>2 DEF Between
    <3>3. CASE text.size # 0
      <4>1. 0 \in Places(text)
        BY <3>1, <3>3 DEF Places
      <4>2. text.unit[0] \in Nat /\ text.unit[0] <= 0
        BY <2>1, <4>1, UnitPlaces
      <4> QED
        BY <4>2 DEF Between
    <3> QED
      BY <3>2, <3>3
  <2> QED
    BY <2>1, <2>2 DEF WholeInv
<1>2. TypeOK /\ WholeInv /\ [Next]_vars => WholeInv'
  BY WholeStep
<1> QED
  BY <1>1, <1>2, TypeCorrect, PTL DEF Spec

\* A chunk is a whole number of characters and entities, for any text and any limit that no
\* character and no entity exceeds (TextChunker.hpp:39-43; TextChunker.cpp:31-44, 68-81).
THEOREM NothingDivided == Spec => []UnitsWhole
<1>1. WholeInv => UnitsWhole
  BY DEF WholeInv, UnitsWhole
<1> QED
  BY <1>1, WholeAlways, PTL

-----------------------------------------------------------------------------
(* Nothing is lost.                                                        *)

\* A place that some chunk of the result holds.
Held(p) == \E i \in DOMAIN result : p \in result[i].from..(result[i].to - 1)

LEMMA EmitHolds ==
  ASSUME TypeOK, NEW to \in Nat, Emit(pos, to), UNCHANGED text,
         \A p \in 0..(pos - 1) : text.byte[p] \notin Strip => Held(p)
  PROVE  \A p \in 0..(to - 1) : text'.byte[p] \notin Strip => Held(p)'
<1>1. pos \in Nat
  <2>1. text.size \in Nat
    BY DEF TypeOK, WellFormed
  <2> QED
    BY <2>1 DEF TypeOK
<1>2. /\ DOMAIN result \subseteq DOMAIN result'
      /\ \A i \in DOMAIN result : result'[i] = result[i]
      /\ \A p \in Kept(pos, to) :
           \E i \in DOMAIN result' : p \in result'[i].from..(result'[i].to - 1)
  BY <1>1, EmitAdds
<1> SUFFICES ASSUME NEW p \in 0..(to - 1), text.byte[p] \notin Strip PROVE Held(p)'
  OBVIOUS
<1>3. CASE p < pos
  <2>1. p \in 0..(pos - 1)
    BY <1>1, <1>3
  <2> QED
    BY <1>2, <2>1 DEF Held
<1>4. CASE ~(p < pos)
  <2>1. p \in Kept(pos, to)
    BY <1>1, <1>4 DEF Kept
  <2> QED
    BY <1>2, <2>1 DEF Held
<1> QED
  BY <1>3, <1>4

LEMMA LostStep == ASSUME TypeOK, WholeInv, NothingLost, [Next]_vars PROVE NothingLost'
<1>1. text' = text /\ limit' = limit
  BY DEF Next, FindSplit, AdjustEntity, Yield, Remainder, options, vars
<1> SUFFICES ASSUME Fits
             PROVE  \A p \in 0..(pos' - 1) : text'.byte[p] \notin Strip => Held(p)'
  BY <1>1 DEF NothingLost, Fits, Places, Held
<1>2. \A p \in 0..(pos - 1) : text.byte[p] \notin Strip => Held(p)
  BY DEF NothingLost, Held
<1>3. CASE FindSplit \/ AdjustEntity \/ UNCHANGED vars
  <2>1. UNCHANGED <<pos, result>>
    BY <1>3 DEF FindSplit, AdjustEntity, vars
  <2> QED
    BY <1>1, <1>2, <2>1 DEF Held
<1>4. CASE Yield
  <2>1. /\ pc = "yield" /\ Emit(pos, split) /\ SplitWhole
        /\ pos' = IF split > pos THEN split ELSE pos + 1
    BY <1>4 DEF Yield, Advance, WholeInv
  <2>2. pos \in Nat /\ split \in Nat /\ pos <= split
    BY <2>1, SplitPlaces
  <2>3. \A p \in 0..(split - 1) : text'.byte[p] \notin Strip => Held(p)'
    BY <1>1, <1>2, <2>1, <2>2, EmitHolds
  <2>4. CASE split > pos
    BY <2>1, <2>3, <2>4
  <2>5. CASE split = pos
    <3>1. pos' - 1 = pos /\ text.byte[pos] \in Strip
      BY <2>1, <2>2, <2>5 DEF SplitWhole
    <3>2. \A p \in 0..pos : p \in 0..(split - 1) \/ p = pos
      BY <2>2, <2>5
    <3> QED
      BY <1>1, <2>3, <3>1, <3>2
  <2> QED
    BY <2>2, <2>4, <2>5
<1>5. CASE Remainder
  <2>1. Emit(pos, text.size) /\ pos' = text.size
    BY <1>5 DEF Remainder
  <2>2. text.size \in Nat
    BY DEF TypeOK, WellFormed
  <2> QED
    BY <1>1, <1>2, <2>1, <2>2, EmitHolds
<1> QED
  BY <1>3, <1>4, <1>5 DEF Next

\* Only white space is left out of the chunks, for any text and any limit that no character
\* and no entity exceeds (TextChunker.cpp:81-97).
THEOREM NothingLeftOut == Spec => []NothingLost
<1>1. Init => NothingLost
  <2> SUFFICES ASSUME Init, NEW p \in 0..(pos - 1) PROVE FALSE
    BY DEF NothingLost
  <2> QED
    BY DEF Init
<1>2. TypeOK /\ WholeInv /\ NothingLost /\ [Next]_vars => NothingLost'
  BY LostStep
<1> QED
  BY <1>1, <1>2, TypeCorrect, WholeAlways, PTL DEF Spec
-----------------------------------------------------------------------------
(* Lines.                                                                  *)

Newlines == {p \in Places(text) : text.byte[p] = "newline"}

HasNewline(chunk) == PlacesOf("newline", chunk.from, chunk.to) # {}

\* Where a chunk holds a newline there is another one between its end and the beginning of the
\* next chunk, or of the rest if there is no next one yet; a split with a newline before it is
\* at a newline.
LinesInv ==
  prefer_newline =>
    /\ \A i \in DOMAIN result :
         i + 1 \in DOMAIN result /\ HasNewline(result[i]) =>
           \E n \in Newlines : result[i].to <= n /\ n < result[i + 1].from
    /\ pc # "done" =>
         \A i \in DOMAIN result :
           i + 1 \notin DOMAIN result /\ HasNewline(result[i]) =>
             \E n \in Newlines : result[i].to <= n /\ n <= pos
    /\ pc \in {"entity", "yield"} /\ PlacesOf("newline", pos, split) # {} =>
         text.byte[split] = "newline"

LEMMA FindLine ==
  ASSUME TypeOK, FindSplit, prefer_newline, PlacesOf("newline", pos, split') # {}
  PROVE  text.byte[split'] = "newline"
<1>0. /\ text.size \in Nat /\ limit \in Nat /\ pos \in Nat /\ split' \in Candidates
  <2>1. text.size \in Nat
    BY DEF TypeOK, WellFormed
  <2>2. pos \in Nat /\ limit \in Nat
    BY <2>1, LimitsAssumption DEF TypeOK
  <2> QED
    BY <2>1, <2>2 DEF FindSplit
<1>1. CASE PlacesOf("newline", pos, pos + limit) # {}
  BY <1>0, <1>1 DEF Candidates, Natural, PlacesOf
<1>2. CASE PlacesOf("newline", pos, pos + limit) = {}
  <2>1. split' \in Nat /\ split' <= pos + limit
    BY <1>0, <1>2 DEF Candidates, CodePoints, Natural, PlacesOf
  <2>2. PlacesOf("newline", pos, split') \subseteq PlacesOf("newline", pos, pos + limit)
    BY <1>0, <2>1 DEF PlacesOf
  <2> QED
    BY <1>2, <2>2
<1> QED
  BY <1>1, <1>2

\* No newline is inside an entity, so a split at one does not move.
LEMMA MoveLine ==
  ASSUME TypeOK, AdjustEntity, PlacesOf("newline", pos, split) # {} => text.byte[split] = "newline",
         PlacesOf("newline", pos, split') # {}
  PROVE  text.byte[split'] = "newline"
<1>1. pc' \in {"entity", "yield"} /\ (pc' = "yield" => split' = split)
  BY DEF AdjustEntity
<1>2. CASE pc' = "yield"
  BY <1>1, <1>2
<1>3. CASE pc' = "entity"
  <2>1. /\ split \in Nat /\ split' \in Nat /\ split' < split
        /\ text.unit[split] = split' /\ split \in Places(text)
    <3>1. pos \in Nat /\ split \in Nat
      <4>1. text.size \in Nat
        BY DEF TypeOK, WellFormed
      <4> QED
        BY <4>1 DEF TypeOK
    <3> QED
      BY <1>3, <3>1, Moving
  <2>2. text.byte[split] \notin Strip
    BY <2>1, StripBegins DEF TypeOK
  <2>3. PlacesOf("newline", pos, split') \subseteq PlacesOf("newline", pos, split)
    BY <2>1 DEF PlacesOf, TypeOK
  <2> QED
    BY <2>2, <2>3 DEF Strip
<1> QED
  BY <1>1, <1>2, <1>3

\* A new chunk lies behind the newline that the one before it needs.
LEMMA EmitLines ==
  ASSUME TypeOK, LinesInv, prefer_newline, pc # "done", NEW to \in Nat, to <= text.size,
         Emit(pos, to), UNCHANGED options
  PROVE  \A i \in DOMAIN result' :
           i + 1 \in DOMAIN result' /\ HasNewline(result'[i]) =>
             \E n \in Newlines : result'[i].to <= n /\ n < result'[i + 1].from
<1>1. text.size \in Nat /\ pos \in Nat
  <2>1. text.size \in Nat
    BY DEF TypeOK, WellFormed
  <2> QED
    BY <2>1 DEF TypeOK
<1>2. /\ DOMAIN result = 1..Len(result) /\ Len(result) \in Nat
      /\ \A i \in DOMAIN result : result'[i] = result[i]
      /\ \A i \in DOMAIN result' \ DOMAIN result :
           i = Len(result) + 1 /\ CutFrom(result'[i], pos, to)
  BY <1>1, EmitAdds
<1> SUFFICES ASSUME NEW i \in DOMAIN result', i + 1 \in DOMAIN result', HasNewline(result'[i])
             PROVE  \E n \in Newlines : result'[i].to <= n /\ n < result'[i + 1].from
  OBVIOUS
<1>3. i \in DOMAIN result /\ result'[i] = result[i]
  BY <1>2
<1>4. CASE i + 1 \in DOMAIN result
  BY <1>2, <1>3, <1>4 DEF LinesInv
<1>5. CASE i + 1 \notin DOMAIN result
  <2>1. PICK n \in Newlines : result[i].to <= n /\ n <= pos
    BY <1>3, <1>5 DEF LinesInv
  <2>2. result'[i + 1].from \in Kept(pos, to)
    BY <1>2, <1>5 DEF CutFrom
  <2>3. /\ result'[i + 1].from \in Nat /\ pos <= result'[i + 1].from
        /\ text.byte[result'[i + 1].from] \notin Strip
    BY <1>1, <2>2 DEF Kept
  <2>4. n \in Nat /\ n # result'[i + 1].from
    BY <1>1, <2>3 DEF Newlines, Places, Strip
  <2> QED
    BY <1>1, <1>3, <2>1, <2>3, <2>4
<1> QED
  BY <1>4, <1>5

\* After a chunk with a newline the rest begins at a newline.
LEMMA YieldLines ==
  ASSUME TypeOK, LinesInv, prefer_newline, Yield
  PROVE  \A i \in DOMAIN result' :
           i + 1 \notin DOMAIN result' /\ HasNewline(result'[i]) =>
             \E n \in Newlines : result'[i].to <= n /\ n <= pos'
<1>1. /\ text.size \in Nat /\ pos \in Nat /\ split \in Nat /\ split < text.size /\ pc = "yield"
      /\ Emit(pos, split)
  <2>1. text.size \in Nat
    BY DEF TypeOK, WellFormed
  <2> QED
    BY <2>1 DEF TypeOK, Yield
<1>2. /\ DOMAIN result = 1..Len(result) /\ Len(result) \in Nat
      /\ DOMAIN result \subseteq DOMAIN result'
      /\ \A i \in DOMAIN result : result'[i] = result[i]
      /\ \A i \in DOMAIN result' \ DOMAIN result :
           i = Len(result) + 1 /\ CutFrom(result'[i], pos, split)
  BY <1>1, EmitAdds
<1>3. pos' \in Nat /\ pos <= pos' /\ (split > pos => pos' = split)
  BY <1>1 DEF Yield, Advance
<1> SUFFICES ASSUME NEW i \in DOMAIN result', i + 1 \notin DOMAIN result', HasNewline(result'[i])
             PROVE  \E n \in Newlines : result'[i].to <= n /\ n <= pos'
  OBVIOUS
<1>4. CASE i \in DOMAIN result
  <2>1. PICK n \in Newlines : result[i].to <= n /\ n <= pos
    BY <1>1, <1>2, <1>4 DEF LinesInv
  <2>2. n \in Nat
    BY <1>1 DEF Newlines, Places
  <2> QED
    BY <1>1, <1>2, <1>3, <1>4, <2>1, <2>2
<1>5. CASE i \notin DOMAIN result
  <2> DEFINE c == result'[i]
  <2>1. c.from \in pos..(split - 1) /\ c.to - 1 \in pos..(split - 1) /\ c.to \in Nat
    BY <1>1, <1>2, <1>5 DEF CutFrom, Kept
  <2>2. pos < split /\ c.to <= split /\ pos <= c.from /\ c.from \in Nat
    BY <1>1, <2>1
  <2>3. PlacesOf("newline", c.from, c.to) \subseteq PlacesOf("newline", pos, split)
    BY <1>1, <2>1, <2>2 DEF PlacesOf
  <2>4. text.byte[split] = "newline"
    BY <1>1, <2>3 DEF LinesInv, HasNewline
  <2>5. split \in Newlines
    BY <1>1, <2>4 DEF Newlines, Places
  <2> QED
    BY <1>3, <2>2, <2>5
<1> QED
  BY <1>4, <1>5

LEMMA LinesStep == ASSUME TypeOK, LinesInv, [Next]_vars PROVE LinesInv'
<1> SUFFICES ASSUME prefer_newline' PROVE LinesInv'
  BY DEF LinesInv
<1>0. /\ UNCHANGED <<text, prefer_newline>> /\ prefer_newline
      /\ text.size \in Nat /\ pos \in Nat /\ split \in Nat
  <2>1. text.size \in Nat
    BY DEF TypeOK, WellFormed
  <2>2. UNCHANGED <<text, prefer_newline>>
    BY DEF Next, FindSplit, AdjustEntity, Yield, Remainder, options, vars
  <2>3. prefer_newline
    BY <2>2
  <2>4. pos \in Nat /\ split \in Nat
    BY <2>1 DEF TypeOK
  <2> QED
    BY <2>1, <2>2, <2>3, <2>4
<1>1. /\ Newlines' = Newlines
      /\ \A chunk : HasNewline(chunk)' = HasNewline(chunk)
  BY <1>0 DEF Newlines, HasNewline, PlacesOf, Places
<1>2. CASE FindSplit
  <2>1. UNCHANGED <<pos, result>> /\ pc # "done"
    BY <1>2 DEF FindSplit
  <2>2. PlacesOf("newline", pos, split') # {} => text.byte[split'] = "newline"
    BY <1>0, <1>2, FindLine
  <2> QED
    BY <1>0, <1>1, <2>1, <2>2 DEF LinesInv, HasNewline, PlacesOf, Newlines, Places
<1>3. CASE AdjustEntity
  <2>1. UNCHANGED <<pos, result>> /\ pc = "entity"
    BY <1>3 DEF AdjustEntity
  <2>2. PlacesOf("newline", pos, split') # {} => text.byte[split'] = "newline"
    BY <1>0, <1>3, <2>1, MoveLine DEF LinesInv
  <2> QED
    BY <1>0, <1>1, <2>1, <2>2 DEF LinesInv, HasNewline, PlacesOf, Newlines, Places
<1>4. CASE Yield
  <2>1. pc = "yield" /\ pc' = "loop" /\ Emit(pos, split) /\ UNCHANGED options /\ split <= text.size
    BY <1>0, <1>4 DEF Yield, TypeOK
  <2>2. \A i \in DOMAIN result' :
          i + 1 \in DOMAIN result' /\ HasNewline(result'[i]) =>
            \E n \in Newlines : result'[i].to <= n /\ n < result'[i + 1].from
    BY <1>0, <2>1, EmitLines
  <2>3. \A i \in DOMAIN result' :
          i + 1 \notin DOMAIN result' /\ HasNewline(result'[i]) =>
            \E n \in Newlines : result'[i].to <= n /\ n <= pos'
    BY <1>0, <1>4, YieldLines
  <2> QED
    BY <1>0, <2>1, <2>2, <2>3 DEF LinesInv, HasNewline, PlacesOf, Newlines, Places
<1>5. CASE Remainder
  <2>1. pc = "loop" /\ pc' = "done" /\ Emit(pos, text.size) /\ UNCHANGED options
    BY <1>5 DEF Remainder
  <2>2. \A i \in DOMAIN result' :
          i + 1 \in DOMAIN result' /\ HasNewline(result'[i]) =>
            \E n \in Newlines : result'[i].to <= n /\ n < result'[i + 1].from
    BY <1>0, <2>1, EmitLines
  <2> QED
    BY <1>0, <2>1, <2>2 DEF LinesInv, HasNewline, PlacesOf, Newlines, Places
<1>6. CASE UNCHANGED vars
  BY <1>6 DEF vars, LinesInv, HasNewline, PlacesOf, Newlines, Places
<1> QED
  BY <1>2, <1>3, <1>4, <1>5, <1>6 DEF Next

\* With prefer_newline, the cut after a chunk that holds a newline is at a newline as well, for
\* any text and any limit (TextChunker.cpp:60-62).
THEOREM LinesAreKept == Spec => []LinesKept
<1>1. Init => LinesInv
  BY DEF Init, LinesInv
<1>2. TypeOK /\ LinesInv /\ [Next]_vars => LinesInv'
  BY LinesStep
<1>3. ASSUME TypeOK, LinesInv PROVE LinesKept
  <2> SUFFICES ASSUME prefer_newline, NEW i \in 1..(Len(result) - 1),
                      PlacesOf("newline", result[i].from, result[i].to) # {}
               PROVE  PlacesOf("newline", result[i].to, result[i + 1].from) # {}
    BY DEF LinesKept
  <2>1. /\ i \in DOMAIN result /\ i + 1 \in DOMAIN result
        /\ result[i].to \in Nat /\ result[i + 1].from \in Nat
    <3>1. result \in Seq(Chunk)
      BY <1>3 DEF TypeOK, Chunk
    <3>2. i \in DOMAIN result /\ i + 1 \in DOMAIN result
      BY <3>1
    <3>3. result[i] \in Chunk /\ result[i + 1] \in Chunk
      BY <3>1, <3>2
    <3> QED
      BY <3>2, <3>3 DEF Chunk
  <2>2. PICK n \in Newlines : result[i].to <= n /\ n < result[i + 1].from
    BY <1>3, <2>1 DEF LinesInv, HasNewline
  <2>3. n \in Nat /\ n < text.size /\ text.byte[n] = "newline"
    <3>1. text.size \in Nat
      BY <1>3 DEF TypeOK, WellFormed
    <3>2. n \in 0..(text.size - 1) /\ text.byte[n] = "newline"
      BY DEF Newlines, Places
    <3> QED
      BY <3>1, <3>2
  <2>4. n \in PlacesOf("newline", result[i].to, result[i + 1].from)
    BY <2>1, <2>2, <2>3 DEF PlacesOf
  <2> QED
    BY <2>4
<1> QED
  BY <1>1, <1>2, <1>3, TypeCorrect, PTL DEF Spec
=============================================================================

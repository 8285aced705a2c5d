------------------------------ MODULE FeedProofs ------------------------------
(***************************************************************************)
(* Proofs about the parts between a flowsheet row and its listeners: the   *)
(* feed (LiveFeed), for any rows, albums and reads under way; the probe of *)
(* the CDC listener (CdcProbe), for any interval and any timeout of the    *)
(* echo; and the lookups of the worker (LookupBatcher), for any callers    *)
(* and any size of the bulk calls.  The last section is about the run      *)
(* MCFeed, which puts them side by side.                                   *)
(***************************************************************************)
EXTENDS MCFeed, FiniteSetTheorems, SequenceTheorems, TLAPS

-----------------------------------------------------------------------------
(* What a filter leaves of a sequence                                      *)

LEMMA RankFacts ==
  ASSUME NEW n \in Nat, NEW places \in SUBSET (1 .. n)
  PROVE  /\ IsFiniteSet(places) /\ Cardinality(places) \in Nat
         /\ \A i \in places : Rank(places, i) \in 1 .. Cardinality(places)
         /\ \A i, j \in places : i < j => Rank(places, i) < Rank(places, j)
         /\ \A k \in 1 .. Cardinality(places) : \E i \in places : Rank(places, i) = k
<1>1. IsFiniteSet(places) /\ Cardinality(places) \in Nat
  <2>1. IsFiniteSet(1 .. n)
    BY FS_Interval
  <2>2. IsFiniteSet(places)
    BY <2>1, FS_Subset
  <2> QED
    BY <2>2, FS_CardinalityType
<1>2. ASSUME NEW i \in places
      PROVE  /\ IsFiniteSet({j \in places : j <= i})
             /\ Rank(places, i) \in Nat /\ Rank(places, i) \in 1 .. Cardinality(places)
  <2> DEFINE upTo == {j \in places : j <= i}
  <2>1. upTo \in SUBSET places /\ i \in upTo /\ upTo # {}
    OBVIOUS
  <2>2. IsFiniteSet(upTo) /\ Cardinality(upTo) <= Cardinality(places)
    BY <1>1, <2>1, FS_Subset
  <2>3. Cardinality(upTo) \in Nat /\ Cardinality(upTo) # 0
    BY <2>1, <2>2, FS_CardinalityType, FS_EmptySet
  <2> QED
    BY <1>1, <2>2, <2>3 DEF Rank
<1>3. ASSUME NEW i \in places, NEW j \in places, i < j
      PROVE  Rank(places, i) < Rank(places, j)
  <2> DEFINE upToI == {x \in places : x <= i}
             upToJ == {x \in places : x <= j}
  <2>1. upToI \in SUBSET upToJ /\ j \in upToJ /\ j \notin upToI
    <3>1. i \in Nat /\ j \in Nat /\ \A x \in places : x \in Nat
      OBVIOUS
    <3>2. \A x \in places : x <= i => x <= j
      BY <1>3, <3>1
    <3>3. j <= j /\ ~(j <= i)
      BY <1>3, <3>1
    <3> QED
      BY <3>2, <3>3, Zenon
  <2>2. IsFiniteSet(upToJ) /\ IsFiniteSet(upToI)
    BY <1>2
  <2>3. Cardinality(upToI) <= Cardinality(upToJ) /\ Cardinality(upToI) # Cardinality(upToJ)
    BY <2>1, <2>2, FS_Subset
  <2>4. Cardinality(upToI) \in Nat /\ Cardinality(upToJ) \in Nat
    BY <2>2, FS_CardinalityType
  <2> QED
    BY <2>3, <2>4 DEF Rank
<1>4. \A k \in 1 .. Cardinality(places) : \E i \in places : Rank(places, i) = k
  <2> DEFINE top == 1 .. Cardinality(places)
             rank == [i \in places |-> Rank(places, i)]
  <2>1. rank \in Injection(places, top)
    <3>1. rank \in [places -> top]
      BY <1>2
    <3>2. ASSUME NEW i \in places, NEW j \in places, rank[i] = rank[j]
          PROVE  i = j
      <4>1. i \in Nat /\ j \in Nat
        OBVIOUS
      <4>2. Rank(places, i) = Rank(places, j)
        BY <3>2, Zenon
      <4>3. Rank(places, i) \in Nat
        BY <1>2, Zenon
      <4> QED
        BY <1>3, <4>1, <4>2, <4>3
    <3> QED
      BY <3>1, <3>2 DEF Injection, IsInjective
  <2>2. IsFiniteSet(top) /\ Cardinality(top) = Cardinality(places)
    BY <1>1, FS_Interval
  <2>3. rank \in Surjection(places, top)
    BY <2>1, <2>2, FS_Injection
  <2> QED
    BY <2>3 DEF Surjection
<1> QED
  BY <1>1, <1>2, <1>3, <1>4

\* The elements at the places, each once and in their order.
LEMMA AtPlacesFacts ==
  ASSUME NEW S, NEW s \in Seq(S), NEW places \in SUBSET DOMAIN s
  PROVE  /\ AtPlaces(s, places) \in Seq(S)
         /\ Len(AtPlaces(s, places)) = Cardinality(places) /\ IsFiniteSet(places)
         /\ Cardinality(places) \in Nat
         /\ \E place \in [1 .. Cardinality(places) -> places] :
              /\ \A k \in 1 .. Cardinality(places) : AtPlaces(s, places)[k] = s[place[k]]
              /\ \A j, k \in 1 .. Cardinality(places) : j < k => place[j] < place[k]
              /\ \A i \in places : \E k \in 1 .. Cardinality(places) : place[k] = i
<1> DEFINE n == Cardinality(places)
           place == [k \in 1 .. n |-> CHOOSE i \in places : Rank(places, i) = k]
<1>1. Len(s) \in Nat /\ places \in SUBSET (1 .. Len(s)) /\ s \in [1 .. Len(s) -> S]
  OBVIOUS
<1>2. /\ IsFiniteSet(places) /\ n \in Nat
      /\ \A i \in places : Rank(places, i) \in 1 .. n
      /\ \A i, j \in places : i < j => Rank(places, i) < Rank(places, j)
      /\ \A k \in 1 .. n : \E i \in places : Rank(places, i) = k
  BY <1>1, RankFacts, Zenon
<1> HIDE DEF n
<1>3. \A k \in 1 .. n : place[k] \in places /\ Rank(places, place[k]) = k
  BY <1>2, Zenon
<1>4. \A k \in 1 .. n : AtPlaces(s, places)[k] = s[place[k]]
  <2> SUFFICES ASSUME NEW k \in 1 .. n
               PROVE  AtPlaces(s, places)[k] = s[place[k]]
    OBVIOUS
  <2>1. place[k] = CHOOSE i \in places : Rank(places, i) = k
    BY Zenon
  <2>2. AtPlaces(s, places)[k] = s[CHOOSE i \in places : Rank(places, i) = k]
    BY Zenon DEF AtPlaces, n
  <2> QED
    BY <2>1, <2>2, Zenon
<1>5. AtPlaces(s, places) \in [1 .. n -> S]
  <2>1. \A k \in 1 .. n : s[place[k]] \in S
    BY <1>1, <1>3
  <2> QED
    BY <1>4, <2>1, Zenon DEF AtPlaces, n
<1>6. AtPlaces(s, places) \in Seq(S) /\ Len(AtPlaces(s, places)) = n
  BY <1>2, <1>5, IsASeq, LenProperties
<1>7. ASSUME NEW j \in 1 .. n, NEW k \in 1 .. n, j < k
      PROVE  place[j] < place[k]
  <2>1. place[j] \in Nat /\ place[k] \in Nat
    BY <1>1, <1>3
  <2>2. ~(place[k] < place[j]) /\ place[k] # place[j]
    BY <1>2, <1>3, <1>7
  <2> QED
    BY <2>1, <2>2
<1>8. ASSUME NEW i \in places
      PROVE  \E k \in 1 .. n : place[k] = i
  <2>1. PICK k \in 1 .. n : k = Rank(places, i)
    BY <1>2, Zenon
  <2>2. Rank(places, place[k]) = Rank(places, i) /\ place[k] \in places
    BY <1>3, <2>1, Zenon
  <2>3. /\ i \in Nat /\ place[k] \in Nat
        /\ Rank(places, i) \in 1 .. n
    BY <1>1, <1>2, <2>2
  <2>4. ~(place[k] < i) /\ ~(i < place[k])
    BY <1>2, <2>2, <2>3
  <2> QED
    BY <2>3, <2>4
<1> HIDE DEF place
<1>9. place \in [1 .. n -> places]
  BY <1>3, Zenon DEF place
<1> QED
  BY <1>2, <1>4, <1>6, <1>7, <1>8, <1>9, Zenon DEF n

-----------------------------------------------------------------------------
(* The feed                                                                *)

ReadStates == [album : Albums \cup {NoAlbum}, saw : SUBSET Nat, poisoned : BOOLEAN,
               waiters : Seq(Plays)]

Shape ==
  /\ row \in [Rows -> 0 .. MaxVersions]
  /\ flags \in [Albums -> 0 .. MaxFlips] /\ heard \in [Albums -> Nat]
  /\ stream \in Seq(Plays \cup Changes)
  /\ cache \in [Albums -> SUBSET Nat]
  /\ inflight \in [Albums -> Reads \cup {NoRead}]
  /\ reads \in [Reads -> ReadStates]

\* No notification is ahead of the library row it is about.
NothingFromAhead ==
  /\ \A k \in DOMAIN stream :
       stream[k] \in Changes => stream[k].version <= flags[stream[k].album]
  /\ \A a \in Albums : heard[a] <= flags[a]

\* A read that may still fill the cache is the one that lookups join, so that an
\* invalidation finds it, and what it saw is as new as what was heard.
ReadsAreFound ==
  \A i \in Reads : UnderWay(i) /\ ~reads[i].poisoned =>
    /\ inflight[reads[i].album] = i
    /\ \A saw \in reads[i].saw : saw >= heard[reads[i].album]

JoinedAreUnderWay == \A a \in Albums : inflight[a] # NoRead => reads[inflight[a]].album = a

FreshInv == Shape /\ NothingFromAhead /\ ReadsAreFound /\ JoinedAreUnderWay /\ CacheFresh

\* A notification is of a row or of an album.
LEMMA Kinds ==
  /\ \A e \in Plays : IsPlay(e) /\ e \notin Changes /\ e.row \in Rows
  /\ \A e \in Changes : ~IsPlay(e) /\ e.album \in Albums /\ e.version \in Nat
  BY DEF Plays, Changes, IsPlay, Versions

LEMMA FreeReadIsFree ==
  FreeRead \in ReadStates /\ FreeRead.album = NoAlbum
  BY DEF FreeRead, ReadStates

LEMMA FreshInit == Init => FreshInv
<1> USE FeedAssumption
<1> SUFFICES ASSUME Init PROVE FreshInv
  OBVIOUS
<1>1. Shape
  BY FreeReadIsFree DEF Init, Shape, NoRead
<1>2. NothingFromAhead /\ JoinedAreUnderWay /\ CacheFresh
  BY DEF Init, NothingFromAhead, JoinedAreUnderWay, CacheFresh
<1>3. ReadsAreFound
  BY FreeReadIsFree DEF Init, ReadsAreFound, UnderWay
<1> QED
  BY <1>1, <1>2, <1>3 DEF FreshInv

\* The head of the stream is handled, and the rest stays.
LEMMA HeadLeaves ==
  ASSUME FreshInv, stream # << >>, stream' = Tail(stream), UNCHANGED flags
  PROVE  /\ Head(stream) \in Plays \cup Changes
         /\ Head(stream) \in Changes => Head(stream).version <= flags[Head(stream).album]
         /\ stream' \in Seq(Plays \cup Changes)
         /\ \A k \in DOMAIN stream' :
              stream'[k] \in Changes => stream'[k].version <= flags'[stream'[k].album]
<1>1. stream \in Seq(Plays \cup Changes)
  BY DEF FreshInv, Shape
<1>2. Head(stream) = stream[1] /\ 1 \in DOMAIN stream
  BY <1>1
<1>3. \A k \in DOMAIN stream' : k + 1 \in DOMAIN stream /\ stream'[k] = stream[k + 1]
  BY <1>1
<1> QED
  BY <1>1, <1>2, <1>3 DEF FreshInv, NothingFromAhead

LEMMA FreshStep == FreshInv /\ [Next]_vars => FreshInv'
<1> SUFFICES ASSUME FreshInv, [Next]_vars PROVE FreshInv'
  OBVIOUS
<1>0. Shape /\ NothingFromAhead /\ ReadsAreFound /\ JoinedAreUnderWay /\ CacheFresh
  BY DEF FreshInv
<1>1. CASE UNCHANGED vars
  BY <1>0, <1>1 DEF vars, FreshInv, Shape, NothingFromAhead, ReadsAreFound, UnderWay,
     JoinedAreUnderWay, CacheFresh
<1>2. ASSUME NEW e \in Plays \cup Changes, stream' \in {stream, Append(stream, e)},
             flags' \in [Albums -> 0 .. MaxFlips], row' \in [Rows -> 0 .. MaxVersions], \A a \in Albums : flags[a] <= flags'[a],
             e \in Changes => e.version <= flags'[e.album],
             UNCHANGED <<cache, inflight, reads, heard>>
      PROVE  FreshInv'
  <2>0. stream \in Seq(Plays \cup Changes)
    BY <1>0 DEF Shape
  <2>1. stream' \in Seq(Plays \cup Changes)
    BY <1>2, <2>0, AppendProperties, SMTT(20)
  <2>2. \A k \in DOMAIN stream' :
         (k \in DOMAIN stream /\ stream'[k] = stream[k]) \/ stream'[k] = e
    <3>1. CASE stream' = stream
      BY <3>1
    <3>2. CASE stream' = Append(stream, e)
      BY <2>0, <3>2, AppendProperties
    <3> QED
      BY <1>2, <3>1, <3>2
  <2>3. ASSUME NEW k \in DOMAIN stream', stream'[k] \in Changes
        PROVE  stream'[k].version <= flags'[stream'[k].album]
    <3>1. CASE stream'[k] = e
      BY <1>2, <2>3, <3>1
    <3>2. CASE k \in DOMAIN stream /\ stream'[k] = stream[k]
      <4>1. /\ stream[k].version <= flags[stream[k].album]
            /\ stream[k].album \in Albums /\ stream[k].version \in Nat
        BY <1>0, <2>3, <3>2, Kinds DEF NothingFromAhead
      <4> QED
        BY <1>0, <1>2, <3>2, <4>1 DEF Shape
    <3> QED
      BY <2>2, <3>1, <3>2
  <2>4. \A a \in Albums : heard[a] <= flags'[a]
    BY <1>0, <1>2 DEF Shape, NothingFromAhead
  <2> QED
    BY <1>0, <1>2, <2>1, <2>3, <2>4 DEF FreshInv, Shape, NothingFromAhead, ReadsAreFound, UnderWay,
       JoinedAreUnderWay, CacheFresh
<1>3. ASSUME NEW r \in Rows, WriteRow(r) PROVE FreshInv'
  <2> DEFINE e == [row |-> r, version |-> row'[r]]
  <2>1. row' \in [Rows -> 0 .. MaxVersions] /\ row'[r] \in Versions
    BY <1>0, <1>3, FeedAssumption DEF WriteRow, Shape, Versions
  <2>2. e \in Plays
    BY <2>1 DEF Plays
  <2>3. stream' \in {stream, Append(stream, e)}
    BY <1>3 DEF WriteRow, Notify
  <2>4. \A a \in Albums : flags[a] <= flags'[a]
    BY <1>0, <1>3, FeedAssumption DEF WriteRow, Shape
  <2> HIDE DEF e
  <2> QED
    BY <1>0, <1>2, <1>3, <2>1, <2>2, <2>3, <2>4, Kinds DEF WriteRow, Shape
<1>4. ASSUME NEW a \in Albums, WriteAlbum(a) PROVE FreshInv'
  <2> DEFINE e == [album |-> a, version |-> flags'[a]]
  <2>1. flags' \in [Albums -> 0 .. MaxFlips] /\ flags'[a] \in 1 .. MaxFlips
    BY <1>0, <1>4, FeedAssumption DEF WriteAlbum, Shape
  <2>2. e \in Changes /\ e.version <= flags'[e.album]
    BY <2>1 DEF Changes
  <2>3. stream' \in {stream, Append(stream, e)}
    BY <1>4 DEF WriteAlbum, Notify
  <2>4. \A b \in Albums : flags[b] <= flags'[b]
    BY <1>0, <1>4, FeedAssumption DEF WriteAlbum, Shape
  <2> HIDE DEF e
  <2> QED
    BY <1>0, <1>2, <1>4, <2>1, <2>2, <2>3, <2>4 DEF WriteAlbum, Shape
<1>5. CASE ConnectionBreaks
  BY <1>0, <1>5 DEF ConnectionBreaks, FreshInv, Shape, NothingFromAhead, ReadsAreFound, UnderWay,
     JoinedAreUnderWay, CacheFresh
<1>6. ASSUME NEW a \in Albums, Expires(a) PROVE FreshInv'
  BY <1>0, <1>6 DEF Expires, FreshInv, Shape, NothingFromAhead, ReadsAreFound, UnderWay,
     JoinedAreUnderWay, CacheFresh
<1>7. CASE HandlePlay
  <2> DEFINE e == Head(stream)
  <2>1. e \in Plays /\ e.row \in Rows
    BY <1>7, HeadLeaves, Kinds DEF HandlePlay
  <2>2. UNCHANGED <<row, flags, cache, heard>>
    BY <1>7 DEF HandlePlay
  <2>3. /\ stream' \in Seq(Plays \cup Changes)
        /\ NothingFromAhead'
    BY <1>0, <1>7, <2>2, HeadLeaves DEF HandlePlay, NothingFromAhead
  <2> HIDE DEF e
  <2>4. CASE UNCHANGED <<inflight, reads>>
    BY <1>0, <2>2, <2>3, <2>4 DEF FreshInv, Shape, ReadsAreFound, UnderWay, JoinedAreUnderWay,
       CacheFresh
  <2>5. CASE LookUp(e)
    <3> DEFINE a == AlbumOf[e.row]
    <3>1. a \in Albums
      BY <2>1, <2>5, FeedAssumption DEF LookUp
    <3> HIDE DEF a
    <3>2. CASE Joins(e) /\ JoinRead(e)
      <4> DEFINE j == inflight[a]
      <4>1. j \in Reads /\ reads[j] \in ReadStates
        BY <1>0, <3>1, <3>2 DEF Joins, Shape, a
      <4>2. /\ inflight' = inflight
            /\ reads' = [reads EXCEPT ![j] = [reads[j] EXCEPT !.waiters = Append(reads[j].waiters, e)]]
        BY <3>2 DEF JoinRead, a
      <4> HIDE DEF j
      <4>3. Append(reads[j].waiters, e) \in Seq(Plays)
        BY <2>1, <4>1, AppendProperties DEF ReadStates
      <4>4. [reads[j] EXCEPT !.waiters = Append(reads[j].waiters, e)] \in ReadStates
        BY <4>1, <4>3 DEF ReadStates
      <4>5. /\ reads' \in [Reads -> ReadStates]
            /\ \A i \in Reads : /\ reads'[i].album = reads[i].album
                                /\ reads'[i].saw = reads[i].saw
                                /\ reads'[i].poisoned = reads[i].poisoned
        BY <1>0, <4>1, <4>2, <4>4 DEF Shape, ReadStates
      <4> QED
        BY <1>0, <2>2, <2>3, <4>2, <4>5 DEF FreshInv, Shape, ReadsAreFound, UnderWay,
           JoinedAreUnderWay, CacheFresh
    <3>3. ASSUME NEW j \in Reads, ~Joins(e), StartRead(e, j) PROVE FreshInv'
      <4> DEFINE new == [FreeRead EXCEPT !.album = a, !.waiters = <<e>>]
      <4>1. new \in ReadStates /\ new.album = a /\ new.saw = {}
        <5>1. <<e>> \in Seq(Plays)
          BY <2>1
        <5> QED
          BY <3>1, <5>1 DEF FreeRead, ReadStates
      <4>2. /\ ~UnderWay(j) /\ reads' = [reads EXCEPT ![j] = new]
            /\ inflight' = [inflight EXCEPT ![a] = j] /\ inflight[a] = NoRead
        BY <3>3 DEF StartRead, Joins, a
      <4>3. \A i \in Reads : i # NoRead
        BY FeedAssumption DEF NoRead
      <4> HIDE DEF new
      <4>4. Shape'
        <5>1. reads' \in [Reads -> ReadStates]
          BY <1>0, <4>1, <4>2 DEF Shape
        <5>2. inflight' \in [Albums -> Reads \cup {NoRead}]
          BY <1>0, <4>2 DEF Shape
        <5> QED
          BY <1>0, <2>2, <2>3, <5>1, <5>2 DEF Shape
      <4>5. ReadsAreFound'
        <5> SUFFICES ASSUME NEW i \in Reads, UnderWay(i)', ~reads'[i].poisoned
                     PROVE  /\ inflight'[reads'[i].album] = i
                            /\ \A saw \in reads'[i].saw : saw >= heard'[reads'[i].album]
          BY DEF ReadsAreFound
        <5>1. CASE i = j
          BY <1>0, <3>1, <4>1, <4>2, <5>1 DEF Shape
        <5>2. CASE i # j
          <6>1. reads'[i] = reads[i]
            BY <1>0, <4>2, <5>2 DEF Shape
          <6>2. /\ inflight[reads[i].album] = i /\ reads[i].album # a
                /\ \A saw \in reads[i].saw : saw >= heard[reads[i].album]
            BY <1>0, <4>2, <4>3, <6>1 DEF ReadsAreFound, UnderWay
          <6>3. reads[i].album \in Albums
            BY <1>0, <6>1 DEF Shape, ReadStates, UnderWay
          <6> QED
            BY <1>0, <2>2, <4>2, <6>1, <6>2, <6>3 DEF Shape
        <5> QED
          BY <5>1, <5>2
      <4>6. JoinedAreUnderWay'
        <5> SUFFICES ASSUME NEW b \in Albums, inflight'[b] # NoRead
                     PROVE  reads'[inflight'[b]].album = b
          BY DEF JoinedAreUnderWay
        <5>1. CASE b = a
          BY <1>0, <3>1, <4>1, <4>2, <5>1 DEF Shape
        <5>2. CASE b # a
          <6>1. inflight'[b] = inflight[b] /\ inflight[b] \in Reads
            BY <1>0, <4>2, <5>2 DEF Shape
          <6>2. reads[inflight[b]].album = b
            BY <1>0, <6>1 DEF JoinedAreUnderWay
          <6>3. inflight[b] # j
            BY <4>2, <6>2, FeedAssumption DEF UnderWay
          <6> QED
            BY <1>0, <4>2, <6>1, <6>2, <6>3 DEF Shape
        <5> QED
          BY <5>1, <5>2
      <4> QED
        BY <1>0, <2>2, <2>3, <4>4, <4>5, <4>6 DEF FreshInv, CacheFresh
    <3> QED
      BY <2>5, <3>2, <3>3 DEF LookUp
  <2> QED
    BY <1>7, <2>4, <2>5 DEF HandlePlay, FilterOut, BroadcastAtOnce, e
<1>8. CASE HandleChange
  <2> DEFINE e == Head(stream)
             a == e.album
  <2>1. e \in Changes /\ a \in Albums /\ e.version \in Nat /\ e.version <= flags[a]
    BY <1>8, HeadLeaves, Kinds DEF HandleChange
  <2>2. /\ cache' = [cache EXCEPT ![a] = {}] /\ inflight' = [inflight EXCEPT ![a] = NoRead]
        /\ heard' = [heard EXCEPT ![a] = e.version]
        /\ UNCHANGED <<row, flags>>
    BY <1>8 DEF HandleChange, Invalidate
  <2>3. stream' \in Seq(Plays \cup Changes) /\ NothingFromAhead'
    BY <1>0, <1>8, <2>1, <2>2, HeadLeaves DEF HandleChange, NothingFromAhead, Shape
  <2>4. /\ reads' \in [Reads -> ReadStates]
        /\ \A i \in Reads : reads'[i].album = reads[i].album /\ reads'[i].saw = reads[i].saw
        /\ \A i \in Reads : ~reads'[i].poisoned => ~reads[i].poisoned /\ i # inflight[a]
    <3>1. CASE inflight[a] = NoRead
      BY <1>0, <1>8, <3>1, FeedAssumption DEF HandleChange, Invalidate, Shape, NoRead
    <3>2. CASE inflight[a] # NoRead
      <4> DEFINE j == inflight[a]
                 new == [reads[j] EXCEPT !.poisoned = TRUE]
      <4>1. j \in Reads /\ reads' = [reads EXCEPT ![j] = new]
        BY <1>0, <1>8, <2>1, <3>2 DEF HandleChange, Invalidate, Shape
      <4> HIDE DEF j
      <4>2. reads[j] \in ReadStates
        BY <1>0, <4>1 DEF Shape
      <4>3. /\ new \in ReadStates /\ new.album = reads[j].album /\ new.saw = reads[j].saw
            /\ new.poisoned
        BY <4>2 DEF ReadStates
      <4> HIDE DEF new
      <4> QED
        BY <1>0, <4>1, <4>3 DEF Shape, j
    <3> QED
      BY <3>1, <3>2
  <2> HIDE DEF a
  <2>5. Shape'
    BY <1>0, <2>1, <2>2, <2>3, <2>4 DEF Shape, NoRead
  <2>6. ReadsAreFound'
    <3> SUFFICES ASSUME NEW i \in Reads, UnderWay(i)', ~reads'[i].poisoned
                 PROVE  /\ inflight'[reads'[i].album] = i
                        /\ \A saw \in reads'[i].saw : saw >= heard'[reads'[i].album]
      BY DEF ReadsAreFound
    <3>1. /\ inflight[reads[i].album] = i /\ reads[i].album # a
          /\ \A saw \in reads[i].saw : saw >= heard[reads[i].album]
      BY <1>0, <2>4 DEF ReadsAreFound, UnderWay
    <3>2. reads[i].album \in Albums
      BY <1>0, <2>4 DEF Shape, ReadStates, UnderWay
    <3> QED
      BY <1>0, <2>1, <2>2, <2>4, <3>1, <3>2 DEF Shape
  <2>7. JoinedAreUnderWay'
    BY <1>0, <2>1, <2>2, <2>4 DEF Shape, JoinedAreUnderWay
  <2>8. CacheFresh'
    BY <1>0, <2>1, <2>2 DEF Shape, CacheFresh
  <2> QED
    BY <2>3, <2>5, <2>6, <2>7, <2>8 DEF FreshInv
<1>9. ASSUME NEW i \in Reads, QueryRuns(i) PROVE FreshInv'
  <2> DEFINE a == reads[i].album
             new == [reads[i] EXCEPT !.saw = {flags[a]}]
  <2>1. a \in Albums /\ reads[i] \in ReadStates /\ flags[a] \in Nat /\ flags[a] >= heard[a]
    BY <1>0, <1>9, FeedAssumption DEF QueryRuns, UnderWay, Shape, ReadStates, NothingFromAhead
  <2>2. reads' = [reads EXCEPT ![i] = new] /\ UNCHANGED <<row, flags, stream, cache, inflight, heard>>
    BY <1>9 DEF QueryRuns
  <2>3. /\ new \in ReadStates /\ new.album = a /\ new.saw = {flags[a]}
        /\ new.poisoned = reads[i].poisoned
    BY <2>1 DEF ReadStates
  <2> HIDE DEF new
  <2>4. Shape'
    BY <1>0, <2>2, <2>3 DEF Shape
  <2>5. ReadsAreFound'
    BY <1>0, <2>1, <2>2, <2>3 DEF Shape, ReadsAreFound, UnderWay
  <2>6. JoinedAreUnderWay'
    BY <1>0, <2>2, <2>3 DEF Shape, JoinedAreUnderWay
  <2> QED
    BY <1>0, <2>2, <2>4, <2>5, <2>6 DEF FreshInv, NothingFromAhead, CacheFresh
<1>10. ASSUME NEW i \in Reads, Leave(i), reads' = [reads EXCEPT ![i] = FreeRead],
              UNCHANGED <<row, flags, stream, heard>>
       PROVE  Shape /\ cache' \in [Albums -> SUBSET Nat] => Shape' /\ ReadsAreFound'
                                                           /\ JoinedAreUnderWay'
  <2> SUFFICES ASSUME cache' \in [Albums -> SUBSET Nat]
               PROVE  Shape' /\ ReadsAreFound' /\ JoinedAreUnderWay'
    BY <1>0
  <2>1. /\ inflight' \in [Albums -> Reads \cup {NoRead}]
        /\ \A a \in Albums : inflight'[a] = IF a = reads[i].album /\ inflight[a] = i
                                             THEN NoRead ELSE inflight[a]
    BY <1>0, <1>10 DEF Shape, Leave, JoinedAreUnderWay
  <2>2. \A a \in Albums : inflight'[a] = IF inflight[a] = i THEN NoRead ELSE inflight[a]
    BY <1>0, <1>10, <2>1, FeedAssumption DEF JoinedAreUnderWay, NoRead
  <2>3. Shape'
    BY <1>0, <1>10, <2>1, FreeReadIsFree DEF Shape
  <2>4. /\ reads'[i].album = NoAlbum
        /\ \A j \in Reads \ {i} : reads'[j] = reads[j]
    BY <1>0, <1>10, FreeReadIsFree DEF Shape
  <2>5. ReadsAreFound'
    <3> SUFFICES ASSUME NEW j \in Reads, UnderWay(j)', ~reads'[j].poisoned
                 PROVE  /\ inflight'[reads'[j].album] = j
                        /\ \A saw \in reads'[j].saw : saw >= heard'[reads'[j].album]
      BY DEF ReadsAreFound
    <3>1. j # i /\ reads'[j] = reads[j] /\ reads[j].album \in Albums
      BY <1>0, <2>4 DEF UnderWay, Shape, ReadStates
    <3> QED
      BY <1>0, <1>10, <2>2, <3>1 DEF ReadsAreFound, UnderWay
  <2>6. JoinedAreUnderWay'
    BY <1>0, <2>2, <2>4 DEF JoinedAreUnderWay, Shape
  <2> QED
    BY <2>3, <2>5, <2>6
<1>11. ASSUME NEW i \in Reads, ReadSettles(i) PROVE FreshInv'
  <2>1. /\ Leave(i) /\ reads' = [reads EXCEPT ![i] = FreeRead]
        /\ UNCHANGED <<row, flags, stream, heard>>
    BY <1>11 DEF ReadSettles
  <2>2. cache' \in [Albums -> SUBSET Nat] /\ CacheFresh'
    <3>1. CASE cache' = cache
      BY <1>0, <2>1, <3>1 DEF Shape, CacheFresh
    <3>2. CASE ~reads[i].poisoned /\ cache' = [cache EXCEPT ![reads[i].album] = reads[i].saw]
      <4>1. reads[i].saw \in SUBSET Nat
        BY <1>0 DEF Shape, ReadStates
      <4>2. UnderWay(i) => \A saw \in reads[i].saw : saw >= heard[reads[i].album]
        BY <1>0, <3>2 DEF ReadsAreFound
      <4>3. \A a \in Albums : cache'[a] = IF a = reads[i].album THEN reads[i].saw ELSE cache[a]
        BY <1>0, <3>2 DEF Shape
      <4>4. cache' \in [Albums -> SUBSET Nat]
        BY <1>0, <3>2, <4>1 DEF Shape
      <4>5. CacheFresh'
        BY <1>0, <2>1, <4>2, <4>3, FeedAssumption DEF CacheFresh, UnderWay
      <4> QED
        BY <4>4, <4>5
    <3> QED
      BY <1>11, <3>1, <3>2 DEF ReadSettles
  <2> QED
    BY <1>0, <1>10, <2>1, <2>2 DEF FreshInv, NothingFromAhead
<1>12. ASSUME NEW i \in Reads, ReadFails(i) PROVE FreshInv'
  <2>1. /\ Leave(i) /\ reads' = [reads EXCEPT ![i] = FreeRead]
        /\ UNCHANGED <<row, flags, stream, cache, heard>>
    BY <1>12 DEF ReadFails
  <2> QED
    BY <1>0, <1>10, <2>1 DEF FreshInv, Shape, NothingFromAhead, CacheFresh
<1> QED
  BY <1>1, <1>3, <1>4, <1>5, <1>6, <1>7, <1>8, <1>9, <1>11, <1>12 DEF Next, Handle

LEMMA FreshHolds == Spec => []FreshInv
  BY FreshInit, FreshStep, PTL DEF Spec

\* The cache never holds a flag that is older than a change that was heard of.
THEOREM CacheIsFresh == Spec => []CacheFresh
<1>1. FreshInv => CacheFresh
  BY DEF FreshInv
<1> QED
  BY <1>1, FreshHolds, PTL

\* The versions of a row that are on the stream come in order, and after all
\* that the feed has in hand or has sent.
StreamInOrder ==
  \A j, k \in DOMAIN stream :
    stream[j] \in Plays /\ stream[k] \in Plays /\ stream[j].row = stream[k].row /\ j < k
      => stream[j].version < stream[k].version

StreamIsAhead ==
  \A k \in DOMAIN stream : stream[k] \in Plays =>
    /\ stream[k].version <= row[stream[k].row]
    /\ \A j \in DOMAIN sent[stream[k].row] : sent[stream[k].row][j] < stream[k].version
    /\ \A i \in Reads : \A j \in DOMAIN reads[i].waiters :
         reads[i].waiters[j].row = stream[k].row => reads[i].waiters[j].version < stream[k].version

\* What waits or was sent is of the row's past.
HandledAreWritten ==
  /\ \A r \in Rows : \A j \in DOMAIN sent[r] : sent[r][j] <= row[r]
  /\ \A i \in Reads : \A j \in DOMAIN reads[i].waiters :
       reads[i].waiters[j].version <= row[reads[i].waiters[j].row]

\* A version waits at one place, for a read of its album, and was not sent.
WaitersAreApart ==
  /\ \A i \in Reads : \A j \in DOMAIN reads[i].waiters :
       /\ AlbumOf[reads[i].waiters[j].row] = reads[i].album /\ UnderWay(i)
       /\ \A k \in DOMAIN sent[reads[i].waiters[j].row] :
            sent[reads[i].waiters[j].row][k] # reads[i].waiters[j].version
  /\ \A h, i \in Reads : \A j \in DOMAIN reads[h].waiters, k \in DOMAIN reads[i].waiters :
       reads[h].waiters[j] = reads[i].waiters[k] => h = i /\ j = k

\* Until a change of an album is heard, its reads come one at a time, and none
\* while the cache has it.
OneReadAtATime ==
  \A i \in Reads : UnderWay(i) /\ heard[reads[i].album] = 0 =>
    ~reads[i].poisoned /\ cache[reads[i].album] = {}

\* So the versions of a row wait in order, after those that were sent.
WaitersInOrder ==
  \A i \in Reads : UnderWay(i) /\ heard[reads[i].album] = 0 =>
    \A k \in DOMAIN reads[i].waiters :
      /\ \A j \in DOMAIN sent[reads[i].waiters[k].row] :
           sent[reads[i].waiters[k].row][j] < reads[i].waiters[k].version
      /\ \A j \in DOMAIN reads[i].waiters :
           reads[i].waiters[j].row = reads[i].waiters[k].row /\ j < k
             => reads[i].waiters[j].version < reads[i].waiters[k].version

OrderInv == /\ FreshInv /\ sent \in [Rows -> Seq(Nat)] /\ StreamInOrder /\ StreamIsAhead
            /\ HandledAreWritten /\ WaitersAreApart /\ OneReadAtATime /\ WaitersInOrder
            /\ RowsInOrder

LEMMA PlaysFacts ==
  /\ \A e \in Plays : e.row \in Rows /\ e.version \in Nat
  /\ \A e, f \in Plays : e.row = f.row /\ e.version = f.version => e = f
  /\ \A s \in Seq(Plays) : /\ Len(s) \in Nat /\ DOMAIN s = 1 .. Len(s)
                            /\ \A k \in DOMAIN s : k \in Nat /\ s[k] \in Plays
<1>1. /\ \A e \in Plays : e.row \in Rows /\ e.version \in Nat
      /\ \A e, f \in Plays : e.row = f.row /\ e.version = f.version => e = f
  BY DEF Plays, Versions
<1>2. \A s \in Seq(Plays) : /\ Len(s) \in Nat /\ DOMAIN s = 1 .. Len(s)
                            /\ \A k \in DOMAIN s : k \in Nat /\ s[k] \in Plays
  BY ElementOfSeq, LenProperties
<1> QED
  BY <1>1, <1>2, Zenon

\* What a broadcast adds to what was sent of a row: the plays of that row, in
\* the order in which they are broadcast.
LEMMA PlaysOfRow ==
  ASSUME NEW plays \in Seq(Plays), NEW r \in Rows
  PROVE  /\ VersionsOf(plays, r) \in Seq(Nat)
         /\ \E place \in [DOMAIN VersionsOf(plays, r) -> DOMAIN plays] :
              /\ \A k \in DOMAIN VersionsOf(plays, r) :
                   plays[place[k]].row = r /\ VersionsOf(plays, r)[k] = plays[place[k]].version
              /\ \A j, k \in DOMAIN VersionsOf(plays, r) : j < k => place[j] < place[k]
<1> DEFINE places == {k \in DOMAIN plays : plays[k].row = r}
           mine == AtPlaces(plays, places)
           added == VersionsOf(plays, r)
           n == Cardinality(places)
<1>0. added = [k \in DOMAIN mine |-> mine[k].version]
  BY DEF VersionsOf
<1> HIDE DEF added
<1>1. /\ places \in SUBSET DOMAIN plays
      /\ \A k \in places : plays[k].row = r
  OBVIOUS
<1> HIDE DEF places
<1>2. /\ mine \in Seq(Plays) /\ Len(mine) = n /\ n \in Nat
      /\ \E place \in [1 .. n -> places] :
           /\ \A k \in 1 .. n : mine[k] = plays[place[k]]
           /\ \A j, k \in 1 .. n : j < k => place[j] < place[k]
           /\ \A i \in places : \E k \in 1 .. n : place[k] = i
  <2>1. plays \in Seq(Plays) /\ places \in SUBSET DOMAIN plays
    BY <1>1
  <2> QED
    BY <2>1, AtPlacesFacts
<1> HIDE DEF mine, n
<1>3. PICK place \in [1 .. n -> places] :
           /\ \A k \in 1 .. n : mine[k] = plays[place[k]]
           /\ \A j, k \in 1 .. n : j < k => place[j] < place[k]
  BY <1>2, Zenon
<1>4. DOMAIN mine = 1 .. n
  BY <1>2, PlaysFacts
<1>5. added \in [1 .. n -> Nat] /\ \A k \in 1 .. n : added[k] = plays[place[k]].version
  <2>1. \A k \in 1 .. n : mine[k].version \in Nat
    BY <1>2, <1>4, PlaysFacts
  <2> QED
    BY <1>0, <1>3, <1>4, <2>1
<1>6. added \in Seq(Nat) /\ DOMAIN added = 1 .. n
  BY <1>2, <1>5, IsASeq
<1>7. place \in [1 .. n -> DOMAIN plays] /\ \A k \in 1 .. n : plays[place[k]].row = r
  BY <1>1, <1>3
<1>8. \E p \in [DOMAIN added -> DOMAIN plays] :
        /\ \A k \in DOMAIN added : plays[p[k]].row = r /\ added[k] = plays[p[k]].version
        /\ \A j, k \in DOMAIN added : j < k => p[j] < p[k]
  BY <1>3, <1>5, <1>6, <1>7, Zenon
<1> QED
  BY <1>6, <1>8 DEF added

\* So broadcasting plays that were not sent sends none twice, and plays that
\* are in order after those that were sent keep the order.
LEMMA BroadcastKeepsOrder ==
  ASSUME sent \in [Rows -> Seq(Nat)], NEW plays \in Seq(Plays), Broadcast(plays), NEW r \in Rows
  PROVE  /\ sent'[r] \in Seq(Nat)
         /\ \A j \in DOMAIN sent'[r] :
              \/ j \in DOMAIN sent[r] /\ sent'[r][j] = sent[r][j]
              \/ \E k \in DOMAIN plays : plays[k].row = r /\ plays[k].version = sent'[r][j]
         /\ (/\ \A j, k \in DOMAIN sent[r] : sent[r][j] = sent[r][k] => j = k
             /\ \A k, l \in DOMAIN plays : plays[k] = plays[l] => k = l
             /\ \A k \in DOMAIN plays : plays[k].row = r =>
                  \A j \in DOMAIN sent[r] : sent[r][j] # plays[k].version)
              => \A j, k \in DOMAIN sent'[r] : sent'[r][j] = sent'[r][k] => j = k
         /\ (/\ \A j, k \in DOMAIN sent[r] : j < k => sent[r][j] < sent[r][k]
             /\ \A k, l \in DOMAIN plays :
                  plays[k].row = r /\ plays[l].row = r /\ k < l => plays[k].version < plays[l].version
             /\ \A k \in DOMAIN plays : plays[k].row = r =>
                  \A j \in DOMAIN sent[r] : sent[r][j] < plays[k].version)
              => \A j, k \in DOMAIN sent'[r] : j < k => sent'[r][j] < sent'[r][k]
<1> DEFINE added == VersionsOf(plays, r)
<1>1. sent'[r] = sent[r] \o added /\ sent[r] \in Seq(Nat)
  BY Zenon DEF Broadcast
<1>2. /\ added \in Seq(Nat)
      /\ \E place \in [DOMAIN added -> DOMAIN plays] :
           /\ \A k \in DOMAIN added : plays[place[k]].row = r /\ added[k] = plays[place[k]].version
           /\ \A j, k \in DOMAIN added : j < k => place[j] < place[k]
  BY PlaysOfRow, Zenon
<1> HIDE DEF added
<1> DEFINE old == sent[r]
           new == sent'[r]
<1>3. old \in Seq(Nat) /\ new = old \o added
  BY <1>1
<1> HIDE DEF old, new
<1> DEFINE m == Len(old)
           n == Len(added)
<1>4. PICK place \in [DOMAIN added -> DOMAIN plays] :
        /\ \A k \in DOMAIN added : plays[place[k]].row = r /\ added[k] = plays[place[k]].version
        /\ \A j, k \in DOMAIN added : j < k => place[j] < place[k]
  BY <1>2, Zenon
<1>5. /\ m \in Nat /\ n \in Nat /\ DOMAIN old = 1 .. m /\ DOMAIN added = 1 .. n
      /\ \A j \in 1 .. m : old[j] \in Nat
      /\ \A j \in 1 .. n : added[j] \in Nat
  BY <1>2, <1>3
<1>6. /\ new \in Seq(Nat) /\ DOMAIN new = 1 .. (m + n)
      /\ \A j \in 1 .. m : new[j] = old[j]
      /\ \A k \in 1 .. n : new[m + k] = added[k]
  <2>1. new \in Seq(Nat) /\ Len(new) = m + n
    BY <1>2, <1>3, ConcatProperties
  <2>2. DOMAIN new = 1 .. (m + n)
    BY <2>1
  <2>3. \A j \in 1 .. m : new[j] = old[j]
    BY <1>2, <1>3, <1>5, ConcatProperties
  <2>4. \A k \in 1 .. n : new[m + k] = added[k]
    BY <1>2, <1>3
  <2> QED
    BY <2>1, <2>2, <2>3, <2>4
<1> HIDE DEF m, n
<1>7. ASSUME NEW j \in DOMAIN new, j \notin 1 .. m
      PROVE  /\ j \in Nat /\ j - m \in 1 .. n /\ j - m \in DOMAIN added /\ j > m
             /\ new[j] = added[j - m] /\ place[j - m] \in DOMAIN plays
             /\ plays[place[j - m]].row = r /\ new[j] = plays[place[j - m]].version
  <2>1. j \in Nat /\ j - m \in 1 .. n /\ j = m + (j - m) /\ j > m
    BY <1>5, <1>6, <1>7, SMTT(20)
  <2>2. new[j] = added[j - m]
    BY <1>6, <2>1
  <2> QED
    BY <1>4, <1>5, <2>1, <2>2
<1>8. \A k \in DOMAIN plays : k \in Nat /\ plays[k] \in Plays /\ plays[k].version \in Nat
  BY PlaysFacts
<1>9. ASSUME NEW j \in DOMAIN new
      PROVE  \/ j \in DOMAIN old /\ new[j] = old[j]
             \/ \E k \in DOMAIN plays : plays[k].row = r /\ plays[k].version = new[j]
  BY <1>5, <1>6, <1>7
<1>10. ASSUME \A j, k \in DOMAIN old : old[j] = old[k] => j = k,
             \A k, l \in DOMAIN plays : plays[k] = plays[l] => k = l,
             \A k \in DOMAIN plays : plays[k].row = r =>
               \A j \in DOMAIN old : old[j] # plays[k].version,
             NEW j \in DOMAIN new, NEW k \in DOMAIN new, new[j] = new[k]
      PROVE  j = k
  <2>1. CASE j \in 1 .. m /\ k \in 1 .. m
    BY <1>5, <1>6, <1>10, <2>1
  <2>2. CASE j \notin 1 .. m /\ k \notin 1 .. m
    <3>1. plays[place[j - m]] = plays[place[k - m]]
      <4>1. /\ plays[place[j - m]] \in Plays /\ plays[place[k - m]] \in Plays
            /\ plays[place[j - m]].row = plays[place[k - m]].row
            /\ plays[place[j - m]].version = plays[place[k - m]].version
        BY <1>7, <1>8, <1>10, <2>2
      <4> QED
        BY <4>1, PlaysFacts, Zenon
    <3>2. place[j - m] = place[k - m] /\ place[j - m] \in Nat
      BY <1>7, <1>8, <1>10, <2>2, <3>1
    <3>3. ~(j - m < k - m) /\ ~(k - m < j - m)
      BY <1>4, <1>7, <2>2, <3>2
    <3>4. m \in Nat /\ j \in Nat /\ k \in Nat /\ j - m = k - m
      BY <1>5, <1>7, <2>2, <3>3, SMTT(20)
    <3> QED
      BY <3>4
  <2>3. CASE j \in 1 .. m /\ k \notin 1 .. m
    <3>1. PICK p \in DOMAIN plays : plays[p].row = r /\ plays[p].version = new[k]
      BY <1>7, <2>3
    <3>2. old[j] # new[k]
      BY <1>5, <1>10, <2>3, <3>1, Zenon
    <3> QED
      BY <1>6, <1>10, <2>3, <3>2
  <2>4. CASE k \in 1 .. m /\ j \notin 1 .. m
    <3>1. PICK p \in DOMAIN plays : plays[p].row = r /\ plays[p].version = new[j]
      BY <1>7, <2>4
    <3>2. old[k] # new[j]
      BY <1>5, <1>10, <2>4, <3>1, Zenon
    <3> QED
      BY <1>6, <1>10, <2>4, <3>2
  <2> QED
    BY <2>1, <2>2, <2>3, <2>4
<1>11. ASSUME \A j, k \in DOMAIN old : j < k => old[j] < old[k],
             \A k, l \in DOMAIN plays :
               plays[k].row = r /\ plays[l].row = r /\ k < l => plays[k].version < plays[l].version,
             \A k \in DOMAIN plays : plays[k].row = r =>
               \A j \in DOMAIN old : old[j] < plays[k].version,
             NEW j \in DOMAIN new, NEW k \in DOMAIN new, j < k
      PROVE  new[j] < new[k]
  <2>1. CASE k \in 1 .. m
    <3>1. j \in 1 .. m
      BY <1>5, <1>6, <1>11, <2>1
    <3> QED
      BY <1>5, <1>6, <1>11, <2>1, <3>1
  <2>2. CASE j \notin 1 .. m /\ k \notin 1 .. m
    <3>1. j - m < k - m
      BY <1>5, <1>7, <1>11, <2>2, SMTT(20)
    <3>2. place[j - m] < place[k - m]
      BY <1>4, <1>7, <2>2, <3>1
    <3> QED
      BY <1>7, <1>11, <2>2, <3>2
  <2>3. CASE j \in 1 .. m /\ k \notin 1 .. m
    <3>1. old[j] < new[k]
      BY <1>5, <1>7, <1>11, <2>3
    <3> QED
      BY <1>6, <2>3, <3>1
  <2> QED
    BY <2>1, <2>2, <2>3
<1> QED
  BY <1>6, <1>9, <1>10, <1>11 DEF old, new

LEMMA OrderInit == Init => OrderInv
<1> SUFFICES ASSUME Init PROVE OrderInv
  OBVIOUS
<1>1. FreshInv
  BY FreshInit
<1>2. sent = [r \in Rows |-> << >>] /\ stream = << >> /\ reads = [i \in Reads |-> FreeRead]
  BY DEF Init
<1>3. sent \in [Rows -> Seq(Nat)] /\ RowsInOrder
  BY <1>2 DEF RowsInOrder, IsInjective, Increasing
<1>4. StreamInOrder /\ StreamIsAhead
  BY <1>2 DEF StreamInOrder, StreamIsAhead
<1>5. \A i \in Reads : reads[i].waiters = << >> /\ ~UnderWay(i)
  BY <1>2 DEF FreeRead, UnderWay
<1>6. HandledAreWritten
  <2>1. \A r \in Rows : \A j \in DOMAIN sent[r] : sent[r][j] <= row[r]
    BY <1>2
  <2> QED
    BY <1>5, <2>1 DEF HandledAreWritten
<1>7. WaitersAreApart
  BY <1>5 DEF WaitersAreApart
<1>8. OneReadAtATime /\ WaitersInOrder
  BY <1>5 DEF OneReadAtATime, WaitersInOrder
<1> QED
  BY <1>1, <1>3, <1>4, <1>6, <1>7, <1>8 DEF OrderInv

LEMMA OrderTypes ==
  ASSUME OrderInv
  PROVE  /\ stream \in Seq(Plays \cup Changes) /\ Len(stream) \in Nat /\ DOMAIN stream = 1 .. Len(stream)
         /\ \A k \in DOMAIN stream : stream[k] \in Plays \cup Changes
         /\ \A r \in Rows : /\ row[r] \in Nat /\ sent[r] \in Seq(Nat)
                            /\ \A j \in DOMAIN sent[r] : sent[r][j] \in Nat
         /\ \A i \in Reads : /\ reads[i] \in ReadStates /\ reads[i].waiters \in Seq(Plays)
                             /\ \A k \in DOMAIN reads[i].waiters :
                                  /\ k \in Nat /\ reads[i].waiters[k] \in Plays
                                  /\ reads[i].waiters[k].row \in Rows
                                  /\ reads[i].waiters[k].version \in Nat
<1>1. FreshInv /\ sent \in [Rows -> Seq(Nat)]
  BY DEF OrderInv
<1>2. /\ stream \in Seq(Plays \cup Changes) /\ row \in [Rows -> 0 .. MaxVersions]
      /\ reads \in [Reads -> ReadStates]
  BY <1>1 DEF FreshInv, Shape
<1>3. /\ Len(stream) \in Nat /\ DOMAIN stream = 1 .. Len(stream)
      /\ \A k \in DOMAIN stream : stream[k] \in Plays \cup Changes
  BY <1>2, ElementOfSeq, LenProperties
<1>4. \A r \in Rows : /\ row[r] \in Nat /\ sent[r] \in Seq(Nat)
                      /\ \A j \in DOMAIN sent[r] : sent[r][j] \in Nat
  BY <1>1, <1>2, FeedAssumption
<1>5. \A i \in Reads : reads[i] \in ReadStates /\ reads[i].waiters \in Seq(Plays)
  BY <1>2 DEF ReadStates
<1>6. \A i \in Reads : \A k \in DOMAIN reads[i].waiters :
        /\ k \in Nat /\ reads[i].waiters[k] \in Plays
        /\ reads[i].waiters[k].row \in Rows /\ reads[i].waiters[k].version \in Nat
  BY <1>5, PlaysFacts
<1> QED
  BY <1>2, <1>3, <1>4, <1>5, <1>6, Zenon

\* A step that sends nothing leaves the waiters apart if they wait apart.
LEMMA ApartAgain ==
  ASSUME sent' = sent,
         \A i \in Reads : \A j \in DOMAIN reads'[i].waiters :
           /\ AlbumOf[reads'[i].waiters[j].row] = reads'[i].album /\ UnderWay(i)'
           /\ \A k \in DOMAIN sent[reads'[i].waiters[j].row] :
                sent[reads'[i].waiters[j].row][k] # reads'[i].waiters[j].version,
         \A h, i \in Reads : \A j \in DOMAIN reads'[h].waiters, k \in DOMAIN reads'[i].waiters :
           reads'[h].waiters[j] = reads'[i].waiters[k] => h = i /\ j = k
  PROVE  WaitersAreApart'
<1> SUFFICES \A i \in Reads : \A j \in DOMAIN reads'[i].waiters :
               \A k \in DOMAIN sent'[reads'[i].waiters[j].row] :
                 sent'[reads'[i].waiters[j].row][k] # reads'[i].waiters[j].version
  BY Zenon DEF WaitersAreApart
<1> QED
  OBVIOUS

\* A write appends to the stream, or its notification is lost.
LEMMA OrderWrite ==
  ASSUME OrderInv, FreshInv', NEW e \in Plays \cup Changes, stream' \in {stream, Append(stream, e)},
         \A r \in Rows : row'[r] \in Nat /\ row[r] <= row'[r],
         e \in Plays => row[e.row] < e.version /\ e.version <= row'[e.row],
         UNCHANGED <<cache, inflight, reads, sent, heard>>
  PROVE  OrderInv'
<1>1. /\ StreamInOrder /\ StreamIsAhead /\ HandledAreWritten /\ WaitersAreApart
      /\ OneReadAtATime /\ WaitersInOrder /\ RowsInOrder /\ sent \in [Rows -> Seq(Nat)]
  BY DEF OrderInv
<1>a. sent' = sent /\ reads' = reads /\ heard' = heard /\ cache' = cache
  OBVIOUS
<1>2. /\ WaitersAreApart' /\ OneReadAtATime' /\ WaitersInOrder' /\ RowsInOrder'
      /\ sent' \in [Rows -> Seq(Nat)]
  <2>1. RowsInOrder' /\ sent' \in [Rows -> Seq(Nat)]
    BY <1>1, <1>a DEF RowsInOrder
  <2>2. WaitersAreApart'
    <3>1. ASSUME NEW i \in Reads, NEW j \in DOMAIN reads'[i].waiters
          PROVE  /\ AlbumOf[reads'[i].waiters[j].row] = reads'[i].album /\ UnderWay(i)'
                 /\ \A k \in DOMAIN sent[reads'[i].waiters[j].row] :
                      sent[reads'[i].waiters[j].row][k] # reads'[i].waiters[j].version
      <4>1. reads'[i] = reads[i] /\ UnderWay(i)' = UnderWay(i)
        BY <1>a DEF UnderWay
      <4>2. /\ AlbumOf[reads[i].waiters[j].row] = reads[i].album /\ UnderWay(i)
            /\ \A k \in DOMAIN sent[reads[i].waiters[j].row] :
                 sent[reads[i].waiters[j].row][k] # reads[i].waiters[j].version
        BY <1>1, <4>1, Zenon DEF WaitersAreApart
      <4> QED
        BY <4>1, <4>2
    <3>2. ASSUME NEW h \in Reads, NEW i \in Reads, NEW j \in DOMAIN reads'[h].waiters,
                 NEW k \in DOMAIN reads'[i].waiters, reads'[h].waiters[j] = reads'[i].waiters[k]
          PROVE  h = i /\ j = k
      BY <1>1, <1>a, <3>2 DEF WaitersAreApart
    <3> QED
      BY <1>a, <3>1, <3>2, ApartAgain
  <2>3. WaitersInOrder'
    <3>1. \A i \in Reads : UnderWay(i)' = UnderWay(i)
      BY <1>a DEF UnderWay
    <3> QED
      BY <1>1, <1>a, <3>1 DEF WaitersInOrder
  <2>4. OneReadAtATime'
    BY <1>1, <1>a, Zenon DEF OneReadAtATime, UnderWay
  <2> QED
    BY <2>1, <2>2, <2>3, <2>4
<1>3. HandledAreWritten'
  <2>1. \A r \in Rows : \A j \in DOMAIN sent'[r] : sent'[r][j] <= row'[r]
    <3> SUFFICES ASSUME NEW r \in Rows, NEW j \in DOMAIN sent[r] PROVE sent[r][j] <= row'[r]
      OBVIOUS
    <3>1. sent[r][j] \in Nat /\ row[r] \in Nat /\ row'[r] \in Nat /\ row[r] <= row'[r]
      BY OrderTypes
    <3>2. sent[r][j] <= row[r]
      BY <1>1 DEF HandledAreWritten
    <3> QED
      BY <3>1, <3>2
  <2>2. ASSUME NEW i \in Reads, NEW j \in DOMAIN reads'[i].waiters
        PROVE  reads'[i].waiters[j].version <= row'[reads'[i].waiters[j].row]
    <3> DEFINE w == reads[i].waiters[j]
    <3>1. /\ j \in DOMAIN reads[i].waiters /\ w = reads'[i].waiters[j]
      BY <2>2
    <3>2. w.row \in Rows /\ w.version \in Nat
      BY <3>1, OrderTypes
    <3>3. w.version <= row[w.row]
      BY <1>1, <3>1 DEF HandledAreWritten
    <3>4. row[w.row] \in Nat /\ row'[w.row] \in Nat /\ row[w.row] <= row'[w.row]
      BY <3>2, OrderTypes
    <3> HIDE DEF w
    <3>5. w.version <= row'[w.row]
      BY <3>2, <3>3, <3>4
    <3> QED
      BY <3>1, <3>5
  <2> QED
    BY <2>1, <2>2 DEF HandledAreWritten
<1>4. \A k \in DOMAIN stream' : \/ /\ k \in DOMAIN stream /\ stream'[k] = stream[k]
                                \/ /\ k = Len(stream) + 1 /\ stream'[k] = e
  <2>1. CASE stream' = stream
    BY <2>1
  <2>2. CASE stream' = Append(stream, e)
    BY <2>2, OrderTypes, AppendProperties
  <2> QED
    BY <2>1, <2>2
<1>5. \A k \in DOMAIN stream : stream[k] \in Plays =>
        /\ stream[k].row \in Rows /\ stream[k].version \in Nat /\ row[stream[k].row] \in Nat
        /\ row'[stream[k].row] \in Nat /\ row[stream[k].row] <= row'[stream[k].row]
        /\ stream[k].version <= row[stream[k].row]
  BY <1>1, OrderTypes, PlaysFacts DEF StreamIsAhead
<1>6. e \in Plays => /\ e.row \in Rows /\ e.version \in Nat /\ row[e.row] \in Nat
                     /\ row[e.row] < e.version /\ e.version <= row'[e.row]
  BY OrderTypes, PlaysFacts
<1>7. StreamInOrder'
  <2> SUFFICES ASSUME NEW j \in DOMAIN stream', NEW k \in DOMAIN stream',
                      stream'[j] \in Plays, stream'[k] \in Plays,
                      stream'[j].row = stream'[k].row, j < k
               PROVE  stream'[j].version < stream'[k].version
    BY DEF StreamInOrder
  <2>1. CASE j \in DOMAIN stream /\ stream'[j] = stream[j]
             /\ k \in DOMAIN stream /\ stream'[k] = stream[k]
    BY <1>1, <2>1 DEF StreamInOrder
  <2>2. CASE j \in DOMAIN stream /\ stream'[j] = stream[j] /\ stream'[k] = e
    <3>1. /\ stream[j].version \in Nat /\ stream[j].version <= row[e.row]
          /\ row[e.row] \in Nat /\ row[e.row] < e.version /\ e.version \in Nat
      BY <1>5, <1>6, <2>2
    <3> QED
      BY <2>2, <3>1
  <2>3. ~(j = Len(stream) + 1) \/ ~(k \in DOMAIN stream)
    BY OrderTypes
  <2>4. ~(j = Len(stream) + 1 /\ k = Len(stream) + 1)
    BY OrderTypes
  <2> QED
    BY <1>4, <2>1, <2>2, <2>3, <2>4
<1>8. StreamIsAhead'
  <2> SUFFICES ASSUME NEW k \in DOMAIN stream', stream'[k] \in Plays
               PROVE  /\ stream'[k].version <= row'[stream'[k].row]
                      /\ \A j \in DOMAIN sent[stream'[k].row] :
                           sent[stream'[k].row][j] < stream'[k].version
                      /\ \A i \in Reads : \A j \in DOMAIN reads[i].waiters :
                           reads[i].waiters[j].row = stream'[k].row
                             => reads[i].waiters[j].version < stream'[k].version
    BY Zenon DEF StreamIsAhead
  <2>1. CASE k \in DOMAIN stream /\ stream'[k] = stream[k]
    <3>1. stream[k].version <= row'[stream[k].row]
      BY <1>5, <2>1
    <3> QED
      BY <1>1, <2>1, <3>1 DEF StreamIsAhead
  <2>2. CASE stream'[k] = e
    <3>1. ASSUME NEW j \in DOMAIN sent[e.row]
          PROVE  sent[e.row][j] < e.version
      <4>1. sent[e.row][j] \in Nat /\ sent[e.row][j] <= row[e.row]
        BY <1>1, <1>6, <2>2, OrderTypes DEF HandledAreWritten
      <4> QED
        BY <1>6, <2>2, <4>1
    <3>2. ASSUME NEW i \in Reads, NEW j \in DOMAIN reads[i].waiters,
                 reads[i].waiters[j].row = e.row
          PROVE  reads[i].waiters[j].version < e.version
      <4>1. reads[i].waiters[j].version \in Nat /\ reads[i].waiters[j].version <= row[e.row]
        BY <1>1, <3>2, OrderTypes DEF HandledAreWritten
      <4> QED
        BY <1>6, <2>2, <4>1
    <3> QED
      BY <1>6, <2>2, <3>1, <3>2
  <2> QED
    BY <1>4, <2>1, <2>2
<1> QED
  BY <1>2, <1>3, <1>7, <1>8 DEF OrderInv

\* A broadcast of plays that are of the past of their rows and were not sent,
\* in order where the order is due, keeps what is true of the plays sent.
LEMMA OrderBroadcast ==
  ASSUME OrderInv, NEW plays \in Seq(Plays), Broadcast(plays), UNCHANGED heard,
         \A k, l \in DOMAIN plays : plays[k] = plays[l] => k = l,
         \A k \in DOMAIN plays : /\ plays[k].version <= row[plays[k].row]
                                 /\ \A j \in DOMAIN sent[plays[k].row] :
                                      sent[plays[k].row][j] # plays[k].version,
         \A r \in Rows : AlbumOf[r] = NoAlbum \/ heard[AlbumOf[r]] = 0 =>
           /\ \A k, l \in DOMAIN plays :
                plays[k].row = r /\ plays[l].row = r /\ k < l => plays[k].version < plays[l].version
           /\ \A k \in DOMAIN plays : plays[k].row = r =>
                \A j \in DOMAIN sent[r] : sent[r][j] < plays[k].version
  PROVE  /\ sent' \in [Rows -> Seq(Nat)] /\ RowsInOrder'
         /\ \A r \in Rows : \A j \in DOMAIN sent'[r] : sent'[r][j] <= row[r]
         /\ \A r \in Rows : \A j \in DOMAIN sent'[r] :
              \/ j \in DOMAIN sent[r] /\ sent'[r][j] = sent[r][j]
              \/ \E k \in DOMAIN plays : plays[k].row = r /\ plays[k].version = sent'[r][j]
<1>1. sent \in [Rows -> Seq(Nat)] /\ RowsInOrder /\ HandledAreWritten
  BY DEF OrderInv
<1>2. DOMAIN sent' = Rows /\ sent' = [r \in Rows |-> sent'[r]]
  BY DEF Broadcast
<1>3. ASSUME NEW r \in Rows
      PROVE  /\ sent'[r] \in Seq(Nat)
             /\ \A j \in DOMAIN sent'[r] :
                  \/ j \in DOMAIN sent[r] /\ sent'[r][j] = sent[r][j]
                  \/ \E k \in DOMAIN plays : plays[k].row = r /\ plays[k].version = sent'[r][j]
             /\ (\A j, k \in DOMAIN sent[r] : sent[r][j] = sent[r][k] => j = k)
                  => \A j, k \in DOMAIN sent'[r] : sent'[r][j] = sent'[r][k] => j = k
             /\ (/\ \A j, k \in DOMAIN sent[r] : j < k => sent[r][j] < sent[r][k]
                 /\ AlbumOf[r] = NoAlbum \/ heard[AlbumOf[r]] = 0)
                  => \A j, k \in DOMAIN sent'[r] : j < k => sent'[r][j] < sent'[r][k]
  <2>1. \A k \in DOMAIN plays : plays[k].row = r =>
          \A j \in DOMAIN sent[r] : sent[r][j] # plays[k].version
    OBVIOUS
  <2> QED
    BY <1>1, <2>1, BroadcastKeepsOrder
<1>4. sent' \in [Rows -> Seq(Nat)]
  BY <1>2, <1>3, Zenon
<1>5. RowsInOrder'
  <2> SUFFICES ASSUME NEW r \in Rows
               PROVE  /\ IsInjective(sent[r])'
                      /\ AlbumOf[r] = NoAlbum \/ heard[AlbumOf[r]] = 0 => Increasing(sent[r])'
    BY DEF RowsInOrder
  <2>1. /\ \A j, k \in DOMAIN sent[r] : sent[r][j] = sent[r][k] => j = k
        /\ AlbumOf[r] = NoAlbum \/ heard[AlbumOf[r]] = 0
             => \A j, k \in DOMAIN sent[r] : j < k => sent[r][j] < sent[r][k]
    BY <1>1 DEF RowsInOrder, IsInjective, Increasing
  <2> QED
    BY <1>3, <2>1 DEF IsInjective, Increasing
<1>6. ASSUME NEW r \in Rows, NEW j \in DOMAIN sent'[r]
      PROVE  sent'[r][j] <= row[r]
  <2>1. CASE j \in DOMAIN sent[r] /\ sent'[r][j] = sent[r][j]
    BY <1>1, <2>1 DEF HandledAreWritten
  <2>2. ASSUME NEW k \in DOMAIN plays, plays[k].row = r, plays[k].version = sent'[r][j]
        PROVE  sent'[r][j] <= row[r]
    BY <2>2
  <2> QED
    BY <1>3, <2>1, <2>2
<1> QED
  BY <1>3, <1>4, <1>5, <1>6

\* The head of the stream is taken; what is left comes after it.
LEMMA OrderHead ==
  ASSUME OrderInv, stream # << >>, stream' = Tail(stream), UNCHANGED row
  PROVE  /\ StreamInOrder'
         /\ \A k \in DOMAIN stream' : stream'[k] \in Plays =>
              /\ stream'[k].version <= row[stream'[k].row]
              /\ \A j \in DOMAIN sent[stream'[k].row] :
                   sent[stream'[k].row][j] < stream'[k].version
              /\ \A i \in Reads : \A j \in DOMAIN reads[i].waiters :
                   reads[i].waiters[j].row = stream'[k].row
                     => reads[i].waiters[j].version < stream'[k].version
              /\ Head(stream) \in Plays /\ stream'[k].row = Head(stream).row
                   => Head(stream).version < stream'[k].version
         /\ Head(stream) \in Plays =>
              /\ Head(stream).row \in Rows /\ Head(stream).version \in Nat
              /\ Head(stream).version <= row[Head(stream).row]
              /\ \A j \in DOMAIN sent[Head(stream).row] :
                   sent[Head(stream).row][j] < Head(stream).version
              /\ \A i \in Reads : \A j \in DOMAIN reads[i].waiters :
                   reads[i].waiters[j].row = Head(stream).row
                     => reads[i].waiters[j].version < Head(stream).version
<1>1. StreamInOrder /\ StreamIsAhead
  BY DEF OrderInv
<1>2. /\ Head(stream) = stream[1] /\ 1 \in DOMAIN stream
      /\ \A k \in DOMAIN stream' : /\ k \in Nat /\ k + 1 \in DOMAIN stream /\ 1 < k + 1
                                   /\ stream'[k] = stream[k + 1]
  <2>1. stream \in Seq(Plays \cup Changes)
    BY OrderTypes
  <2> QED
    BY <2>1
<1>3. StreamInOrder'
  <2> SUFFICES ASSUME NEW j \in DOMAIN stream', NEW k \in DOMAIN stream',
                      stream'[j] \in Plays, stream'[k] \in Plays,
                      stream'[j].row = stream'[k].row, j < k
               PROVE  stream'[j].version < stream'[k].version
    BY DEF StreamInOrder
  <2>1. j + 1 < k + 1 /\ j + 1 \in DOMAIN stream /\ k + 1 \in DOMAIN stream
    BY <1>2
  <2> QED
    BY <1>1, <1>2, <2>1 DEF StreamInOrder
<1>4. ASSUME NEW k \in DOMAIN stream', stream'[k] \in Plays
      PROVE  /\ stream'[k].version <= row[stream'[k].row]
             /\ \A j \in DOMAIN sent[stream'[k].row] :
                  sent[stream'[k].row][j] < stream'[k].version
             /\ \A i \in Reads : \A j \in DOMAIN reads[i].waiters :
                  reads[i].waiters[j].row = stream'[k].row
                    => reads[i].waiters[j].version < stream'[k].version
             /\ Head(stream) \in Plays /\ stream'[k].row = Head(stream).row
                  => Head(stream).version < stream'[k].version
  <2>1. k + 1 \in DOMAIN stream /\ stream'[k] = stream[k + 1] /\ stream[k + 1] \in Plays
    BY <1>2, <1>4
  <2>2. Head(stream) \in Plays /\ stream'[k].row = Head(stream).row
          => Head(stream).version < stream'[k].version
    BY <1>1, <1>2, <2>1 DEF StreamInOrder
  <2> QED
    BY <1>1, <2>1, <2>2 DEF StreamIsAhead
<1>5. Head(stream) \in Plays =>
        /\ Head(stream).row \in Rows /\ Head(stream).version \in Nat
        /\ Head(stream).version <= row[Head(stream).row]
        /\ \A j \in DOMAIN sent[Head(stream).row] :
             sent[Head(stream).row][j] < Head(stream).version
        /\ \A i \in Reads : \A j \in DOMAIN reads[i].waiters :
             reads[i].waiters[j].row = Head(stream).row
               => reads[i].waiters[j].version < Head(stream).version
  BY <1>1, <1>2, PlaysFacts DEF StreamIsAhead
<1> QED
  BY <1>3, <1>4, <1>5

\* A row whose album is in the cache, or that has none, goes out at once: no
\* version of it waits.
LEMMA OrderAtOnce ==
  ASSUME OrderInv, FreshInv', HandlePlay, BroadcastAtOnce(Head(stream))
  PROVE  OrderInv'
<1> DEFINE e == Head(stream)
<1>1. /\ StreamInOrder /\ StreamIsAhead /\ HandledAreWritten /\ WaitersAreApart
      /\ OneReadAtATime /\ WaitersInOrder /\ RowsInOrder /\ sent \in [Rows -> Seq(Nat)] /\ FreshInv
  BY DEF OrderInv
<1>2. /\ UNCHANGED <<row, flags, cache, heard, inflight, reads>> /\ Broadcast(<<e>>)
      /\ AlbumOf[e.row] # NoAlbum => cache[AlbumOf[e.row]] # {}
      /\ stream # << >> /\ stream' = Tail(stream)
  BY DEF HandlePlay, BroadcastAtOnce
<1>3. e \in Plays
  BY <1>1, HeadLeaves, Kinds DEF HandlePlay
<1>4. /\ e.row \in Rows /\ e.version \in Nat /\ e.version <= row[e.row]
      /\ \A j \in DOMAIN sent[e.row] : sent[e.row][j] < e.version
      /\ \A i \in Reads : \A j \in DOMAIN reads[i].waiters :
           reads[i].waiters[j].row = e.row => reads[i].waiters[j].version < e.version
  BY <1>2, <1>3, OrderHead
<1>5. /\ StreamInOrder'
      /\ \A k \in DOMAIN stream' : stream'[k] \in Plays =>
           /\ stream'[k].version <= row[stream'[k].row]
           /\ \A j \in DOMAIN sent[stream'[k].row] :
                sent[stream'[k].row][j] < stream'[k].version
           /\ \A i \in Reads : \A j \in DOMAIN reads[i].waiters :
                reads[i].waiters[j].row = stream'[k].row
                  => reads[i].waiters[j].version < stream'[k].version
           /\ stream'[k].row = e.row => e.version < stream'[k].version
  BY <1>2, <1>3, OrderHead
<1> HIDE DEF e
<1>6. /\ sent' \in [Rows -> Seq(Nat)] /\ RowsInOrder'
      /\ \A r \in Rows : \A j \in DOMAIN sent'[r] : sent'[r][j] <= row[r]
      /\ \A r \in Rows : \A j \in DOMAIN sent'[r] :
           \/ j \in DOMAIN sent[r] /\ sent'[r][j] = sent[r][j]
           \/ r = e.row /\ sent'[r][j] = e.version
  <2> DEFINE plays == <<e>>
  <2>1. plays \in Seq(Plays) /\ DOMAIN plays = {1} /\ plays[1] = e
    BY <1>3
  <2>2. Broadcast(plays) /\ UNCHANGED heard
    BY <1>2
  <2> HIDE DEF plays
  <2>3. \A j \in DOMAIN sent[e.row] : sent[e.row][j] # e.version
    BY <1>4, OrderTypes
  <2>4. /\ \A k, l \in DOMAIN plays : plays[k] = plays[l] => k = l
        /\ \A k \in DOMAIN plays : /\ plays[k].version <= row[plays[k].row]
                                   /\ \A j \in DOMAIN sent[plays[k].row] :
                                        sent[plays[k].row][j] # plays[k].version
        /\ \A r \in Rows : AlbumOf[r] = NoAlbum \/ heard[AlbumOf[r]] = 0 =>
             /\ \A k, l \in DOMAIN plays :
                  plays[k].row = r /\ plays[l].row = r /\ k < l => plays[k].version < plays[l].version
             /\ \A k \in DOMAIN plays : plays[k].row = r =>
                  \A j \in DOMAIN sent[r] : sent[r][j] < plays[k].version
    BY <1>4, <2>1, <2>3
  <2>5. /\ sent' \in [Rows -> Seq(Nat)] /\ RowsInOrder'
        /\ \A r \in Rows : \A j \in DOMAIN sent'[r] : sent'[r][j] <= row[r]
        /\ \A r \in Rows : \A j \in DOMAIN sent'[r] :
             \/ j \in DOMAIN sent[r] /\ sent'[r][j] = sent[r][j]
             \/ \E k \in DOMAIN plays : plays[k].row = r /\ plays[k].version = sent'[r][j]
    BY <2>1, <2>2, <2>4, OrderBroadcast
  <2> QED
    BY <2>1, <2>5
<1>7. HandledAreWritten'
  BY <1>1, <1>2, <1>6 DEF HandledAreWritten
<1>8. StreamIsAhead'
  <2> SUFFICES ASSUME NEW k \in DOMAIN stream', stream'[k] \in Plays
               PROVE  \A j \in DOMAIN sent'[stream'[k].row] :
                        sent'[stream'[k].row][j] < stream'[k].version
    BY <1>2, <1>5 DEF StreamIsAhead
  <2>1. stream'[k].row \in Rows
    BY PlaysFacts
  <2> QED
    BY <1>5, <1>6, <2>1
<1>9. WaitersAreApart'
  <2>1. ASSUME NEW i \in Reads, NEW j \in DOMAIN reads[i].waiters,
               NEW k \in DOMAIN sent'[reads[i].waiters[j].row]
        PROVE  sent'[reads[i].waiters[j].row][k] # reads[i].waiters[j].version
    <3> DEFINE w == reads[i].waiters[j]
    <3>1. w.row \in Rows /\ w.version \in Nat
      BY OrderTypes
    <3>2. w.row = e.row => w.version # e.version
      BY <1>4, <3>1
    <3>3. \A l \in DOMAIN sent[w.row] : sent[w.row][l] # w.version
      BY <1>1 DEF WaitersAreApart
    <3> HIDE DEF w
    <3>4. \A l \in DOMAIN sent'[w.row] : sent'[w.row][l] # w.version
      BY <1>6, <3>1, <3>2, <3>3
    <3> QED
      BY <3>4 DEF w
  <2>2. /\ \A i \in Reads : \A j \in DOMAIN reads'[i].waiters :
             AlbumOf[reads'[i].waiters[j].row] = reads'[i].album /\ UnderWay(i)'
        /\ \A h, i \in Reads : \A j \in DOMAIN reads'[h].waiters, k \in DOMAIN reads'[i].waiters :
             reads'[h].waiters[j] = reads'[i].waiters[k] => h = i /\ j = k
    <3>1. reads' = reads
      BY <1>2
    <3> QED
      BY <1>1, <3>1 DEF WaitersAreApart, UnderWay
  <2>3. \A i \in Reads : \A j \in DOMAIN reads'[i].waiters :
          \A k \in DOMAIN sent'[reads'[i].waiters[j].row] :
            sent'[reads'[i].waiters[j].row][k] # reads'[i].waiters[j].version
    <3>1. reads' = reads
      BY <1>2
    <3> QED
      BY <2>1, <3>1
  <2> QED
    BY <2>2, <2>3, Zenon DEF WaitersAreApart
<1>10. WaitersInOrder'
  <2> SUFFICES ASSUME NEW i \in Reads, UnderWay(i), heard[reads[i].album] = 0,
                      NEW k \in DOMAIN reads[i].waiters,
                      NEW j \in DOMAIN sent'[reads[i].waiters[k].row]
               PROVE  sent'[reads[i].waiters[k].row][j] < reads[i].waiters[k].version
    BY <1>1, <1>2 DEF WaitersInOrder, UnderWay
  <2> DEFINE w == reads[i].waiters[k]
  <2>1. /\ w.row \in Rows /\ AlbumOf[w.row] = reads[i].album /\ reads[i].album # NoAlbum
        /\ cache[reads[i].album] = {}
    BY <1>1, OrderTypes DEF WaitersAreApart, OneReadAtATime, UnderWay
  <2>2. w.row # e.row
    BY <1>2, <2>1
  <2>3. j \in DOMAIN sent[w.row] /\ sent'[w.row][j] = sent[w.row][j]
    BY <1>6, <2>1, <2>2
  <2>4. sent[w.row][j] < w.version
    BY <1>1, <2>3 DEF WaitersInOrder
  <2> QED
    BY <2>3, <2>4
<1>11. OneReadAtATime'
  BY <1>1, <1>2 DEF OneReadAtATime, UnderWay
<1> QED
  BY <1>5, <1>6, <1>7, <1>8, <1>9, <1>10, <1>11 DEF OrderInv

\* A row that waits comes after all that wait for the same read.
LEMMA OrderWaits ==
  ASSUME OrderInv, FreshInv', HandlePlay, UNCHANGED sent,
         NEW t \in Reads, NEW old \in Seq(Plays),
         AlbumOf[Head(stream).row] # NoAlbum,
         \/ UnderWay(t) /\ old = reads[t].waiters /\ reads[t].album = AlbumOf[Head(stream).row]
         \/ ~UnderWay(t) /\ old = << >> /\ cache[AlbumOf[Head(stream).row]] = {},
         reads'[t].waiters = Append(old, Head(stream)),
         reads'[t].album = AlbumOf[Head(stream).row],
         UnderWay(t) => reads'[t].poisoned = reads[t].poisoned,
         ~UnderWay(t) => ~reads'[t].poisoned,
         \A i \in Reads \ {t} : reads'[i] = reads[i]
  PROVE  OrderInv'
<1> DEFINE e == Head(stream)
<1>1. /\ StreamInOrder /\ StreamIsAhead /\ HandledAreWritten /\ WaitersAreApart
      /\ OneReadAtATime /\ WaitersInOrder /\ RowsInOrder /\ sent \in [Rows -> Seq(Nat)] /\ FreshInv
  BY DEF OrderInv
<1>2. /\ UNCHANGED <<row, flags, cache, heard, sent>>
      /\ stream # << >> /\ stream' = Tail(stream)
  BY DEF HandlePlay
<1>3. e \in Plays
  BY <1>1, HeadLeaves, Kinds DEF HandlePlay
<1>4. /\ e.row \in Rows /\ e.version \in Nat /\ e.version <= row[e.row]
      /\ \A j \in DOMAIN sent[e.row] : sent[e.row][j] < e.version
      /\ \A i \in Reads : \A j \in DOMAIN reads[i].waiters :
           reads[i].waiters[j].row = e.row => reads[i].waiters[j].version < e.version
  BY <1>2, <1>3, OrderHead
<1>5. /\ StreamInOrder'
      /\ \A k \in DOMAIN stream' : stream'[k] \in Plays =>
           /\ stream'[k].version <= row[stream'[k].row]
           /\ \A j \in DOMAIN sent[stream'[k].row] :
                sent[stream'[k].row][j] < stream'[k].version
           /\ \A i \in Reads : \A j \in DOMAIN reads[i].waiters :
                reads[i].waiters[j].row = stream'[k].row
                  => reads[i].waiters[j].version < stream'[k].version
           /\ stream'[k].row = e.row => e.version < stream'[k].version
  BY <1>2, <1>3, OrderHead
<1> HIDE DEF e
<1> DEFINE new == reads'[t].waiters
<1>6. /\ new = Append(old, e) /\ reads'[t].album = AlbumOf[e.row] /\ AlbumOf[e.row] # NoAlbum
      /\ UnderWay(t) => reads[t].album = AlbumOf[e.row]
  BY DEF e
<1>7. Len(old) \in Nat /\ DOMAIN old = 1 .. Len(old)
  OBVIOUS
<1>8. /\ DOMAIN new = 1 .. (Len(old) + 1) /\ new[Len(old) + 1] = e
      /\ \A j \in DOMAIN old : j \in DOMAIN new /\ new[j] = old[j]
      /\ \A j \in DOMAIN new : j \in DOMAIN old \/ j = Len(old) + 1
  BY <1>3, <1>6, <1>7, AppendProperties
<1>9. \A j \in DOMAIN old : /\ UnderWay(t) /\ j \in DOMAIN reads[t].waiters
                            /\ old[j] = reads[t].waiters[j] /\ j < Len(old) + 1
  BY <1>7
<1> HIDE DEF new
<1>10. \A i \in Reads \ {t} : /\ reads'[i] = reads[i] /\ UnderWay(i)' = UnderWay(i)
  BY DEF UnderWay
<1>11. UnderWay(t)'
  BY <1>6 DEF UnderWay
\* What waits after the step waited before, or is the row that comes.
<1>12. ASSUME NEW i \in Reads, NEW j \in DOMAIN reads'[i].waiters
       PROVE  \/ /\ j \in DOMAIN reads[i].waiters /\ reads'[i].waiters[j] = reads[i].waiters[j]
                 /\ UnderWay(i) /\ reads'[i].album = reads[i].album
              \/ i = t /\ j = Len(old) + 1 /\ reads'[i].waiters[j] = e
  <2>1. CASE i = t
    BY <1>6, <1>8, <1>9, <2>1 DEF new
  <2>2. CASE i # t
    BY <1>1, <1>10, <2>2 DEF WaitersAreApart
  <2> QED
    BY <2>1, <2>2
<1>13. HandledAreWritten'
  <2> SUFFICES ASSUME NEW i \in Reads, NEW j \in DOMAIN reads'[i].waiters
               PROVE  reads'[i].waiters[j].version <= row[reads'[i].waiters[j].row]
    BY <1>1, <1>2 DEF HandledAreWritten
  <2> QED
    BY <1>1, <1>4, <1>12 DEF HandledAreWritten
<1>14. StreamIsAhead'
  <2> SUFFICES ASSUME NEW k \in DOMAIN stream', stream'[k] \in Plays, NEW i \in Reads,
                      NEW j \in DOMAIN reads'[i].waiters,
                      reads'[i].waiters[j].row = stream'[k].row
               PROVE  reads'[i].waiters[j].version < stream'[k].version
    BY <1>2, <1>5 DEF StreamIsAhead
  <2> QED
    BY <1>5, <1>12
<1>15. WaitersAreApart'
  <2>1. ASSUME NEW i \in Reads, NEW j \in DOMAIN reads'[i].waiters
        PROVE  /\ AlbumOf[reads'[i].waiters[j].row] = reads'[i].album /\ UnderWay(i)'
               /\ \A k \in DOMAIN sent[reads'[i].waiters[j].row] :
                    sent[reads'[i].waiters[j].row][k] # reads'[i].waiters[j].version
    <3>1. CASE /\ j \in DOMAIN reads[i].waiters /\ reads'[i].waiters[j] = reads[i].waiters[j]
               /\ UnderWay(i) /\ reads'[i].album = reads[i].album
      <4> DEFINE w == reads[i].waiters[j]
      <4>1. /\ AlbumOf[w.row] = reads[i].album /\ UnderWay(i)
            /\ \A k \in DOMAIN sent[w.row] : sent[w.row][k] # w.version
        BY <1>1, <3>1, Zenon DEF WaitersAreApart
      <4>2. UnderWay(i)'
        BY <3>1 DEF UnderWay
      <4> QED
        BY <3>1, <4>1, <4>2
    <3>2. CASE i = t /\ j = Len(old) + 1 /\ reads'[i].waiters[j] = e
      BY <1>4, <1>6, <1>11, <3>2, OrderTypes
    <3> QED
      BY <1>12, <3>1, <3>2
  <2>2. ASSUME NEW h \in Reads, NEW i \in Reads, NEW j \in DOMAIN reads'[h].waiters,
               NEW k \in DOMAIN reads'[i].waiters, reads'[h].waiters[j] = reads'[i].waiters[k]
        PROVE  h = i /\ j = k
    <3>1. \A x \in Reads : \A l \in DOMAIN reads[x].waiters : reads[x].waiters[l] # e
      <4> SUFFICES ASSUME NEW x \in Reads, NEW l \in DOMAIN reads[x].waiters,
                          reads[x].waiters[l] = e
                   PROVE  FALSE
        OBVIOUS
      <4>1. e.version < e.version
        BY <1>4, Zenon
      <4> QED
        BY <1>4, <4>1
    <3>2. CASE reads'[h].waiters[j] = e
      <4>1. h = t /\ j = Len(old) + 1
        BY <1>12, <3>1, <3>2, Zenon
      <4>2. reads'[i].waiters[k] = e
        BY <2>2, <3>2
      <4>3. i = t /\ k = Len(old) + 1
        BY <1>12, <3>1, <4>2, Zenon
      <4> QED
        BY <4>1, <4>3
    <3>3. CASE reads'[h].waiters[j] # e
      BY <1>1, <1>12, <2>2, <3>3 DEF WaitersAreApart
    <3> QED
      BY <3>2, <3>3
  <2> QED
    BY <1>2, <2>1, <2>2, ApartAgain
<1>16. OneReadAtATime'
  <2> SUFFICES ASSUME NEW i \in Reads, UnderWay(i)', heard[reads'[i].album] = 0
               PROVE  ~reads'[i].poisoned /\ cache[reads'[i].album] = {}
    BY <1>2 DEF OneReadAtATime
  <2>1. CASE i = t /\ ~UnderWay(t)
    BY <1>6, <2>1 DEF e
  <2>2. CASE UnderWay(i) /\ reads'[i].album = reads[i].album /\ reads'[i].poisoned = reads[i].poisoned
    BY <1>1, <2>2 DEF OneReadAtATime
  <2> QED
    BY <1>6, <1>10, <2>1, <2>2
<1>17. WaitersInOrder'
  <2> SUFFICES ASSUME NEW i \in Reads, UnderWay(i)', heard[reads'[i].album] = 0,
                      NEW k \in DOMAIN reads'[i].waiters
               PROVE  /\ \A j \in DOMAIN sent[reads'[i].waiters[k].row] :
                           sent[reads'[i].waiters[k].row][j] < reads'[i].waiters[k].version
                      /\ \A j \in DOMAIN reads'[i].waiters :
                           reads'[i].waiters[j].row = reads'[i].waiters[k].row /\ j < k
                             => reads'[i].waiters[j].version < reads'[i].waiters[k].version
    BY <1>2 DEF WaitersInOrder
  <2>1. CASE i = t /\ k = Len(old) + 1 /\ reads'[i].waiters[k] = e
    BY <1>4, <1>12, <2>1, SMTT(20)
  <2>2. CASE /\ k \in DOMAIN reads[i].waiters /\ reads'[i].waiters[k] = reads[i].waiters[k]
             /\ UnderWay(i) /\ reads'[i].album = reads[i].album
    <3>1. ASSUME NEW j \in DOMAIN reads'[i].waiters, j < k
          PROVE  j \in DOMAIN reads[i].waiters /\ reads'[i].waiters[j] = reads[i].waiters[j]
      <4>1. i = t => k \in DOMAIN old
        BY <1>6, <2>2
      <4>2. ~(i = t /\ j = Len(old) + 1)
        BY <1>7, <3>1, <4>1
      <4> QED
        BY <1>12, <4>2
    <3> QED
      BY <1>1, <2>2, <3>1 DEF WaitersInOrder
  <2> QED
    BY <1>12, <2>1, <2>2
<1>18. RowsInOrder' /\ sent' \in [Rows -> Seq(Nat)]
  BY <1>1, <1>2 DEF RowsInOrder
<1> QED
  BY <1>5, <1>13, <1>14, <1>15, <1>16, <1>17, <1>18 DEF OrderInv

\* What leaves the rows, what was sent and what waits as they are, and takes the
\* stream, its head or nothing away.
LEMMA OrderSame ==
  ASSUME OrderInv, FreshInv', UNCHANGED <<row, sent, heard>>,
         stream' \in {stream, << >>} \/ (stream # << >> /\ stream' = Tail(stream)),
         \A b \in Albums : cache[b] = {} => cache'[b] = {},
         \A i \in Reads : /\ reads'[i].waiters = reads[i].waiters
                           /\ reads'[i].album = reads[i].album
                           /\ reads'[i].poisoned = reads[i].poisoned
  PROVE  OrderInv'
<1>1. /\ StreamInOrder /\ StreamIsAhead /\ HandledAreWritten /\ WaitersAreApart
      /\ OneReadAtATime /\ WaitersInOrder /\ RowsInOrder /\ sent \in [Rows -> Seq(Nat)] /\ Shape
  BY DEF OrderInv, FreshInv
<1>2. \A i \in Reads : /\ UnderWay(i)' = UnderWay(i)
                       /\ UnderWay(i) => reads[i].album \in Albums
  BY <1>1 DEF UnderWay, Shape, ReadStates
<1>3. RowsInOrder' /\ sent' \in [Rows -> Seq(Nat)]
  BY <1>1 DEF RowsInOrder
<1>4. ASSUME NEW i \in Reads, NEW j \in DOMAIN reads'[i].waiters
      PROVE  /\ reads'[i].waiters[j].version <= row[reads'[i].waiters[j].row]
             /\ AlbumOf[reads'[i].waiters[j].row] = reads'[i].album /\ UnderWay(i)'
             /\ \A k \in DOMAIN sent[reads'[i].waiters[j].row] :
                  sent[reads'[i].waiters[j].row][k] # reads'[i].waiters[j].version
  <2>1. j \in DOMAIN reads[i].waiters
    OBVIOUS
  <2>2. /\ reads[i].waiters[j].version <= row[reads[i].waiters[j].row]
        /\ AlbumOf[reads[i].waiters[j].row] = reads[i].album /\ UnderWay(i)
        /\ \A k \in DOMAIN sent[reads[i].waiters[j].row] :
             sent[reads[i].waiters[j].row][k] # reads[i].waiters[j].version
    BY <1>1, <2>1, Zenon DEF HandledAreWritten, WaitersAreApart
  <2> QED
    BY <1>2, <2>2
<1>5. HandledAreWritten'
  BY <1>1, <1>4 DEF HandledAreWritten
<1>6. WaitersAreApart'
  <2>1. ASSUME NEW h \in Reads, NEW i \in Reads, NEW j \in DOMAIN reads'[h].waiters,
               NEW k \in DOMAIN reads'[i].waiters, reads'[h].waiters[j] = reads'[i].waiters[k]
        PROVE  h = i /\ j = k
    BY <1>1, <2>1 DEF WaitersAreApart
  <2> QED
    BY <1>4, <2>1, ApartAgain
<1>7. StreamIsAhead'
  <2> SUFFICES ASSUME NEW k \in DOMAIN stream', stream'[k] \in Plays
               PROVE  /\ stream'[k].version <= row[stream'[k].row]
                      /\ \A j \in DOMAIN sent[stream'[k].row] :
                           sent[stream'[k].row][j] < stream'[k].version
                      /\ \A i \in Reads : \A j \in DOMAIN reads'[i].waiters :
                           reads'[i].waiters[j].row = stream'[k].row
                             => reads'[i].waiters[j].version < stream'[k].version
    BY DEF StreamIsAhead
  <2>1. /\ stream'[k].version <= row[stream'[k].row]
        /\ \A j \in DOMAIN sent[stream'[k].row] :
             sent[stream'[k].row][j] < stream'[k].version
        /\ \A i \in Reads : \A j \in DOMAIN reads[i].waiters :
             reads[i].waiters[j].row = stream'[k].row
               => reads[i].waiters[j].version < stream'[k].version
    <3>1. CASE stream' = stream
      BY <1>1, <3>1, Zenon DEF StreamIsAhead
    <3>2. CASE stream' = << >>
      BY <3>2
    <3>3. CASE stream # << >> /\ stream' = Tail(stream)
      BY <3>3, OrderHead
    <3> QED
      BY <3>1, <3>2, <3>3
  <2>2. ASSUME NEW i \in Reads, NEW j \in DOMAIN reads'[i].waiters,
               reads'[i].waiters[j].row = stream'[k].row
        PROVE  reads'[i].waiters[j].version < stream'[k].version
    <3>1. reads'[i].waiters = reads[i].waiters
      OBVIOUS
    <3> QED
      BY <2>1, <2>2, <3>1
  <2> QED
    BY <2>1, <2>2
<1>8. OneReadAtATime'
  BY <1>1, <1>2 DEF OneReadAtATime
<1>9. WaitersInOrder'
  <2> SUFFICES ASSUME NEW i \in Reads, UnderWay(i)', heard[reads'[i].album] = 0,
                      NEW k \in DOMAIN reads'[i].waiters
               PROVE  /\ \A j \in DOMAIN sent[reads'[i].waiters[k].row] :
                           sent[reads'[i].waiters[k].row][j] < reads'[i].waiters[k].version
                      /\ \A j \in DOMAIN reads'[i].waiters :
                           reads'[i].waiters[j].row = reads'[i].waiters[k].row /\ j < k
                             => reads'[i].waiters[j].version < reads'[i].waiters[k].version
    BY DEF WaitersInOrder
  <2>1. reads'[i].waiters = reads[i].waiters /\ reads'[i].album = reads[i].album /\ UnderWay(i)
    BY <1>2
  <2> QED
    BY <1>1, <2>1 DEF WaitersInOrder
<1>10. StreamInOrder'
  <2>1. CASE stream' = stream
    BY <1>1, <2>1 DEF StreamInOrder
  <2>2. CASE stream' = << >>
    BY <2>2 DEF StreamInOrder
  <2>3. CASE stream # << >> /\ stream' = Tail(stream)
    BY <2>3, OrderHead
  <2> QED
    BY <2>1, <2>2, <2>3
<1> QED
  BY <1>3, <1>5, <1>6, <1>7, <1>8, <1>9, <1>10 DEF OrderInv

\* A change is heard: no order is due any longer to the rows of that album.
LEMMA OrderChange ==
  ASSUME OrderInv, FreshInv', HandleChange
  PROVE  OrderInv'
<1> DEFINE a == Head(stream).album
<1>1. /\ StreamInOrder /\ StreamIsAhead /\ HandledAreWritten /\ WaitersAreApart
      /\ OneReadAtATime /\ WaitersInOrder /\ RowsInOrder /\ sent \in [Rows -> Seq(Nat)]
      /\ FreshInv /\ Shape /\ JoinedAreUnderWay
  BY DEF OrderInv, FreshInv
<1>2. /\ UNCHANGED <<row, flags, sent, lost>> /\ stream # << >> /\ stream' = Tail(stream)
      /\ ~IsPlay(Head(stream)) /\ cache' = [cache EXCEPT ![a] = {}]
      /\ heard' = [heard EXCEPT ![a] = Head(stream).version]
      /\ reads' = IF inflight[a] = NoRead THEN reads
                  ELSE [reads EXCEPT ![inflight[a]].poisoned = TRUE]
  BY DEF HandleChange, Invalidate
<1>3. a \in Albums /\ Head(stream).version # 0
  <2>1. Head(stream) \in Changes
    BY <1>1, <1>2, HeadLeaves, Kinds
  <2> QED
    BY <2>1 DEF Changes
<1>4. /\ StreamInOrder'
      /\ \A k \in DOMAIN stream' : stream'[k] \in Plays =>
           /\ stream'[k].version <= row[stream'[k].row]
           /\ \A j \in DOMAIN sent[stream'[k].row] :
                sent[stream'[k].row][j] < stream'[k].version
           /\ \A i \in Reads : \A j \in DOMAIN reads[i].waiters :
                reads[i].waiters[j].row = stream'[k].row
                  => reads[i].waiters[j].version < stream'[k].version
  BY <1>2, OrderHead
<1> HIDE DEF a
<1>5. /\ \A b \in Albums : heard'[b] = 0 => b # a /\ heard[b] = 0
      /\ \A b \in Albums : b # a => cache'[b] = cache[b]
  BY <1>1, <1>2, <1>3 DEF Shape
<1>6. \A i \in Reads : /\ reads'[i].waiters = reads[i].waiters /\ reads'[i].album = reads[i].album
                       /\ reads[i].album # a => reads'[i].poisoned = reads[i].poisoned
  <2> SUFFICES ASSUME NEW i \in Reads
               PROVE  /\ reads'[i].waiters = reads[i].waiters /\ reads'[i].album = reads[i].album
                      /\ reads[i].album # a => reads'[i].poisoned = reads[i].poisoned
    OBVIOUS
  <2>1. CASE inflight[a] = NoRead
    BY <1>2, <2>1
  <2>2. CASE inflight[a] # NoRead
    <3>1. reads[inflight[a]].album = a /\ inflight[a] \in Reads
      BY <1>1, <1>3, <2>2 DEF JoinedAreUnderWay, Shape
    <3>2. reads[i] \in ReadStates /\ reads \in [Reads -> ReadStates]
      BY <1>1 DEF Shape
    <3>3. reads' = [reads EXCEPT ![inflight[a]] = [reads[inflight[a]] EXCEPT !.poisoned = TRUE]]
      BY <1>2, <2>2
    <3> QED
      BY <3>1, <3>2, <3>3 DEF ReadStates
  <2> QED
    BY <2>1, <2>2
<1>7. /\ \A i \in Reads : UnderWay(i)' = UnderWay(i)
      /\ \A i \in Reads : reads[i].album \in Albums \cup {NoAlbum}
  BY <1>1, <1>6 DEF UnderWay, Shape, ReadStates
<1>8. HandledAreWritten' /\ StreamIsAhead'
  <2>1. ASSUME NEW i \in Reads, NEW j \in DOMAIN reads'[i].waiters
        PROVE  reads'[i].waiters[j].version <= row[reads'[i].waiters[j].row]
    <3>1. reads'[i].waiters = reads[i].waiters
      BY <1>6
    <3> QED
      BY <1>1, <3>1 DEF HandledAreWritten
  <2>2. HandledAreWritten'
    BY <1>1, <1>2, <2>1 DEF HandledAreWritten
  <2>3. ASSUME NEW k \in DOMAIN stream', stream'[k] \in Plays, NEW i \in Reads,
               NEW j \in DOMAIN reads'[i].waiters, reads'[i].waiters[j].row = stream'[k].row
        PROVE  reads'[i].waiters[j].version < stream'[k].version
    <3>1. reads'[i].waiters = reads[i].waiters
      BY <1>6
    <3> QED
      BY <1>4, <2>3, <3>1
  <2>4. StreamIsAhead'
    BY <1>2, <1>4, <2>3 DEF StreamIsAhead
  <2> QED
    BY <2>2, <2>4
<1>9. WaitersAreApart'
  <2>1. ASSUME NEW i \in Reads, NEW j \in DOMAIN reads'[i].waiters
        PROVE  /\ AlbumOf[reads'[i].waiters[j].row] = reads'[i].album /\ UnderWay(i)'
               /\ \A k \in DOMAIN sent[reads'[i].waiters[j].row] :
                    sent[reads'[i].waiters[j].row][k] # reads'[i].waiters[j].version
    <3>1. reads'[i].waiters = reads[i].waiters /\ reads'[i].album = reads[i].album
      BY <1>6
    <3>2. UnderWay(i)' = UnderWay(i)
      BY <1>7
    <3>3. /\ AlbumOf[reads[i].waiters[j].row] = reads[i].album /\ UnderWay(i)
          /\ \A k \in DOMAIN sent[reads[i].waiters[j].row] :
               sent[reads[i].waiters[j].row][k] # reads[i].waiters[j].version
      BY <1>1, <3>1, Zenon DEF WaitersAreApart
    <3> QED
      BY <3>1, <3>2, <3>3
  <2>2. ASSUME NEW h \in Reads, NEW i \in Reads, NEW j \in DOMAIN reads'[h].waiters,
               NEW k \in DOMAIN reads'[i].waiters, reads'[h].waiters[j] = reads'[i].waiters[k]
        PROVE  h = i /\ j = k
    <3>1. reads'[h].waiters = reads[h].waiters /\ reads'[i].waiters = reads[i].waiters
      BY <1>6
    <3> QED
      BY <1>1, <2>2, <3>1 DEF WaitersAreApart
  <2>3. sent' = sent
    BY <1>2
  <2> QED
    BY <2>1, <2>2, <2>3, ApartAgain
<1>10. OneReadAtATime'
  <2> SUFFICES ASSUME NEW i \in Reads, UnderWay(i), heard'[reads[i].album] = 0
               PROVE  ~reads'[i].poisoned /\ cache'[reads[i].album] = {}
    BY <1>6, <1>7 DEF OneReadAtATime
  <2>1. reads[i].album \in Albums
    BY <1>7 DEF UnderWay
  <2> QED
    BY <1>1, <1>5, <1>6, <2>1 DEF OneReadAtATime
<1>11. WaitersInOrder'
  <2> SUFFICES ASSUME NEW i \in Reads, UnderWay(i)', heard'[reads'[i].album] = 0,
                      NEW k \in DOMAIN reads'[i].waiters
               PROVE  /\ \A j \in DOMAIN sent[reads'[i].waiters[k].row] :
                           sent[reads'[i].waiters[k].row][j] < reads'[i].waiters[k].version
                      /\ \A j \in DOMAIN reads'[i].waiters :
                           reads'[i].waiters[j].row = reads'[i].waiters[k].row /\ j < k
                             => reads'[i].waiters[j].version < reads'[i].waiters[k].version
    BY <1>2 DEF WaitersInOrder
  <2>1. reads'[i].waiters = reads[i].waiters /\ reads'[i].album = reads[i].album /\ UnderWay(i)
    BY <1>6, <1>7
  <2>2. reads[i].album \in Albums
    BY <1>7, <2>1 DEF UnderWay
  <2>3. heard[reads[i].album] = 0
    BY <1>5, <2>1, <2>2
  <2> QED
    BY <1>1, <2>1, <2>3 DEF WaitersInOrder
<1>12. RowsInOrder' /\ sent' \in [Rows -> Seq(Nat)]
  <2>1. \A r \in Rows : AlbumOf[r] = NoAlbum \/ AlbumOf[r] \in Albums
    BY FeedAssumption
  <2> QED
    BY <1>1, <1>2, <1>5, <2>1 DEF RowsInOrder
<1> QED
  BY <1>4, <1>8, <1>9, <1>10, <1>11, <1>12 DEF OrderInv

\* A read ends, with a flag or without, and what waited for it goes out.
LEMMA OrderOver ==
  ASSUME OrderInv, FreshInv', NEW t \in Reads, UNCHANGED <<row, stream, heard>>,
         reads' = [reads EXCEPT ![t] = FreeRead], Broadcast(reads[t].waiters),
         \/ cache' = cache
         \/ ~reads[t].poisoned /\ \A b \in Albums : b # reads[t].album => cache'[b] = cache[b]
  PROVE  OrderInv'
<1> DEFINE plays == reads[t].waiters
<1>1. /\ StreamInOrder /\ StreamIsAhead /\ HandledAreWritten /\ WaitersAreApart
      /\ OneReadAtATime /\ WaitersInOrder /\ RowsInOrder /\ sent \in [Rows -> Seq(Nat)]
      /\ FreshInv /\ Shape /\ ReadsAreFound
  BY DEF OrderInv, FreshInv
<1>2. plays \in Seq(Plays) /\ Broadcast(plays) /\ UNCHANGED heard
  BY OrderTypes
<1>3. \A k \in DOMAIN plays :
        /\ plays[k] \in Plays /\ plays[k].row \in Rows /\ plays[k].version \in Nat
        /\ AlbumOf[plays[k].row] = reads[t].album /\ plays[k].version <= row[plays[k].row]
        /\ \A j \in DOMAIN sent[plays[k].row] : sent[plays[k].row][j] # plays[k].version
  <2> SUFFICES ASSUME NEW k \in DOMAIN plays
               PROVE  /\ plays[k] \in Plays /\ plays[k].row \in Rows /\ plays[k].version \in Nat
                      /\ AlbumOf[plays[k].row] = reads[t].album
                      /\ plays[k].version <= row[plays[k].row]
                      /\ \A j \in DOMAIN sent[plays[k].row] :
                           sent[plays[k].row][j] # plays[k].version
    BY Zenon
  <2>1. plays[k] \in Plays /\ plays[k].row \in Rows /\ plays[k].version \in Nat
    BY OrderTypes, Zenon
  <2>2. plays[k].version <= row[plays[k].row]
    BY <1>1, Zenon DEF HandledAreWritten
  <2>3. /\ AlbumOf[plays[k].row] = reads[t].album
        /\ \A j \in DOMAIN sent[plays[k].row] : sent[plays[k].row][j] # plays[k].version
    BY <1>1, Zenon DEF WaitersAreApart
  <2> QED
    BY <2>1, <2>2, <2>3, Zenon
<1>4. /\ sent' \in [Rows -> Seq(Nat)] /\ RowsInOrder'
      /\ \A r \in Rows : \A j \in DOMAIN sent'[r] : sent'[r][j] <= row[r]
      /\ \A r \in Rows : \A j \in DOMAIN sent'[r] :
           \/ j \in DOMAIN sent[r] /\ sent'[r][j] = sent[r][j]
           \/ \E k \in DOMAIN plays : plays[k].row = r /\ plays[k].version = sent'[r][j]
  <2>1. \A k, l \in DOMAIN plays : plays[k] = plays[l] => k = l
    BY <1>1 DEF WaitersAreApart
  <2>2. ASSUME NEW r \in Rows, AlbumOf[r] = NoAlbum \/ heard[AlbumOf[r]] = 0
        PROVE  /\ \A k, l \in DOMAIN plays :
                    plays[k].row = r /\ plays[l].row = r /\ k < l => plays[k].version < plays[l].version
               /\ \A k \in DOMAIN plays : plays[k].row = r =>
                    \A j \in DOMAIN sent[r] : sent[r][j] < plays[k].version
    <3>1. CASE \E k \in DOMAIN plays : plays[k].row = r
      <4>1. AlbumOf[r] = reads[t].album /\ heard[reads[t].album] = 0 /\ UnderWay(t)
        BY <1>1, <1>3, <2>2, <3>1, SMTT(20) DEF UnderWay, WaitersAreApart
      <4> QED
        BY <1>1, <4>1 DEF WaitersInOrder
    <3> QED
      BY <3>1
  <2> HIDE DEF plays
  <2> QED
    BY <1>2, <1>3, <2>1, <2>2, OrderBroadcast
<1>5. /\ reads'[t] = FreeRead /\ reads'[t].waiters = << >> /\ ~UnderWay(t)'
      /\ \A i \in Reads \ {t} : reads'[i] = reads[i] /\ UnderWay(i)' = UnderWay(i)
  BY <1>1 DEF Shape, UnderWay, FreeRead
<1>6. HandledAreWritten'
  <2> SUFFICES ASSUME NEW i \in Reads, NEW j \in DOMAIN reads'[i].waiters
               PROVE  reads'[i].waiters[j].version <= row[reads'[i].waiters[j].row]
    BY <1>4 DEF HandledAreWritten
  <2>1. i # t
    BY <1>5
  <2> QED
    BY <1>1, <1>5, <2>1 DEF HandledAreWritten
<1>7. StreamIsAhead'
  <2> SUFFICES ASSUME NEW k \in DOMAIN stream, stream[k] \in Plays
               PROVE  /\ stream[k].version <= row[stream[k].row]
                      /\ \A j \in DOMAIN sent'[stream[k].row] :
                           sent'[stream[k].row][j] < stream[k].version
                      /\ \A i \in Reads : \A j \in DOMAIN reads'[i].waiters :
                           reads'[i].waiters[j].row = stream[k].row
                             => reads'[i].waiters[j].version < stream[k].version
    BY DEF StreamIsAhead
  <2>1. stream[k].version <= row[stream[k].row] /\ stream[k].row \in Rows
    BY <1>1, PlaysFacts DEF StreamIsAhead
  <2>2. \A i \in Reads : \A j \in DOMAIN reads[i].waiters :
          reads[i].waiters[j].row = stream[k].row => reads[i].waiters[j].version < stream[k].version
    BY <1>1 DEF StreamIsAhead
  <2>3. \A j \in DOMAIN sent[stream[k].row] : sent[stream[k].row][j] < stream[k].version
    BY <1>1 DEF StreamIsAhead
  <2>4. ASSUME NEW j \in DOMAIN sent'[stream[k].row]
        PROVE  sent'[stream[k].row][j] < stream[k].version
    <3>1. CASE j \in DOMAIN sent[stream[k].row] /\ sent'[stream[k].row][j] = sent[stream[k].row][j]
      BY <2>3, <3>1
    <3>2. CASE \E l \in DOMAIN plays :
                 plays[l].row = stream[k].row /\ plays[l].version = sent'[stream[k].row][j]
      BY <2>2, <3>2
    <3> QED
      BY <1>4, <2>1, <3>1, <3>2, SMTT(20)
  <2>5. ASSUME NEW i \in Reads, NEW j \in DOMAIN reads'[i].waiters,
               reads'[i].waiters[j].row = stream[k].row
        PROVE  reads'[i].waiters[j].version < stream[k].version
    BY <1>5, <2>2, <2>5
  <2> QED
    BY <2>1, <2>4, <2>5
\* What still waits, waits for another read, and was not sent now.
<1> DEFINE WaitsOn(i, w) ==
      /\ i # t /\ reads'[i] = reads[i] /\ UnderWay(i) /\ UnderWay(i)'
      /\ AlbumOf[w.row] = reads[i].album
      /\ w.row \in Rows
      /\ \A k \in DOMAIN sent[w.row] : sent[w.row][k] # w.version
      /\ \A k \in DOMAIN plays : plays[k].row = w.row => plays[k].version # w.version
<1>8. ASSUME NEW i \in Reads, NEW j \in DOMAIN reads'[i].waiters
      PROVE  WaitsOn(i, reads[i].waiters[j])
  <2>1. i # t /\ reads'[i] = reads[i]
    BY <1>5
  <2>2. j \in DOMAIN reads[i].waiters
    BY <2>1
  <2> DEFINE w == reads[i].waiters[j]
  <2>3. /\ UnderWay(i) /\ AlbumOf[w.row] = reads[i].album /\ w.row \in Rows /\ w \in Plays
        /\ \A k \in DOMAIN sent[w.row] : sent[w.row][k] # w.version
    BY <1>1, <2>2, OrderTypes, SMTT(20) DEF WaitersAreApart
  <2>4. ASSUME NEW k \in DOMAIN plays, plays[k].row = w.row, plays[k].version = w.version
        PROVE  FALSE
    <3>1. plays[k] = w
      BY <1>3, <2>3, <2>4, PlaysFacts, Zenon
    <3> QED
      BY <1>1, <2>1, <2>2, <3>1 DEF WaitersAreApart
  <2> QED
    BY <1>5, <2>1, <2>3, <2>4
<1> HIDE DEF WaitsOn
<1>9. WaitersAreApart'
  <2>1. ASSUME NEW i \in Reads, NEW j \in DOMAIN reads'[i].waiters
        PROVE  /\ AlbumOf[reads'[i].waiters[j].row] = reads'[i].album /\ UnderWay(i)'
               /\ \A k \in DOMAIN sent'[reads'[i].waiters[j].row] :
                    sent'[reads'[i].waiters[j].row][k] # reads'[i].waiters[j].version
    <3> DEFINE w == reads[i].waiters[j]
    <3>0. WaitsOn(i, w)
      BY <1>8
    <3> HIDE DEF plays, w
    <3>1. /\ reads'[i] = reads[i] /\ UnderWay(i)' /\ AlbumOf[w.row] = reads[i].album /\ w.row \in Rows
          /\ \A k \in DOMAIN sent[w.row] : sent[w.row][k] # w.version
          /\ \A k \in DOMAIN plays : plays[k].row = w.row => plays[k].version # w.version
      BY <3>0 DEF WaitsOn
    <3>2. \A k \in DOMAIN sent'[w.row] : sent'[w.row][k] # w.version
      <4> SUFFICES ASSUME NEW k \in DOMAIN sent'[w.row]
                   PROVE  sent'[w.row][k] # w.version
        OBVIOUS
      <4>1. CASE k \in DOMAIN sent[w.row] /\ sent'[w.row][k] = sent[w.row][k]
        BY <3>1, <4>1
      <4>2. CASE \E l \in DOMAIN plays : plays[l].row = w.row /\ plays[l].version = sent'[w.row][k]
        BY <3>1, <4>2
      <4> QED
        BY <1>4, <3>1, <4>1, <4>2
    <3> QED
      BY <3>1, <3>2 DEF w
  <2>2. ASSUME NEW h \in Reads, NEW i \in Reads, NEW j \in DOMAIN reads'[h].waiters,
               NEW k \in DOMAIN reads'[i].waiters, reads'[h].waiters[j] = reads'[i].waiters[k]
        PROVE  h = i /\ j = k
    <3>1. reads'[h] = reads[h] /\ reads'[i] = reads[i]
      BY <1>8 DEF WaitsOn
    <3> QED
      BY <1>1, <2>2, <3>1 DEF WaitersAreApart
  <2> QED
    BY <2>1, <2>2, Zenon DEF WaitersAreApart
\* Another read of the album of t, to which order is due, is found as t is.
<1>10. ASSUME NEW i \in Reads, UnderWay(i)', heard[reads'[i].album] = 0
       PROVE  /\ i # t /\ reads'[i] = reads[i] /\ UnderWay(i)
              /\ ~reads[i].poisoned /\ cache[reads[i].album] = {}
              /\ ~reads[t].poisoned => reads[i].album # reads[t].album
  <2>1. i # t /\ reads'[i] = reads[i] /\ UnderWay(i)
    BY <1>5, <1>10
  <2>2. ~reads[i].poisoned /\ cache[reads[i].album] = {}
    BY <1>1, <1>10, <2>1 DEF OneReadAtATime
  <2>3. ~reads[t].poisoned => reads[i].album # reads[t].album
    BY <1>1, <2>1, <2>2 DEF ReadsAreFound, UnderWay
  <2> QED
    BY <2>1, <2>2, <2>3
<1>11. OneReadAtATime'
  <2> SUFFICES ASSUME NEW i \in Reads, UnderWay(i)', heard[reads'[i].album] = 0
               PROVE  ~reads'[i].poisoned /\ cache'[reads'[i].album] = {}
    BY DEF OneReadAtATime
  <2>1. reads[i].album \in Albums
    BY <1>1, <1>10 DEF UnderWay, Shape, ReadStates
  <2> QED
    BY <1>10, <2>1
<1>12. WaitersInOrder'
  <2> SUFFICES ASSUME NEW i \in Reads, UnderWay(i)', heard[reads'[i].album] = 0,
                      NEW k \in DOMAIN reads'[i].waiters
               PROVE  /\ \A j \in DOMAIN sent'[reads'[i].waiters[k].row] :
                           sent'[reads'[i].waiters[k].row][j] < reads'[i].waiters[k].version
                      /\ \A j \in DOMAIN reads'[i].waiters :
                           reads'[i].waiters[j].row = reads'[i].waiters[k].row /\ j < k
                             => reads'[i].waiters[j].version < reads'[i].waiters[k].version
    BY DEF WaitersInOrder
  <2>1. i # t /\ reads'[i] = reads[i] /\ UnderWay(i) /\ heard[reads[i].album] = 0
    BY <1>10
  <2>2. reads[i].album # reads[t].album
    <3>1. ~reads[i].poisoned
      BY <1>10
    <3>2. ~reads[t].poisoned \/ heard[reads[t].album] # 0 \/ ~UnderWay(t)
      BY <1>1 DEF OneReadAtATime
    <3> QED
      BY <1>10, <2>1, <3>2 DEF UnderWay
  <2> DEFINE w == reads[i].waiters[k]
  <2>3. w.row \in Rows /\ AlbumOf[w.row] = reads[i].album
    BY <1>8, <2>1 DEF WaitsOn
  <2>4. \A l \in DOMAIN plays : plays[l].row # w.row
    BY <1>3, <2>2, <2>3
  <2>5. /\ \A j \in DOMAIN sent[w.row] : sent[w.row][j] < w.version
        /\ \A j \in DOMAIN reads[i].waiters :
             reads[i].waiters[j].row = w.row /\ j < k => reads[i].waiters[j].version < w.version
    BY <1>1, <2>1 DEF WaitersInOrder
  <2> HIDE DEF w, plays
  <2>6. ASSUME NEW j \in DOMAIN sent'[w.row]
        PROVE  sent'[w.row][j] < w.version
    <3>1. j \in DOMAIN sent[w.row] /\ sent'[w.row][j] = sent[w.row][j]
      BY <1>4, <2>3, <2>4
    <3> QED
      BY <2>5, <3>1
  <2> QED
    BY <2>1, <2>5, <2>6 DEF w
<1>13. StreamInOrder'
  BY <1>1 DEF StreamInOrder
<1> QED
  BY <1>4, <1>6, <1>7, <1>9, <1>11, <1>12, <1>13 DEF OrderInv

LEMMA OrderStep == OrderInv /\ [Next]_vars => OrderInv'
<1> SUFFICES ASSUME OrderInv, [Next]_vars PROVE OrderInv'
  OBVIOUS
<1>1. FreshInv /\ FreshInv'
  BY FreshStep DEF OrderInv
<1>2. /\ Shape /\ JoinedAreUnderWay /\ StreamInOrder /\ StreamIsAhead /\ HandledAreWritten
      /\ WaitersAreApart /\ OneReadAtATime /\ WaitersInOrder /\ RowsInOrder
      /\ sent \in [Rows -> Seq(Nat)]
  BY DEF OrderInv, FreshInv
<1>3. CASE UNCHANGED vars
  BY <1>1, <1>3, OrderSame DEF vars
<1>4. ASSUME NEW r \in Rows, WriteRow(r) PROVE OrderInv'
  <2> DEFINE e == [row |-> r, version |-> row'[r]]
  <2>1. row \in [Rows -> Nat] /\ row' = [row EXCEPT ![r] = @ + 1] /\ row[r] < MaxVersions
    BY <1>2, <1>4, FeedAssumption DEF Shape, WriteRow
  <2>2. /\ \A s \in Rows : row'[s] \in Nat /\ row[s] <= row'[s]
        /\ row[r] < row'[r] /\ row'[r] \in Versions
    BY <2>1, FeedAssumption DEF Versions
  <2>3. e \in Plays /\ e.row = r /\ e.version = row'[r]
    BY <2>2 DEF Plays
  <2>4. /\ stream' \in {stream, Append(stream, e)}
        /\ UNCHANGED <<cache, inflight, reads, sent, heard>>
    BY <1>4 DEF WriteRow, Notify
  <2>5. e.version <= row'[e.row]
    BY <2>2, <2>3
  <2> HIDE DEF e
  <2> QED
    BY <1>1, <2>2, <2>3, <2>4, <2>5, OrderWrite
<1>5. ASSUME NEW a \in Albums, WriteAlbum(a) PROVE OrderInv'
  <2> DEFINE e == [album |-> a, version |-> flags'[a]]
  <2>1. flags \in [Albums -> 0 .. MaxFlips] /\ flags' = [flags EXCEPT ![a] = @ + 1] /\ flags[a] < MaxFlips
    BY <1>2, <1>5 DEF Shape, WriteAlbum
  <2>2. flags'[a] \in 1 .. MaxFlips
    BY <2>1, FeedAssumption
  <2>3. e \in Changes
    BY <2>2 DEF Changes
  <2>4. e \notin Plays
    BY <2>3, Kinds
  <2>5. /\ stream' \in {stream, Append(stream, e)}
        /\ UNCHANGED <<row, cache, inflight, reads, sent, heard>>
    BY <1>5 DEF WriteAlbum, Notify
  <2>6. \A r \in Rows : row'[r] \in Nat /\ row[r] <= row'[r]
    BY <2>5, OrderTypes
  <2> HIDE DEF e
  <2> QED
    BY <1>1, <2>3, <2>4, <2>5, <2>6, OrderWrite
<1>6. CASE ConnectionBreaks
  BY <1>1, <1>6, OrderSame DEF ConnectionBreaks
<1>7. ASSUME NEW a \in Albums, Expires(a) PROVE OrderInv'
  <2>1. /\ UNCHANGED <<row, stream, reads, sent, heard>>
        /\ \A b \in Albums : cache[b] = {} => cache'[b] = {}
    BY <1>2, <1>7 DEF Expires, Shape
  <2> QED
    BY <1>1, <2>1, OrderSame
<1>8. CASE HandlePlay
  <2> DEFINE e == Head(stream)
  <2>1. CASE BroadcastAtOnce(e)
    BY <1>1, <1>8, <2>1, OrderAtOnce
  <2>2. CASE LookUp(e)
    <3> DEFINE a == AlbumOf[e.row]
    <3>1. e \in Plays /\ e.row \in Rows
      BY <1>1, <1>8, HeadLeaves, Kinds DEF HandlePlay
    <3>2. a \in Albums /\ a # NoAlbum /\ cache[a] = {} /\ UNCHANGED sent
      BY <2>2, <3>1, FeedAssumption DEF LookUp
    <3>3. CASE Joins(e) /\ JoinRead(e)
      <4> DEFINE t == inflight[a]
      <4>1. t \in Reads /\ reads[t].album = a /\ UnderWay(t) /\ reads[t] \in ReadStates
        BY <1>2, <3>2, <3>3 DEF Joins, JoinedAreUnderWay, Shape, UnderWay
      <4>2. /\ reads' = [reads EXCEPT ![t] = [reads[t] EXCEPT !.waiters = Append(reads[t].waiters, e)]]
            /\ reads \in [Reads -> ReadStates]
        BY <1>2, <3>3 DEF JoinRead, Shape
      <4> HIDE DEF t, e
      <4>3. /\ reads'[t].waiters = Append(reads[t].waiters, e) /\ reads'[t].album = a
            /\ reads'[t].poisoned = reads[t].poisoned /\ \A i \in Reads \ {t} : reads'[i] = reads[i]
        BY <4>1, <4>2 DEF ReadStates
      <4>4. reads[t].waiters \in Seq(Plays)
        BY <4>1 DEF ReadStates
      <4> QED
        BY <1>1, <1>8, <3>2, <4>1, <4>3, <4>4, OrderWaits DEF e
    <3>4. ASSUME NEW t \in Reads, StartRead(e, t) PROVE OrderInv'
      <4>1. reads \in [Reads -> ReadStates] /\ ~UnderWay(t)
        BY <1>2, <3>4 DEF StartRead, Shape
      <4>2. reads' = [reads EXCEPT ![t] = [FreeRead EXCEPT !.album = a, !.waiters = <<e>>]]
        BY <3>4 DEF StartRead
      <4>3. /\ reads'[t].waiters = <<e>> /\ reads'[t].album = a /\ ~reads'[t].poisoned
            /\ \A i \in Reads \ {t} : reads'[i] = reads[i]
        BY <4>1, <4>2 DEF FreeRead
      <4>4. << >> \in Seq(Plays) /\ <<e>> = Append(<< >>, e)
        OBVIOUS
      <4> QED
        BY <1>1, <1>8, <3>2, <4>1, <4>3, <4>4, OrderWaits
    <3> QED
      BY <2>2, <3>3, <3>4 DEF LookUp
  <2>3. CASE FilterOut(e)
    <3>1. UNCHANGED <<row, cache, reads, sent, heard>> /\ stream # << >> /\ stream' = Tail(stream)
      BY <1>8, <2>3 DEF HandlePlay, FilterOut
    <3> QED
      BY <1>1, <3>1, OrderSame
  <2> QED
    BY <1>8, <2>1, <2>2, <2>3 DEF HandlePlay
<1>9. CASE HandleChange
  BY <1>1, <1>9, OrderChange
<1>10. ASSUME NEW i \in Reads, QueryRuns(i) PROVE OrderInv'
  <2>1. /\ UNCHANGED <<row, stream, cache, sent, heard>> /\ reads \in [Reads -> ReadStates]
        /\ reads' = [reads EXCEPT ![i] = [reads[i] EXCEPT !.saw = {flags[reads[i].album]}]]
    BY <1>2, <1>10 DEF QueryRuns, Shape
  <2>2. \A h \in Reads : /\ reads'[h].waiters = reads[h].waiters /\ reads'[h].album = reads[h].album
                         /\ reads'[h].poisoned = reads[h].poisoned
    BY <2>1 DEF ReadStates
  <2> QED
    BY <1>1, <2>1, <2>2, OrderSame
<1>11. ASSUME NEW i \in Reads, ReadSettles(i) \/ ReadFails(i) PROVE OrderInv'
  <2>1. /\ UNCHANGED <<row, stream, heard>> /\ reads' = [reads EXCEPT ![i] = FreeRead]
        /\ Broadcast(reads[i].waiters)
    BY <1>11 DEF ReadSettles, ReadFails, BroadcastBare
  <2>2. \/ cache' = cache
        \/ ~reads[i].poisoned /\ \A b \in Albums : b # reads[i].album => cache'[b] = cache[b]
    BY <1>2, <1>11 DEF ReadSettles, ReadFails, Shape
  <2> QED
    BY <1>1, <2>1, <2>2, OrderOver
<1> QED
  BY <1>3, <1>4, <1>5, <1>6, <1>7, <1>8, <1>9, <1>10, <1>11 DEF Next, Handle

\* Theorem (RowsInOrder).  A listener gets each version of a row at most once,
\* and in order as long as no change of its album was heard, although some wait
\* for a read of the flags and others do not.
THEOREM RowsComeInOrder == Spec => []RowsInOrder
<1>1. OrderInv => RowsInOrder
  BY DEF OrderInv
<1> QED
  BY <1>1, OrderInit, OrderStep, PTL DEF Spec

\* The rest of the types: a flag is one version of its album at most, and what
\* was sent are versions of rows.
OneFlag(saw, newest) == saw = {} \/ \E v \in 0 .. newest : saw = {v}
FlagsFit ==
  /\ \A a \in Albums : OneFlag(cache[a], flags[a])
  /\ \A i \in Reads :
       reads[i].saw = {} \/ (UnderWay(i) /\ OneFlag(reads[i].saw, flags[reads[i].album]))
SentFits == \A r \in Rows : \A j \in DOMAIN sent[r] : sent[r][j] \in Versions
LostFits == lost \subseteq Plays \cup Changes

LEMMA FitsTyped == OrderInv /\ FlagsFit /\ SentFits /\ LostFits => TypeOK
<1> SUFFICES ASSUME OrderInv, FlagsFit, SentFits, LostFits PROVE TypeOK
  OBVIOUS
<1>1. /\ Shape /\ NothingFromAhead /\ JoinedAreUnderWay /\ sent \in [Rows -> Seq(Nat)]
  BY DEF OrderInv, FreshInv
<1>2. \A a \in Albums : flags[a] \in 0 .. MaxFlips /\ heard[a] \in Nat /\ heard[a] <= flags[a]
  BY <1>1 DEF Shape, NothingFromAhead
<1>3. ASSUME NEW a \in Albums, NEW saw, OneFlag(saw, flags[a])
      PROVE  saw \subseteq 0 .. flags[a] /\ saw \subseteq 0 .. MaxFlips /\ Cardinality(saw) <= 1
  <2>1. CASE saw = {}
    BY <2>1, FS_EmptySet
  <2>2. ASSUME NEW v \in 0 .. flags[a], saw = {v} PROVE saw \subseteq 0 .. MaxFlips /\ Cardinality(saw) = 1
    <3>1. MaxFlips \in Nat
      BY FeedAssumption
    <3>2. v \in 0 .. MaxFlips
      BY <1>2, <3>1
    <3>3. Cardinality({v}) = 1
      BY FS_Singleton
    <3> QED
      BY <2>2, <3>2, <3>3
  <2> QED
    BY <1>3, <2>1, <2>2 DEF OneFlag
<1>4. \A a \in Albums : cache[a] \subseteq 0 .. flags[a] /\ Cardinality(cache[a]) <= 1
  BY <1>3 DEF FlagsFit
<1>5. \A i \in Reads : /\ reads[i].album \in Albums \cup {NoAlbum}
                       /\ reads[i].poisoned \in BOOLEAN
                       /\ reads[i].waiters \in Seq(Plays)
  BY <1>1 DEF Shape, ReadStates
<1>6. \A i \in Reads : reads[i].saw \subseteq 0 .. MaxFlips
  BY <1>3, <1>5 DEF FlagsFit, UnderWay
<1>7. sent \in [Rows -> Seq(Versions)]
  <2>1. ASSUME NEW r \in Rows PROVE sent[r] \in Seq(Versions)
    <3>1. sent[r] \in Seq(Nat) /\ \A j \in 1 .. Len(sent[r]) : sent[r][j] \in Versions
      BY <1>1 DEF SentFits
    <3>2. /\ sent[r] = [j \in 1 .. Len(sent[r]) |-> sent[r][j]] /\ Len(sent[r]) \in Nat
      BY <3>1
    <3> QED
      BY <3>1, <3>2, IsASeq
  <2> QED
    BY <1>1, <2>1
<1>8. heard \in [Albums -> 0 .. MaxFlips]
  <2>1. \A a \in Albums : heard[a] \in 0 .. MaxFlips
    BY <1>2, FeedAssumption
  <2> QED
    BY <1>1, <2>1 DEF Shape
<1>9. /\ row \in [Rows -> 0 .. MaxVersions] /\ flags \in [Albums -> 0 .. MaxFlips]
      /\ stream \in Seq(Plays \cup Changes) /\ inflight \in [Albums -> Reads \cup {NoRead}]
  BY <1>1 DEF Shape
<1>10. \A a \in Albums : inflight[a] # NoRead => reads[inflight[a]].album = a
  BY <1>1 DEF JoinedAreUnderWay
<1> QED
  BY <1>4, <1>5, <1>6, <1>7, <1>8, <1>9, <1>10, Zenon DEF TypeOK, LostFits

LEMMA FlagsFitStep == FreshInv /\ FlagsFit /\ [Next]_vars => FlagsFit'
<1> SUFFICES ASSUME FreshInv, FlagsFit, [Next]_vars PROVE FlagsFit'
  OBVIOUS
<1>1. Shape
  BY DEF FreshInv
\* A read keeps what it saw, or is over, or takes the version there is.
<1>2. \A a \in Albums : flags[a] \in Nat /\ flags'[a] \in Nat /\ flags[a] <= flags'[a]
  <2>1. CASE \E b \in Albums : WriteAlbum(b)
    BY <1>1, <2>1, FeedAssumption DEF Shape, WriteAlbum
  <2>2. CASE flags' = flags
    BY <1>1, <2>2 DEF Shape
  <2> QED
    BY <2>1, <2>2 DEF Next, vars, WriteRow, ConnectionBreaks, Expires, Handle, HandlePlay,
       HandleChange, QueryRuns, ReadSettles, ReadFails
<1>3. ASSUME NEW a \in Albums, NEW saw, OneFlag(saw, flags[a]) PROVE OneFlag(saw, flags'[a])
  BY <1>2, <1>3 DEF OneFlag
<1>4. ASSUME NEW i \in Reads
      PROVE  \/ reads'[i].saw = {}
             \/ reads'[i].saw = reads[i].saw /\ reads'[i].album = reads[i].album
             \/ /\ reads'[i].saw = {flags[reads[i].album]} /\ reads'[i].album = reads[i].album
                /\ UnderWay(i)
  <2>0. reads \in [Reads -> ReadStates] /\ reads[i] \in ReadStates
    BY <1>1 DEF Shape
  <2>1. CASE reads' = reads
    BY <2>1
  <2>2. CASE HandlePlay
    <3>1. ASSUME NEW e, JoinRead(e) PROVE reads'[i].saw = reads[i].saw /\ reads'[i].album = reads[i].album
      BY <2>0, <3>1 DEF JoinRead, ReadStates
    <3>2. ASSUME NEW e, NEW j \in Reads, StartRead(e, j)
          PROVE  reads'[i].saw = {} \/ reads'[i] = reads[i]
      BY <2>0, <3>2 DEF StartRead, FreeRead
    <3> QED
      BY <2>1, <2>2, <3>1, <3>2 DEF HandlePlay, FilterOut, BroadcastAtOnce, LookUp
  <2>3. CASE HandleChange
    BY <2>0, <2>3 DEF HandleChange, Invalidate, ReadStates
  <2>4. ASSUME NEW j \in Reads, QueryRuns(j)
        PROVE  \/ reads'[i] = reads[i]
               \/ /\ reads'[i].saw = {flags[reads[i].album]} /\ reads'[i].album = reads[i].album
                  /\ UnderWay(i)
    BY <2>0, <2>4 DEF QueryRuns, ReadStates
  <2>5. ASSUME NEW j \in Reads, reads' = [reads EXCEPT ![j] = FreeRead]
        PROVE  reads'[i].saw = {} \/ reads'[i] = reads[i]
    BY <2>0, <2>5 DEF FreeRead
  <2>6. \/ reads' = reads \/ HandlePlay \/ HandleChange \/ \E j \in Reads : QueryRuns(j)
        \/ \E j \in Reads : reads' = [reads EXCEPT ![j] = FreeRead]
    BY DEF Next, vars, WriteRow, WriteAlbum, ConnectionBreaks, Expires, Handle,
       ReadSettles, ReadFails
  <2> QED
    BY <2>1, <2>2, <2>3, <2>4, <2>5, <2>6
<1>5. ASSUME NEW i \in Reads
      PROVE  reads'[i].saw = {} \/ (UnderWay(i)' /\ OneFlag(reads'[i].saw, flags'[reads'[i].album]))
  <2>0. UnderWay(i) => reads[i].album \in Albums
    BY <1>1 DEF Shape, ReadStates, UnderWay
  <2>1. CASE reads'[i].saw = reads[i].saw /\ reads'[i].album = reads[i].album
    BY <1>3, <2>0, <2>1 DEF FlagsFit, UnderWay
  <2>2. CASE /\ reads'[i].saw = {flags[reads[i].album]} /\ reads'[i].album = reads[i].album
             /\ UnderWay(i)
    BY <1>2, <2>0, <2>2 DEF OneFlag, UnderWay
  <2> QED
    BY <1>4, <2>1, <2>2
<1>6. ASSUME NEW a \in Albums PROVE OneFlag(cache'[a], flags'[a])
  <2>1. \/ cache'[a] = cache[a] \/ cache'[a] = {}
        \/ \E i \in Reads : cache'[a] = reads[i].saw /\ reads[i].album = a
    BY <1>1 DEF Next, vars, Shape, WriteRow, WriteAlbum, ConnectionBreaks, Expires, Handle,
       HandlePlay, HandleChange, Invalidate, QueryRuns, ReadSettles, ReadFails
  <2>2. \A i \in Reads : reads[i].album = a => OneFlag(reads[i].saw, flags[a])
    BY DEF FlagsFit, OneFlag
  <2>3. OneFlag({}, flags'[a]) /\ OneFlag(cache[a], flags[a])
    BY DEF FlagsFit, OneFlag
  <2> QED
    BY <1>3, <2>1, <2>2, <2>3
<1> QED
  BY <1>5, <1>6 DEF FlagsFit

LEMMA SentFitsStep == OrderInv /\ SentFits /\ [Next]_vars => SentFits'
<1> SUFFICES ASSUME OrderInv, SentFits, [Next]_vars, NEW r \in Rows, NEW j \in DOMAIN sent'[r]
             PROVE  sent'[r][j] \in Versions
  BY DEF SentFits
<1>1. ASSUME NEW plays \in Seq(Plays), Broadcast(plays) PROVE sent'[r][j] \in Versions
  <2>1. \/ j \in DOMAIN sent[r] /\ sent'[r][j] = sent[r][j]
        \/ \E k \in DOMAIN plays : plays[k].row = r /\ plays[k].version = sent'[r][j]
    BY <1>1, BroadcastKeepsOrder DEF OrderInv
  <2>2. \A k \in DOMAIN plays : plays[k].version \in Versions
    BY <1>1, PlaysFacts DEF Plays
  <2> QED
    BY <2>1, <2>2 DEF SentFits
<1>2. CASE sent' = sent
  BY <1>2 DEF SentFits
<1>3. CASE HandlePlay
  <2>1. Head(stream) \in Plays
    BY <1>3, HeadLeaves, Kinds DEF HandlePlay, OrderInv
  <2>2. <<Head(stream)>> \in Seq(Plays)
    BY <2>1
  <2> QED
    BY <1>1, <1>2, <1>3, <2>2 DEF HandlePlay, FilterOut, BroadcastAtOnce, LookUp
<1>4. ASSUME NEW i \in Reads, Broadcast(reads[i].waiters) PROVE sent'[r][j] \in Versions
  BY <1>1, <1>4, OrderTypes
<1> QED
  BY <1>2, <1>3, <1>4 DEF Next, vars, WriteRow, WriteAlbum, ConnectionBreaks, Expires, Handle,
     HandleChange, QueryRuns, ReadSettles, ReadFails, BroadcastBare

LEMMA LostFitsStep == FreshInv /\ LostFits /\ [Next]_vars => LostFits'
<1> SUFFICES ASSUME FreshInv, LostFits, [Next]_vars PROVE LostFits'
  OBVIOUS
<1>1. Shape
  BY DEF FreshInv
<1>2. ASSUME NEW r \in Rows, WriteRow(r) PROVE LostFits'
  <2>1. [row |-> r, version |-> row'[r]] \in Plays
    BY <1>1, <1>2, FeedAssumption DEF WriteRow, Shape, Plays, Versions
  <2> QED
    BY <1>2, <2>1 DEF WriteRow, Notify, LostFits
<1>3. ASSUME NEW a \in Albums, WriteAlbum(a) PROVE LostFits'
  <2>1. [album |-> a, version |-> flags'[a]] \in Changes
    BY <1>1, <1>3, FeedAssumption DEF WriteAlbum, Shape, Changes
  <2> QED
    BY <1>3, <2>1 DEF WriteAlbum, Notify, LostFits
<1>4. CASE ConnectionBreaks
  <2>1. ToSet(stream) \subseteq Plays \cup Changes
    BY <1>1 DEF Shape, ToSet
  <2> QED
    BY <1>4, <2>1 DEF ConnectionBreaks, LostFits
<1>5. CASE lost' = lost
  BY <1>5 DEF LostFits
<1> QED
  BY <1>2, <1>3, <1>4, <1>5 DEF Next, vars, Expires, Handle, HandlePlay, HandleChange,
     QueryRuns, ReadSettles, ReadFails

\* The types of the feed: the cache holds one flag of an album at most, a version
\* that was committed, and all that went out or got lost was written.
THEOREM FeedTypeCorrect == Spec => []TypeOK
<1> DEFINE Fits == FlagsFit /\ SentFits /\ LostFits
<1>1. Init => Fits
  BY FreeReadIsFree DEF Init, FlagsFit, OneFlag, SentFits, LostFits, FreeRead
<1>2. OrderInv /\ Fits /\ [Next]_vars => Fits'
  BY FlagsFitStep, SentFitsStep, LostFitsStep DEF OrderInv
<1>3. OrderInv /\ Fits => TypeOK
  BY FitsTyped
<1> HIDE DEF Fits
<1> QED
  BY <1>1, <1>2, <1>3, OrderInit, OrderStep, PTL DEF Spec


-----------------------------------------------------------------------------
(* The liveness probe                                                      *)

\* A probe that the tick after k more of them has not given up is older than
\* Latency allows only from that tick on.
LEMMA LatencyFacts ==
  /\ Latency \in Nat /\ Interval <= Latency
  /\ \A k \in Nat : k * Interval < Timeout => Interval + k * Interval + Interval <= Latency
<1> DEFINE n == (Timeout + Interval - 1) \div Interval
<1>1. /\ n \in Nat
      /\ Interval * n <= Timeout + Interval - 1
      /\ Timeout + Interval - 1 < Interval * n + Interval
  BY ProbeAssumption
<1> HIDE DEF n
<1>2. Interval * n \in Nat
  BY <1>1, ProbeAssumption
<1>3. Latency = Interval + Interval * n
  BY DEF Latency, n
<1>4. ASSUME NEW k \in Nat, k * Interval < Timeout
      PROVE  k * Interval + Interval <= Interval * n
  <2>1. k < n
    BY <1>1, <1>4, ProbeAssumption
  <2>2. k + 1 <= n
    BY <1>1, <2>1
  <2> QED
    BY <1>1, <2>2, ProbeAssumption
<1>5. ASSUME NEW k \in Nat, k * Interval < Timeout
      PROVE  Interval + k * Interval + Interval <= Latency
  <2>1. k * Interval \in Nat
    BY ProbeAssumption
  <2>2. k * Interval + Interval <= Interval * n
    BY <1>4, <1>5
  <2> QED
    BY <1>2, <1>3, <2>1, <2>2, ProbeAssumption
<1>6. Latency \in Nat /\ Interval <= Latency
  BY <1>2, <1>3, ProbeAssumption
<1> QED
  BY <1>5, <1>6

LEMMA CapIsNat == Cap \in Nat
  BY LatencyFacts DEF Cap

\* The type invariant.
LEMMA ProbeTypeInit == ProbeInit => ProbeTypeOK
  BY ProbeAssumption, CapIsNat DEF ProbeInit, ProbeTypeOK

LEMMA ProbeTypeStep == ProbeTypeOK /\ [ProbeNext]_probeVars => ProbeTypeOK'
<1> SUFFICES ASSUME ProbeTypeOK, [ProbeNext]_probeVars PROVE ProbeTypeOK'
  OBVIOUS
<1> USE ProbeAssumption, CapIsNat DEF ProbeTypeOK
<1>1. CASE UNCHANGED probeVars
  BY <1>1 DEF probeVars
<1>2. CASE Drops \/ Relistens
  <2>1. up' \in BOOLEAN /\ reported' \in BOOLEAN
    BY <1>2, Zenon DEF Drops, Relistens
  <2>2. 0 \in 0 .. Cap
    OBVIOUS
  <2>3. downFor' \in 0 .. Cap /\ echoes' \subseteq Tokens
    BY <1>2, <2>2, Zenon DEF Drops, Relistens
  <2> QED
    BY <1>2, <2>1, <2>3, Zenon DEF Drops, Relistens
<1>3. CASE Passes
  <2>1. phase' \in 0 .. Interval /\ downFor' \in 0 .. Cap
    BY <1>3 DEF Passes
  <2>2. age' \in 0 .. Timeout + Interval
    BY <1>3 DEF Passes
  <2> QED
    BY <1>3, <2>1, <2>2 DEF Passes
<1>4. CASE Tick
  <2>1. phase' \in 0 .. Interval /\ UNCHANGED <<up, downFor, echoes, failures>>
    BY <1>4 DEF Tick
  <2>2. outstanding' \in Tokens \cup {NoToken} /\ age' \in 0 .. Timeout + Interval
    BY <1>4 DEF Tick, Arm, GiveUp, ClearToken
  <2>3. notifying' \subseteq Tokens /\ reported' \in BOOLEAN
    BY <1>4 DEF Tick, Arm, GiveUp
  <2> QED
    BY <2>1, <2>2, <2>3
<1>5. ASSUME NEW t \in Tokens, NotifySent(t) PROVE ProbeTypeOK'
  BY <1>5 DEF NotifySent
<1>6. ASSUME NEW t \in Tokens, NotifyFails(t) PROVE ProbeTypeOK'
  <2>1. failures' \in 0 .. MaxFailures /\ 0 \in 0 .. Timeout + Interval
    BY <1>6 DEF NotifyFails
  <2>2. reported' \in BOOLEAN /\ notifying' \subseteq Tokens
    BY <1>6, Zenon DEF NotifyFails
  <2> QED
    BY <1>6, <2>1, <2>2, Zenon DEF NotifyFails, ClearToken
<1>7. ASSUME NEW t \in Tokens, Echo(t) PROVE ProbeTypeOK'
  <2>1. 0 \in 0 .. Timeout + Interval
    OBVIOUS
  <2>2. /\ outstanding' \in Tokens \cup {NoToken} /\ age' \in 0 .. Timeout + Interval
        /\ reported' \in BOOLEAN /\ echoes' \subseteq Tokens
    BY <1>7, <2>1, Zenon DEF Echo, ClearToken
  <2> QED
    BY <1>7, <2>2, Zenon DEF Echo
<1> QED
  BY <1>1, <1>2, <1>3, <1>4, <1>5, <1>6, <1>7 DEF ProbeNext

THEOREM ProbeTypeCorrect == ProbeSpec => []ProbeTypeOK
  BY ProbeTypeInit, ProbeTypeStep, PTL DEF ProbeSpec

-----------------------------------------------------------------------------
(* The invariant.                                                          *)

\* A probe is out for k whole intervals and the time since the last tick, and
\* the tick before has not found it too old.
ProbeAge ==
  outstanding # NoToken =>
    \E k \in Nat : k * Interval < Timeout /\ age = k * Interval + phase

\* A dead connection that is not reported yet died after the last tick, or the
\* probe that is out was sent within one interval of its death.
DeathIsYoung ==
  ~up /\ reported =>
    IF outstanding = NoToken THEN downFor <= phase ELSE downFor <= Interval + age

ProbeInv ==
  /\ ProbeTypeOK
  /\ up => downFor = 0
  /\ ~up => echoes = {}
  /\ ProbeAge
  /\ DeathIsYoung

LEMMA ProbeInvStep == ProbeInv /\ [ProbeNext]_probeVars => ProbeInv'
<1> SUFFICES ASSUME ProbeInv, [ProbeNext]_probeVars PROVE ProbeInv'
  OBVIOUS
<1>0. ProbeTypeOK /\ ProbeTypeOK'
  BY ProbeTypeStep DEF ProbeInv
<1> USE <1>0, ProbeAssumption DEF ProbeInv
<1>1. CASE UNCHANGED probeVars
  BY <1>1 DEF probeVars, ProbeAge, DeathIsYoung
<1>2. CASE Drops
  BY <1>2 DEF Drops, ProbeAge, DeathIsYoung, ProbeTypeOK
<1>3. CASE Relistens
  BY <1>3 DEF Relistens, ProbeAge, DeathIsYoung
<1>4. CASE Passes
  <2>1. CASE outstanding = NoToken
    BY <1>4, <2>1 DEF Passes, ProbeAge, DeathIsYoung, ProbeTypeOK
  <2>2. CASE outstanding # NoToken
    <3>1. PICK k \in Nat : k * Interval < Timeout /\ age = k * Interval + phase
      BY <2>2 DEF ProbeAge
    <3>2. age' = age + 1 /\ phase' = phase + 1
      <4>1. k * Interval \in Nat
        OBVIOUS
      <4> QED
        BY <1>4, <2>2, <3>1, <4>1 DEF Passes, ProbeTypeOK
    <3>3. age' = k * Interval + phase'
      <4>1. k * Interval \in Nat
        OBVIOUS
      <4> QED
        BY <3>1, <3>2, <4>1 DEF ProbeTypeOK
    <3>4. ProbeAge'
      BY <3>1, <3>3 DEF ProbeAge
    <3>5. DeathIsYoung'
      BY <1>4, <2>2, <3>2 DEF Passes, DeathIsYoung, ProbeTypeOK
    <3> QED
      BY <1>4, <3>4, <3>5 DEF Passes
  <2> QED
    BY <2>1, <2>2
<1>5. CASE Tick
  <2>1. /\ phase = Interval /\ phase' = 0
        /\ UNCHANGED <<up, downFor, echoes>>
    BY <1>5 DEF Tick
  <2>2. ASSUME NEW t \in Tokens, outstanding = NoToken, Arm(t) PROVE ProbeInv'
    <3>1. 0 * Interval < Timeout /\ age' = 0 * Interval + phase'
      BY <2>1, <2>2 DEF Arm
    <3>2. ProbeAge'
      BY <3>1 DEF ProbeAge
    <3>3. DeathIsYoung'
      BY <2>1, <2>2 DEF Arm, DeathIsYoung, ProbeTypeOK
    <3> QED
      BY <2>1, <3>2, <3>3
  <2>3. CASE GiveUp
    BY <2>1, <2>3 DEF GiveUp, ClearToken, ProbeAge, DeathIsYoung
  <2>4. CASE outstanding # NoToken /\ age < Timeout /\ UNCHANGED <<outstanding, age, reported>>
    <3>1. PICK k \in Nat : k * Interval < Timeout /\ age = k * Interval + phase
      BY <2>4 DEF ProbeAge
    <3>2. (k + 1) * Interval = k * Interval + Interval /\ k * Interval \in Nat
      OBVIOUS
    <3>3. /\ k + 1 \in Nat /\ (k + 1) * Interval < Timeout
          /\ age' = (k + 1) * Interval + phase'
      BY <2>1, <2>4, <3>1, <3>2
    <3>4. ProbeAge'
      BY <3>3 DEF ProbeAge
    <3>5. DeathIsYoung'
      BY <2>1, <2>4 DEF DeathIsYoung
    <3> QED
      BY <2>1, <3>4, <3>5
  <2> QED
    BY <1>5, <2>2, <2>3, <2>4 DEF Tick
<1>6. ASSUME NEW t \in Tokens, NotifySent(t) PROVE ProbeInv'
  BY <1>6 DEF NotifySent, ProbeAge, DeathIsYoung
<1>7. ASSUME NEW t \in Tokens, NotifyFails(t) PROVE ProbeInv'
  BY <1>7 DEF NotifyFails, ClearToken, ProbeAge, DeathIsYoung
<1>8. ASSUME NEW t \in Tokens, Echo(t) PROVE ProbeInv'
  BY <1>8 DEF Echo, ClearToken, ProbeAge, DeathIsYoung
<1> QED
  BY <1>1, <1>2, <1>3, <1>4, <1>5, <1>6, <1>7, <1>8 DEF ProbeNext

\* A dead connection is reported within Latency of its death, which is more than
\* the interval and the timeout when the one does not divide the other.
THEOREM DeathIsSeenInTime == ProbeSpec => []DeathIsSeen
<1>1. ProbeInit => ProbeInv
  BY ProbeTypeInit DEF ProbeInit, ProbeInv, ProbeAge, DeathIsYoung
<1>2. ProbeInv => DeathIsSeen
  <2> SUFFICES ASSUME ProbeInv, reported PROVE downFor <= Latency
    BY LatencyFacts, ProbeAssumption DEF DeathIsSeen, ProbeInv, ProbeTypeOK, Cap
  <2> USE ProbeAssumption, LatencyFacts DEF ProbeInv, ProbeTypeOK
  <2>1. CASE up
    BY <2>1
  <2>2. CASE ~up /\ outstanding = NoToken
    BY <2>2 DEF DeathIsYoung, Cap
  <2>3. CASE ~up /\ outstanding # NoToken
    <3>1. PICK k \in Nat : k * Interval < Timeout /\ age = k * Interval + phase
      BY <2>3 DEF ProbeAge
    <3>2. k * Interval \in Nat /\ Interval + k * Interval + Interval <= Latency
      BY <3>1
    <3> QED
      BY <2>3, <3>1, <3>2 DEF DeathIsYoung, Cap
  <2> QED
    BY <2>1, <2>2, <2>3
<1> QED
  BY <1>1, <1>2, ProbeInvStep, PTL DEF ProbeSpec

-----------------------------------------------------------------------------
(* The lookups of the worker                                               *)

LEMMA OutcomeKinds ==
  /\ Idle \notin Resolved /\ Waiting \notin Resolved /\ Rejected \notin Resolved
  /\ \A d \in Callers, st \in Statuses : <<"resolved", d, st>> \in Resolved
  BY DEF Idle, Waiting, Rejected, Resolved

\* The slices of a sequence: chunks of its elements.
LEMMA SlicesFacts ==
  ASSUME NEW S \in SUBSET Callers, NEW s \in Seq(S), NEW chunk \in Slices(s)
  PROVE  /\ chunk \in Chunks /\ chunk \in Seq(S) /\ chunk # << >>
<1> DEFINE end(k) == IF (k + 1) * BulkMax < Len(s) THEN (k + 1) * BulkMax ELSE Len(s)
<1>1. PICK k \in 0 .. Len(s) : /\ k * BulkMax < Len(s)
                               /\ chunk = SubSeq(s, k * BulkMax + 1, end(k))
  BY Zenon DEF Slices
<1> DEFINE first == k * BulkMax + 1
           last == end(k)
<1>2. /\ k * BulkMax \in Nat /\ (k + 1) * BulkMax = k * BulkMax + BulkMax /\ Len(s) \in Nat
      /\ BulkMax \in Nat /\ BulkMax >= 1
  <2>1. k \in Nat /\ BulkMax \in Nat /\ BulkMax >= 1 /\ Len(s) \in Nat
    BY BatcherAssumption
  <2> QED
    BY <2>1
<1>3. /\ first \in 1 .. Len(s) /\ last \in 1 .. Len(s) /\ first <= last
      /\ last - first + 1 <= BulkMax
  <2> DEFINE a == k * BulkMax
             b == (k + 1) * BulkMax
  <2>1. a \in Nat /\ b = a + BulkMax /\ a < Len(s)
    BY <1>1, <1>2
  <2> HIDE DEF a, b
  <2>2. first = a + 1 /\ last = IF b < Len(s) THEN b ELSE Len(s)
    BY DEF a, b
  <2> HIDE DEF first, last
  <2> QED
    BY <1>2, <2>1, <2>2
<1> HIDE DEF first, last
<1>4. \A i \in first .. last : s[i] \in S
  BY <1>2, <1>3, ElementOfSeq
<1>5. chunk \in Seq(S) /\ Len(chunk) = last - first + 1
  BY <1>1, <1>3, <1>4, SubSeqProperties DEF first, last
<1>6. Len(chunk) \in 1 .. BulkMax
  BY <1>2, <1>3, <1>5
<1>7. chunk \in [1 .. Len(chunk) -> Callers]
  BY <1>5, LenProperties
<1> QED
  BY <1>5, <1>6, <1>7 DEF Chunks

\* What is sent when the timer fires.
LEMMA FlushFacts ==
  ASSUME BatcherTypeOK, NEW lot \in Parts(buffer), NEW chunk \in Slices(lot)
  PROVE  /\ Dispatch(chunk) \in Calls /\ Dispatch(chunk).chunk = chunk
         /\ Dispatch(chunk).suppressed => \A c \in ToSet(chunk) : LaneOf[c] = "live"
<1>1. PICK lane \in Lanes :
        lot = AtPlaces(buffer, {i \in DOMAIN buffer : LaneOf[buffer[i]] = lane})
  BY Zenon DEF Parts
<1> DEFINE places == {i \in DOMAIN buffer : LaneOf[buffer[i]] = lane}
           inLane == {c \in Callers : LaneOf[c] = lane}
           n == Cardinality(places)
<1>2. buffer \in Seq(Callers) /\ places \in SUBSET DOMAIN buffer
  BY DEF BatcherTypeOK
<1>3. PICK place \in [1 .. n -> places] :
        \A k \in 1 .. n : AtPlaces(buffer, places)[k] = buffer[place[k]]
  <2> HIDE DEF places
  <2> QED
    BY <1>2, AtPlacesFacts, ZenonT(30)
<1>4. lot \in Seq(Callers) /\ Len(lot) = n
  BY <1>1, <1>2, AtPlacesFacts, Zenon
<1>5. \A k \in 1 .. n : lot[k] \in inLane
  <2> SUFFICES ASSUME NEW k \in 1 .. n PROVE lot[k] \in inLane
    OBVIOUS
  <2>1. place[k] \in DOMAIN buffer /\ LaneOf[buffer[place[k]]] = lane
    BY <1>3
  <2>2. buffer[place[k]] \in Callers
    BY <1>2, <2>1
  <2> QED
    BY <1>1, <1>3, <2>1, <2>2
<1>6. lot \in Seq(inLane)
  BY <1>4, <1>5, IsASeq, LenProperties
<1>7. chunk \in Chunks /\ chunk \in Seq(inLane) /\ chunk # << >>
  BY <1>6, SlicesFacts
<1>8. Suppressed(LaneOf[Head(chunk)]) \in BOOLEAN
  BY BatcherAssumption DEF Suppressed
<1>9. Suppressed(LaneOf[Head(chunk)]) => lane = "live"
  BY <1>7 DEF Suppressed
<1>10. \A c \in ToSet(chunk) : LaneOf[c] = lane
  BY <1>7 DEF ToSet
<1> QED
  BY <1>7, <1>8, <1>9, <1>10 DEF Dispatch, Calls

\* What an answer settles: a verdict is that of the caller's own item.
LEMMA SettleFacts ==
  ASSUME NEW chunk \in Chunks, NEW results \in Answers(chunk), NEW index \in DOMAIN chunk
  PROVE  \/ Settle(chunk, results, index) = Rejected
         \/ Settle(chunk, results, index) = <<"resolved", chunk[index], "match">>
<1> DEFINE found == VerdictOf(results, index)
           k == CHOOSE k \in found : TRUE
           verdict == results[k]
<1>1. CASE found = {} \/ Rejects(verdict.status)
  BY <1>1, Zenon DEF Settle
<1>2. CASE found # {} /\ ~Rejects(verdict.status)
  <2>1. k \in found
    BY <1>2, Zenon
  <2>2. k \in DOMAIN results /\ verdict.index = index
    BY <2>1, Zenon DEF VerdictOf
  <2>3. verdict.status \in Statuses
    BY <2>2 DEF Answers
  <2>4. verdict.status = "match"
    BY <1>2, <2>3 DEF Statuses, Rejects
  <2>5. Settle(chunk, results, index) = <<"resolved", chunk[verdict.index], verdict.status>>
    BY <1>2, Zenon DEF Settle
  <2> QED
    BY <2>2, <2>4, <2>5
<1> QED
  BY <1>1, <1>2

LEMMA AnsweredOwn ==
  ASSUME NEW chunk \in Chunks, NEW results \in Answers(chunk), NEW c \in ToSet(chunk)
  PROVE  Settle(chunk, results, CHOOSE i \in DOMAIN chunk : chunk[i] = c)
           \in {Rejected, <<"resolved", c, "match">>}
<1> DEFINE index == CHOOSE i \in DOMAIN chunk : chunk[i] = c
<1>1. \E i \in DOMAIN chunk : chunk[i] = c
  BY DEF ToSet
<1>2. index \in DOMAIN chunk /\ chunk[index] = c
  BY <1>1, Zenon
<1> HIDE DEF index
<1>3. Settle(chunk, results, index) \in {Rejected, <<"resolved", c, "match">>}
  BY <1>2, SettleFacts, Zenon
<1> QED
  BY <1>3, Zenon DEF index

LEMMA BatcherInvInit == BatcherInit => BatcherTypeOK /\ LookupsAreOwn
<1> SUFFICES ASSUME BatcherInit PROVE BatcherTypeOK /\ LookupsAreOwn
  OBVIOUS
<1>1. outcome \in [Callers -> {Idle, Waiting, Rejected} \cup Resolved]
  BY DEF BatcherInit
<1>2. BatcherTypeOK
  <2>1. buffer \in Seq(Callers) /\ calls \subseteq Calls
    BY DEF BatcherInit
  <2> QED
    BY <1>1, <2>1, Zenon DEF BatcherInit, BatcherTypeOK
<1>3. \A c \in Callers : outcome[c] = Idle
  BY DEF BatcherInit
<1>4. OwnVerdict
  BY <1>3, OutcomeKinds, Zenon DEF OwnVerdict
<1> QED
  BY <1>2, <1>4 DEF BatcherInit, LookupsAreOwn, SweepKeepsBudget

\* A step that gives callers their outcome, and no new call.
LEMMA SettlingKeepsOwn ==
  ASSUME BatcherTypeOK, LookupsAreOwn, calls' \subseteq calls, UNCHANGED <<buffer, timer, due>>,
         outcome' = [c \in Callers |-> outcome'[c]],
         \A c \in Callers : outcome'[c] \in {outcome[c], Rejected, <<"resolved", c, "match">>}
  PROVE  BatcherTypeOK' /\ LookupsAreOwn'
<1>1. \A c \in Callers : <<"resolved", c, "match">> \in Resolved
  BY OutcomeKinds DEF Statuses
<1>2. \A c \in Callers : outcome'[c] \in {Idle, Waiting, Rejected} \cup Resolved
  BY <1>1 DEF BatcherTypeOK
<1>3. outcome' \in [Callers -> {Idle, Waiting, Rejected} \cup Resolved]
  BY <1>2, Zenon
<1>4. BatcherTypeOK'
  BY <1>3, Zenon DEF BatcherTypeOK, Chunks, Calls, Resolved
<1>5. OwnVerdict'
  BY OutcomeKinds, Zenon DEF LookupsAreOwn, OwnVerdict
<1>6. SweepKeepsBudget'
  BY Zenon DEF LookupsAreOwn, SweepKeepsBudget
<1> QED
  BY <1>4, <1>5, <1>6 DEF LookupsAreOwn

LEMMA BatcherInvStep ==
  BatcherTypeOK /\ LookupsAreOwn /\ [BatcherNext]_batcherVars => BatcherTypeOK' /\ LookupsAreOwn'
<1> SUFFICES ASSUME BatcherTypeOK, LookupsAreOwn, [BatcherNext]_batcherVars
             PROVE  BatcherTypeOK' /\ LookupsAreOwn'
  OBVIOUS
<1>1. CASE UNCHANGED batcherVars
  BY <1>1, Zenon DEF batcherVars, BatcherTypeOK, LookupsAreOwn, OwnVerdict, SweepKeepsBudget
<1>2. ASSUME NEW c \in Callers, Enqueue(c) PROVE BatcherTypeOK' /\ LookupsAreOwn'
  <2>1. /\ buffer \in Seq(Callers) /\ outcome \in [Callers -> {Idle, Waiting, Rejected} \cup Resolved]
        /\ timer \in BOOLEAN /\ due \in BOOLEAN
    BY DEF BatcherTypeOK
  <2>2. /\ buffer' \in Seq(Callers) /\ UNCHANGED calls
        /\ timer' = TRUE /\ due' = (due \/ ~timer)
        /\ outcome' = [outcome EXCEPT ![c] = Waiting]
    BY <1>2, <2>1 DEF Enqueue
  <2>3. timer' \in BOOLEAN /\ due' \in BOOLEAN
    BY <2>1, <2>2, Zenon
  <2>4. outcome' \in [Callers -> {Idle, Waiting, Rejected} \cup Resolved]
    BY <2>1, <2>2
  <2>5. BatcherTypeOK'
    BY <2>2, <2>3, <2>4, Zenon DEF BatcherTypeOK, Calls, Chunks, Resolved
  <2>6. OwnVerdict'
    BY <2>1, <2>2, OutcomeKinds DEF LookupsAreOwn, OwnVerdict
  <2>7. SweepKeepsBudget'
    BY <2>2, Zenon DEF LookupsAreOwn, SweepKeepsBudget
  <2> QED
    BY <2>5, <2>6, <2>7 DEF LookupsAreOwn
<1>3. CASE FlushBuffer
  <2>1. \A call \in calls' :
          \/ call \in calls
          \/ \E lot \in Parts(buffer) : \E chunk \in Slices(lot) : call = Dispatch(chunk)
    BY <1>3, Zenon DEF FlushBuffer
  <2>2. ASSUME NEW call \in calls'
        PROVE  /\ call \in Calls
               /\ call.suppressed => \A c \in ToSet(call.chunk) : LaneOf[c] = "live"
    <3>1. CASE call \in calls
      BY <3>1 DEF BatcherTypeOK, LookupsAreOwn, SweepKeepsBudget
    <3>2. ASSUME NEW lot \in Parts(buffer), NEW chunk \in Slices(lot), call = Dispatch(chunk)
          PROVE  /\ call \in Calls
                 /\ call.suppressed => \A c \in ToSet(call.chunk) : LaneOf[c] = "live"
      BY <3>2, FlushFacts
    <3> QED
      BY <2>1, <3>1, <3>2
  <2>3. buffer' = << >> /\ UNCHANGED outcome /\ due' \in BOOLEAN /\ timer' \in BOOLEAN
    BY <1>3 DEF FlushBuffer, Unset
  <2>4. BatcherTypeOK'
    <3>1. buffer' \in Seq(Callers)
      BY <2>3
    <3> QED
      BY <2>2, <2>3, <3>1, Zenon DEF BatcherTypeOK, Calls, Chunks, Resolved
  <2> QED
    BY <2>2, <2>3, <2>4, Zenon DEF LookupsAreOwn, OwnVerdict, SweepKeepsBudget
<1>4. ASSUME NEW call \in calls, CallEnds(call) PROVE BatcherTypeOK' /\ LookupsAreOwn'
  <2>1. call.chunk \in Chunks
    BY DEF BatcherTypeOK, Calls
  <2>2. CASE Fails(call)
    BY <2>2, SettlingKeepsOwn DEF Fails
  <2>3. ASSUME NEW results \in Answers(call.chunk), Answered(call, results)
        PROVE  BatcherTypeOK' /\ LookupsAreOwn'
    <3>1. /\ calls' \subseteq calls /\ UNCHANGED <<buffer, timer, due>>
          /\ outcome' = [c \in Callers |-> outcome'[c]]
      BY <2>3 DEF Answered
    <3>2. ASSUME NEW c \in Callers
          PROVE  outcome'[c] \in {outcome[c], Rejected, <<"resolved", c, "match">>}
      <4>1. CASE c \in ToSet(call.chunk)
        <5>1. outcome'[c] = Settle(call.chunk, results,
                                   CHOOSE i \in DOMAIN call.chunk : call.chunk[i] = c)
          BY <2>3, <4>1, Zenon DEF Answered
        <5>2. Settle(call.chunk, results, CHOOSE i \in DOMAIN call.chunk : call.chunk[i] = c)
                \in {Rejected, <<"resolved", c, "match">>}
          BY <2>1, <4>1, AnsweredOwn, Zenon
        <5> HIDE DEF Rejected
        <5> QED
          BY <5>1, <5>2, Zenon
      <4>2. CASE c \notin ToSet(call.chunk)
        BY <2>3, <4>2, Zenon DEF Answered
      <4> QED
        BY <4>1, <4>2
    <3> QED
      BY <3>1, <3>2, SettlingKeepsOwn
  <2> QED
    BY <1>4, <2>2, <2>3 DEF CallEnds
<1> QED
  BY <1>1, <1>2, <1>3, <1>4, Zenon DEF BatcherNext

\* The buffer, the timer, the calls and the outcomes have their types.
THEOREM BatcherTypeCorrect == BatcherSpec => []BatcherTypeOK
  BY BatcherInvInit, BatcherInvStep, PTL DEF BatcherSpec

\* A caller gets the verdict of its own row, and one that LML did compute; a
\* lookup of the sweep never goes without the budget.
THEOREM EveryLookupIsOwn == BatcherSpec => []LookupsAreOwn
  BY BatcherInvInit, BatcherInvStep, PTL DEF BatcherSpec

-----------------------------------------------------------------------------
(* The parts side by side: what is proved of a part holds of the run MCFeed, *)
(* in which the others stand still.                                          *)

\* The constants that the run gives the lifecycle are as it assumes.
LEMMA LifecycleInstance == Lifecycle!LifecycleAssumption
  BY InstanceAssumption DEF Lifecycle!LifecycleAssumption

LEMMA PartsStart == MCInit => Init /\ ProbeInit /\ BatcherInit /\ Lifecycle!Init
  BY DEF MCInit

LEMMA PartsStep ==
  [MCNext]_allVars =>
    /\ [Next]_vars
    /\ [ProbeNext]_probeVars
    /\ [BatcherNext]_batcherVars
    /\ [Lifecycle!Next]_(Lifecycle!vars)
<1>1. lifecycleVars' = lifecycleVars => UNCHANGED Lifecycle!vars
  BY DEF lifecycleVars, Lifecycle!vars, Lifecycle!rowVars, Lifecycle!workerVars, Lifecycle!jobVars,
     Lifecycle!healVars
<1>2. UNCHANGED allVars => UNCHANGED <<vars, probeVars, batcherVars, lifecycleVars>>
  BY DEF allVars
<1> QED
  BY <1>1, <1>2 DEF MCNext, FeedGoesOn, ProbeGoesOn, BatcherGoesOn, LifecycleGoesOn

\* The types of the four.
THEOREM FeedPartsTypeCorrect == MCSpec => []PartsTypeOK
<1>1. Lifecycle!Spec => []Lifecycle!TypeOK
  BY LifecycleInstance, Lifecycle!TypeCorrect
<1> QED
  BY <1>1, PartsStart, PartsStep, FeedTypeCorrect, ProbeTypeCorrect, BatcherTypeCorrect,
     PTL DEF MCSpec, Spec, ProbeSpec, BatcherSpec, Lifecycle!Spec, PartsTypeOK

\* In the run, whose handlers give up within the TTL, no two are ever behind the
\* claim of one row.
THEOREM OneHolderInFeed == MCSpec => []OneHolder
<1>1. Lifecycle!Spec => []Lifecycle!TypeOK
  BY LifecycleInstance, Lifecycle!TypeCorrect
<1>2. Lifecycle!Init => Lifecycle!HolderInv
  BY LifecycleInstance, Lifecycle!HolderInit
<1>3. Lifecycle!HolderInv /\ Lifecycle!TypeOK' /\ [Lifecycle!Next]_(Lifecycle!vars)
        => Lifecycle!HolderInv'
  BY LifecycleInstance, Lifecycle!HolderStep
<1>4. Lifecycle!HolderInv => OneHolder
  BY DEF Lifecycle!HolderInv, OneHolder
<1> QED
  BY <1>1, <1>2, <1>3, <1>4, PartsStart, PartsStep, PTL DEF MCSpec, Lifecycle!Spec
=============================================================================

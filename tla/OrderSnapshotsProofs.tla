------------------------- MODULE OrderSnapshotsProofs -------------------------
(***************************************************************************)
(* Proofs about OrderStatus and OrderSnapshots, for any number of writers  *)
(* and versions and for any statuses the shop or a carrier sends.          *)
(***************************************************************************)
EXTENDS OrderSnapshots, TLAPS

(* Normalize is idempotent.                                                *)
LEMMA NormalizeIdempotent ==
    ASSUME NEW s
    PROVE  Normalize(Normalize(s)) = Normalize(s)
BY DEF Normalize

(* A status that has a rank is no alias.                                   *)
LEMMA RankedIsNormal ==
    ASSUME NEW s, Rank(s) # 0
    PROVE  Normalize(s) = s
BY DEF Rank, TerminalPriority, ProgressPriority, Normalize

(* Ranks are numbers, and every terminal status ranks above all progress.  *)
LEMMA RankType ==
    ASSUME NEW s
    PROVE  /\ Rank(s) \in Nat
           /\ Rank(s) <= 102
           /\ TerminalPriority(s) \in Nat
           /\ ProgressPriority(s) \in 0 .. 5
           /\ TerminalPriority(s) > 0 => TerminalPriority(s) >= 100
BY DEF Rank, TerminalPriority, ProgressPriority

(* Merge never takes a status back: the result ranks at least as high as   *)
(* the status the order had.                                               *)
THEOREM MergeKeepsRank ==
    ASSUME NEW c, NEW d
    PROVE  Rank(Merge(c, d)) >= Rank(c)
<1>1. CASE Rank(c) = 0
  BY <1>1, RankType
<1>2. CASE Rank(c) # 0
  <2>1. Normalize(c) = c
    BY <1>2, RankedIsNormal
  <2>2. Merge(c, d) = c \/ Merge(c, d) = Normalize(d)
    BY <2>1 DEF Merge
  <2>3. CASE Merge(c, d) = c
    BY <2>3, RankType
  <2>4. CASE Merge(c, d) = Normalize(d) /\ Merge(c, d) # c
    <3>1. c # ""
      BY <1>2 DEF Rank, TerminalPriority, ProgressPriority
    <3>2. ~ (IF TerminalPriority(c) > 0
             THEN TerminalPriority(Normalize(d)) <= TerminalPriority(c)
             ELSE /\ TerminalPriority(Normalize(d)) = 0
                  /\ ProgressPriority(Normalize(d)) < ProgressPriority(c))
      BY <2>1, <2>4, <3>1 DEF Merge
    <3> HIDE DEF TerminalPriority, ProgressPriority, Normalize
    <3>3. /\ TerminalPriority(Normalize(d)) \in Nat
          /\ TerminalPriority(c) \in Nat
          /\ ProgressPriority(Normalize(d)) \in 0 .. 5
          /\ ProgressPriority(c) \in 0 .. 5
          /\ TerminalPriority(Normalize(d)) > 0
                => TerminalPriority(Normalize(d)) >= 100
      BY RankType
    <3>4. Rank(Normalize(d)) >= Rank(c)
      BY <3>2, <3>3 DEF Rank
    <3>5. QED
      BY <2>4, <3>4
  <2>5. QED
    BY <2>2, <2>3, <2>4
<1>3. QED
  BY <1>1, <1>2

(* What Merge returns is one of its arguments, normalised.                 *)
LEMMA MergeNormal ==
    ASSUME NEW c, NEW d
    PROVE  Merge(c, d) \in {Normalize(c), Normalize(d)}
BY DEF Merge

(* The later of two normalised statuses in the order of Rank; of two that  *)
(* rank the same the one that came last.                                   *)
Later(c, d) == IF d = "" \/ (c # "" /\ Rank(d) < Rank(c)) THEN c ELSE d

(* Terminal statuses of one priority are one status.                       *)
LEMMA TerminalsDiffer ==
    ASSUME NEW c, NEW d, TerminalPriority(c) > 0,
           TerminalPriority(c) = TerminalPriority(d)
    PROVE  c = d
BY DEF TerminalPriority

(* The switches of Merge over two priority tables, and its early returns,  *)
(* amount to one comparison in one order of all statuses, the unlisted     *)
(* ones included.                                                          *)
THEOREM MergeIsLater ==
    ASSUME NEW c, NEW d
    PROVE  Merge(c, d) = Later(Normalize(c), Normalize(d))
<1> DEFINE n == Normalize(c)
           m == Normalize(d)
<1>1. Merge(c, d) =
        IF m = "" \/ ( /\ n # ""
                       /\ IF TerminalPriority(n) > 0
                          THEN TerminalPriority(m) <= TerminalPriority(n)
                          ELSE /\ TerminalPriority(m) = 0
                               /\ ProgressPriority(m) < ProgressPriority(n))
        THEN n ELSE m
  BY DEF Merge
<1> HIDE DEF n, m
<1>2. /\ Rank(n) = IF TerminalPriority(n) > 0 THEN TerminalPriority(n) ELSE ProgressPriority(n)
      /\ Rank(m) = IF TerminalPriority(m) > 0 THEN TerminalPriority(m) ELSE ProgressPriority(m)
  BY DEF Rank
<1>3. /\ TerminalPriority(n) \in Nat /\ ProgressPriority(n) \in 0 .. 5
      /\ TerminalPriority(m) \in Nat /\ ProgressPriority(m) \in 0 .. 5
      /\ TerminalPriority(n) > 0 => TerminalPriority(n) >= 100
      /\ TerminalPriority(m) > 0 => TerminalPriority(m) >= 100
  BY RankType
<1>4. TerminalPriority(n) > 0 /\ TerminalPriority(m) = TerminalPriority(n) => m = n
  BY TerminalsDiffer
<1> DEFINE stays == IF TerminalPriority(n) > 0
                    THEN TerminalPriority(m) <= TerminalPriority(n)
                    ELSE /\ TerminalPriority(m) = 0
                         /\ ProgressPriority(m) < ProgressPriority(n)
<1>5. stays => Rank(m) < Rank(n) \/ m = n
  BY <1>2, <1>3, <1>4
<1>6. Rank(m) < Rank(n) => stays
  BY <1>2, <1>3
<1>7. Merge(c, d) = IF m = "" \/ (n # "" /\ stays) THEN n ELSE m
  BY <1>1
<1> HIDE DEF stays
<1>8. Merge(c, d) = Later(n, m)
  BY <1>5, <1>6, <1>7 DEF Later
<1>9. QED
  BY <1>8 DEF n, m

(* What Merge returns needs no normalising.                                *)
LEMMA MergeIsNormal ==
    ASSUME NEW c, NEW d
    PROVE  Normalize(Merge(c, d)) = Merge(c, d)
BY MergeNormal, NormalizeIdempotent

(* Of three statuses one that outranks another may come before it or after.*)
LEMMA LaterSwaps ==
    ASSUME NEW x, NEW y, NEW z, Rank(y) < Rank(z)
    PROVE  Later(Later(x, y), z) = Later(Later(x, z), y)
<1>1. Rank(x) \in Nat /\ Rank(y) \in Nat /\ Rank(z) \in Nat
  BY RankType
<1>2. z # ""
  <2>1. z = "" => Rank(z) = 0
    BY DEF Rank, TerminalPriority, ProgressPriority
  <2>2. Rank(z) # 0
    BY <1>1
  <2>3. QED
    BY <2>1, <2>2
<1>3. ~(Rank(z) < Rank(y))
  BY <1>1
<1>4. CASE x # "" /\ Rank(z) < Rank(x)
  <2>1. Rank(z) < Rank(x)
    BY <1>4
  <2>2. Rank(y) < Rank(x)
    BY <1>1, <2>1
  <2>3. QED
    BY <1>4, <2>2 DEF Later
<1>5. CASE ~(x # "" /\ Rank(z) < Rank(x))
  <2>1. Later(x, z) = z /\ Later(z, y) = z
    BY <1>2, <1>5 DEF Later
  <2>2. Later(x, y) = x \/ Later(x, y) = y
    BY DEF Later
  <2>3. Later(x, z) = z /\ Later(y, z) = z
    BY <1>2, <1>3, <1>5 DEF Later
  <2>4. QED
    BY <2>1, <2>2, <2>3
<1>6. QED
  BY <1>4, <1>5

(* Snapshots and webhooks that swap places lead to the same status, unless *)
(* two of them rank the same: Merge does not depend on their order.        *)
THEOREM MergeOrderIndependent ==
    ASSUME NEW c, NEW a, NEW b, Rank(Normalize(a)) # Rank(Normalize(b))
    PROVE  Merge(Merge(c, a), b) = Merge(Merge(c, b), a)
<1> DEFINE x == Normalize(c)
           y == Normalize(a)
           z == Normalize(b)
<1>1. /\ Merge(Merge(c, a), b) = Later(Later(x, y), z)
      /\ Merge(Merge(c, b), a) = Later(Later(x, z), y)
  BY MergeIsLater, MergeIsNormal
<1> HIDE DEF x, y, z
<1>2. Rank(x) \in Nat /\ Rank(y) \in Nat /\ Rank(z) \in Nat
  BY RankType
<1>3. Rank(y) # Rank(z)
  BY DEF y, z
<1>4. CASE Rank(y) < Rank(z)
  BY <1>1, <1>4, LaterSwaps
<1>5. CASE Rank(z) < Rank(y)
  BY <1>1, <1>5, LaterSwaps
<1>6. QED
  BY <1>2, <1>3, <1>4, <1>5

(* A status that is merged again at once changes nothing.                  *)
THEOREM MergeRepeats ==
    ASSUME NEW c, NEW a
    PROVE  Merge(Merge(c, a), a) = Merge(c, a)
<1> DEFINE x == Normalize(c)
           y == Normalize(a)
<1>1. /\ Merge(Merge(c, a), a) = Later(Later(x, y), y)
      /\ Merge(c, a) = Later(x, y)
  BY MergeIsLater, MergeIsNormal
<1> HIDE DEF x, y
<1>2. QED
  BY <1>1 DEF Later

(* The status of a snapshot is normalised.                                 *)
LEMMA InputStatusNormal ==
    ASSUME NEW input
    PROVE  Normalize(FromOrderInput(input)) = FromOrderInput(input)
<1>1. FromOrderInput(input) \in
        {Normalize(input.status), "refunded", "fulfilled", "processing"}
  BY DEF FromOrderInput
<1>2. QED
  BY <1>1, NormalizeIdempotent DEF Normalize

(* A parcel gives an order a status of the lifecycle.                      *)
LEMMA TrackingStatusType ==
    ASSUME NEW s
    PROVE  FromTrackingStatus(s) \in Lifecycle
BY DEF FromTrackingStatus, Lifecycle, Terminal, Progress

(* Every status a row can have is normalised.                              *)
LEMMA StatusesNormal ==
    ASSUME NEW s \in Statuses \cup {""}
    PROVE  Normalize(s) = s
<1>1. CASE s \in Lifecycle \cup {""}
  BY <1>1 DEF Lifecycle, Terminal, Progress, Normalize
<1>2. CASE \E input \in Inputs : s = FromOrderInput(input)
  BY <1>2, InputStatusNormal
<1>3. QED
  BY <1>1, <1>2 DEF Statuses

(* A deleted order has the highest rank, and no other status has it.       *)
LEMMA DeletedIsLast ==
    /\ Rank("deleted") = 102
    /\ Rank("") = 0
    /\ \A s : Rank(s) >= 102 => s = "deleted"
BY DEF Rank, TerminalPriority, ProgressPriority

(* Merge keeps a deleted order deleted.                                    *)
LEMMA DeletedMerge ==
    ASSUME NEW d
    PROVE  Merge("deleted", d) = "deleted"
BY MergeKeepsRank, DeletedIsLast

(* A snapshot never has an empty status.                                   *)
LEMMA InputStatusNonempty ==
    ASSUME NEW input
    PROVE  FromOrderInput(input) # ""
BY DEF FromOrderInput, Lifecycle, Terminal, Progress

(* The status a snapshot gives the row is a status of the model.           *)
LEMMA MergeType ==
    ASSUME NEW c \in Statuses \cup {""}, NEW input \in Inputs
    PROVE  Merge(c, FromOrderInput(input)) \in Statuses
<1>1. FromOrderInput(input) \in Statuses
  BY DEF Statuses
<1>2. Normalize(c) = c
  BY StatusesNormal
<1>3. Normalize(FromOrderInput(input)) = FromOrderInput(input)
  BY InputStatusNormal
<1>4. FromOrderInput(input) # ""
  BY InputStatusNonempty
<1>5. QED
  <2> HIDE DEF FromOrderInput, Normalize
  <2>1. CASE c = ""
    BY <2>1, <1>1, <1>2, <1>3, <1>4 DEF Merge
  <2>2. CASE c # ""
    BY <2>2, <1>1, <1>2, <1>3, MergeNormal
  <2>3. QED
    BY <2>1, <2>2

-----------------------------------------------------------------------------
(* Types.                                                                  *)

(* The types of the columns of a row.                                      *)
LEMMA RowType ==
    ASSUME NEW r \in Rows
    PROVE  /\ r.modified \in Times
           /\ r.status \in Statuses \cup {""}
           /\ r.fulfillment \in Fulfillments
           /\ r.payload \in 0 .. MaxVersions
           /\ r.payload # 0 => r \in [modified : Times, status : Statuses,
                 fulfillment : Fulfillments, payload : 1 .. MaxVersions]
<1>1. CASE r = NoRow
  <2>1. /\ r.modified = 0
        /\ r.status = ""
        /\ r.fulfillment = ""
        /\ r.payload = 0
    BY <1>1 DEF NoRow
  <2>2. 0 \in Times /\ 0 \in 0 .. MaxVersions /\ "" \in Fulfillments
    BY BoundAssumption DEF Times, Fulfillments
  <2>3. QED
    BY <2>1, <2>2
<1>2. CASE r # NoRow
  <2>1. r \in [modified : Times, status : Statuses,
               fulfillment : Fulfillments, payload : 1 .. MaxVersions]
    BY <1>2 DEF Rows
  <2>2. /\ r.modified \in Times
        /\ r.status \in Statuses
        /\ r.fulfillment \in Fulfillments
        /\ r.payload \in 1 .. MaxVersions
    BY <2>1
  <2>3. 1 .. MaxVersions \subseteq 0 .. MaxVersions
    BY BoundAssumption
  <2>4. r.payload \in 0 .. MaxVersions
    BY <2>2, <2>3
  <2>5. r.status \in Statuses \cup {""}
    BY <2>2
  <2>6. QED
    BY <2>1, <2>2, <2>4, <2>5
<1>3. QED
  BY <1>1, <1>2

(* modified_at_woo is a number.                                            *)
LEMMA ModifiedType ==
    ASSUME NEW r \in Rows
    PROVE  r.modified \in Nat
<1>1. r.modified \in Times
  BY RowType
<1>2. Times \subseteq Nat
  BY BoundAssumption DEF Times
<1>3. QED
  BY <1>1, <1>2

(* A record with the fields of a row is one.                               *)
LEMMA RowOf ==
    ASSUME NEW m \in Times, NEW s \in Statuses, NEW f \in Fulfillments,
           NEW p \in 1 .. MaxVersions, NEW r,
           r = [modified |-> m, status |-> s, fulfillment |-> f, payload |-> p]
    PROVE  /\ r \in Rows
           /\ r.modified = m
           /\ r.status = s
           /\ r.fulfillment = f
<1>1. r \in [modified : Times, status : Statuses,
             fulfillment : Fulfillments, payload : 1 .. MaxVersions]
  OBVIOUS
<1>2. r \in Rows
  BY <1>1 DEF Rows
<1>3. r.modified = m /\ r.status = s /\ r.fulfillment = f
  OBVIOUS
<1>4. QED
  BY <1>2, <1>3

(* A missing row is allowed for.                                           *)
LEMMA NoRowType == NoRow \in Rows
BY DEF Rows

(* The elements of a sequence.                                             *)
LEMMA SeqElement ==
    ASSUME NEW S, NEW s \in Seq(S), NEW n \in 1 .. Len(s)
    PROVE  s[n] \in S
OBVIOUS

(* The types of a version of the order.                                    *)
LEMMA VersionType ==
    ASSUME TypeOK, NEW n \in 1 .. Len(versions)
    PROVE  /\ versions[n].at \in 1 .. MaxVersions
           /\ versions[n].input \in Inputs
<1>1. versions \in Seq([at : 1 .. MaxVersions, input : Inputs])
  BY DEF TypeOK
<1>2. versions[n] \in [at : 1 .. MaxVersions, input : Inputs]
  BY <1>1, SeqElement
<1>3. QED
  BY <1>2

(* There are finitely many versions.                                       *)
LEMMA LenType == TypeOK => Len(versions) \in Nat
BY DEF TypeOK

(* The last version is the newest.                                         *)
LEMMA LatestType ==
    ASSUME TypeOK, VersionsOrdered
    PROVE  /\ Latest \in 0 .. Len(versions)
           /\ \A n \in 1 .. Len(versions) :
                 versions[n].at \in 1 .. MaxVersions /\ versions[n].at <= Latest
<1>1. CASE versions = <<>>
  BY <1>1 DEF Latest, TypeOK
<1>2. CASE versions # <<>>
  <2>1. Len(versions) \in 1 .. Len(versions)
    BY <1>2 DEF TypeOK
  <2>2. \A n \in 1 .. Len(versions) : versions[n].at \in 1 .. MaxVersions
    BY VersionType
  <2>3. Latest = versions[Len(versions)].at
    BY <1>2 DEF Latest
  <2>4. QED
    BY <2>1, <2>2, <2>3, BoundAssumption DEF VersionsOrdered, TypeOK
<1>3. QED
  BY <1>1, <1>2

(* What a writer writes is a row.                                          *)
LEMMA WrittenType ==
    ASSUME TypeOK, NotStaleWhenRead, NEW w \in Writers, pc[w] = "write"
    PROVE  /\ Written(w) \in Rows
           /\ Written(w).modified = versions[snapshot[w]].at
           /\ Written(w).status =
                 Merge(seen[w].status,
                       FromOrderInput(versions[snapshot[w]].input))
           /\ ImpliesFulfilled(Written(w).status)
                 => Written(w).fulfillment = "fulfilled"
<1> DEFINE version == versions[snapshot[w]]
           status  == Merge(seen[w].status, FromOrderInput(version.input))
           fulfillment == IF ImpliesFulfilled(status) THEN "fulfilled"
                          ELSE IF version.input.fulfillment = ""
                               THEN seen[w].fulfillment
                          ELSE version.input.fulfillment
<1>1. snapshot[w] \in 1 .. Len(versions)
  BY DEF NotStaleWhenRead
<1>2. version.at \in 1 .. MaxVersions /\ version.input \in Inputs
  BY <1>1, VersionType
<1>3. seen[w] \in Rows
  BY DEF TypeOK
<1>4. status \in Statuses
  BY <1>2, <1>3, RowType, MergeType
<1>5. /\ version.input.fulfillment \in Fulfillments
      /\ "fulfilled" \in Fulfillments
      /\ seen[w].fulfillment \in Fulfillments
  BY <1>2, <1>3, RowType DEF Fulfillments
<1>6. fulfillment \in Fulfillments
  BY <1>5
<1>7. version.at \in Times
  BY <1>2, BoundAssumption DEF Times
<1>8. snapshot[w] \in 1 .. MaxVersions
  BY <1>1, BoundAssumption DEF TypeOK
<1>9. Written(w) = [modified |-> version.at, status |-> status,
                    fulfillment |-> fulfillment, payload |-> snapshot[w]]
  BY DEF Written
<1>10. ImpliesFulfilled(status) => fulfillment = "fulfilled"
  OBVIOUS
<1> HIDE DEF version, status, fulfillment
<1>11. /\ Written(w) \in Rows
       /\ Written(w).modified = version.at
       /\ Written(w).status = status
       /\ Written(w).fulfillment = fulfillment
  BY <1>4, <1>6, <1>7, <1>8, <1>9, RowOf
<1>12. QED
  BY <1>10, <1>11 DEF version, status

(* What deleting the order makes of its row.                               *)
LEMMA DeletedRow ==
    ASSUME TypeOK, VersionsOrdered, MarkOrderDeleted
    PROVE  /\ row' \in Rows
           /\ row'.status = "deleted"
           /\ row'.modified >= row.modified
<1>1. row \in [modified : Times, status : Statuses,
               fulfillment : Fulfillments, payload : 1 .. MaxVersions]
  BY RowType DEF MarkOrderDeleted, Exists, TypeOK
<1> DEFINE time == IF row.modified > Latest THEN row.modified ELSE Latest + 1
<1>2. /\ row.modified \in Times
      /\ row.fulfillment \in Fulfillments
      /\ row.payload \in 1 .. MaxVersions
  BY <1>1
<1>3. time \in Times /\ time >= row.modified
  BY <1>2, LatestType, BoundAssumption DEF Times, TypeOK
<1>4. "deleted" \in Statuses
  BY DEF Statuses, Lifecycle, Terminal
<1>5. row' = [modified |-> time, status |-> "deleted",
              fulfillment |-> row.fulfillment, payload |-> row.payload]
  BY <1>1 DEF MarkOrderDeleted
<1> HIDE DEF time
<1>6. QED
  BY <1>2, <1>3, <1>4, <1>5, RowOf

(* What a parcel's status makes of it.                                     *)
LEMMA TrackedRow ==
    ASSUME TypeOK, ApplyTrackingStatusToOrder
    PROVE  /\ row' \in Rows
           /\ row'.modified = row.modified
           /\ ImpliesFulfilled(row'.status) => row'.fulfillment = "fulfilled"
<1>1. row \in [modified : Times, status : Statuses,
               fulfillment : Fulfillments, payload : 1 .. MaxVersions]
  BY RowType DEF ApplyTrackingStatusToOrder, Exists, TypeOK
<1>2. PICK s \in TrackingStatuses :
        row' = [row EXCEPT
                  !.status = FromTrackingStatus(s),
                  !.fulfillment = IF ImpliesFulfilled(FromTrackingStatus(s))
                                  THEN "fulfilled" ELSE @]
  BY DEF ApplyTrackingStatusToOrder
<1> DEFINE status == FromTrackingStatus(s)
           fulfillment == IF ImpliesFulfilled(status) THEN "fulfilled"
                          ELSE row.fulfillment
<1>3. status \in Statuses
  BY TrackingStatusType DEF Statuses
<1>4. /\ row.modified \in Times
      /\ row.payload \in 1 .. MaxVersions
      /\ fulfillment \in Fulfillments
  BY <1>1 DEF Fulfillments
<1>5. row' = [modified |-> row.modified, status |-> status,
              fulfillment |-> fulfillment, payload |-> row.payload]
  BY <1>1, <1>2
<1>6. ImpliesFulfilled(status) => fulfillment = "fulfilled"
  OBVIOUS
<1> HIDE DEF status, fulfillment
<1>7. QED
  BY <1>3, <1>4, <1>5, <1>6, RowOf

-----------------------------------------------------------------------------
(* The inductive invariant holds initially.                                *)
LEMMA InitIInv == Init => IInv
<1> SUFFICES ASSUME Init PROVE IInv
  OBVIOUS
<1>1. /\ versions \in Seq([at : 1 .. MaxVersions, input : Inputs])
      /\ Len(versions) = 0
  BY DEF Init
<1>2. row = NoRow /\ \A w \in Writers : pc[w] = "idle"
  BY DEF Init
<1>3. TypeOK
  <2>1. 0 \in 0 .. Len(versions) /\ Len(versions) <= MaxVersions
    BY <1>1, BoundAssumption
  <2>2. /\ pc \in [Writers -> {"idle", "write"}]
        /\ snapshot \in [Writers -> 0 .. Len(versions)]
        /\ seen \in [Writers -> Rows]
    BY <2>1, NoRowType DEF Init
  <2>3. QED
    BY <1>1, <2>1, <2>2, NoRowType DEF Init, TypeOK
<1>4. VersionsOrdered /\ NotStaleWhenRead /\ FreshestKept
  BY <1>1, <1>2 DEF Init, VersionsOrdered, NotStaleWhenRead, FreshestKept
<1>5. FulfillmentAgrees
  BY <1>2 DEF FulfillmentAgrees, NoRow, ImpliesFulfilled, Normalize, Progress
<1>6. QED
  BY <1>3, <1>4, <1>5 DEF IInv

(* Every step keeps the invariant, one lemma for each action.              *)
LEMMA ChangeIInv ==
    ASSUME IInv, Change
    PROVE  IInv'
<1> USE DEF IInv
<1>1. PICK input \in Inputs, tick \in {0, 1} :
        /\ Latest + tick > 0
        /\ versions' = Append(versions, [at |-> Latest + tick, input |-> input])
  BY DEF Change, Inputs, TypeOK
<1> DEFINE version == [at |-> Latest + tick, input |-> input]
<1>2. /\ Len(versions) \in Nat
      /\ Len(versions) < MaxVersions
      /\ versions \in Seq([at : 1 .. MaxVersions, input : Inputs])
  BY DEF Change, TypeOK
<1>3. Latest + tick \in 1 .. MaxVersions /\ Latest + tick <= Len(versions) + 1
  BY <1>1, <1>2, LatestType, BoundAssumption
<1>4. version \in [at : 1 .. MaxVersions, input : Inputs]
  BY <1>3
<1>5. version.at = Latest + tick
  OBVIOUS
<1> HIDE DEF version
<1>6. versions' = Append(versions, version)
  BY <1>1 DEF version
<1>7. /\ versions' \in Seq([at : 1 .. MaxVersions, input : Inputs])
      /\ Len(versions') = Len(versions) + 1
      /\ \A n \in 1 .. Len(versions) : versions'[n] = versions[n]
      /\ versions'[Len(versions) + 1] = version
  BY <1>2, <1>4, <1>6
<1>8. TypeOK'
  <2>1. /\ Len(versions') <= MaxVersions
        /\ 0 .. Len(versions) \subseteq 0 .. Len(versions')
        /\ 1 .. Len(versions) \subseteq 1 .. Len(versions')
    BY <1>2, <1>7, BoundAssumption
  <2>2. UNCHANGED <<platform, gone, row, pc, snapshot, seen, applied, overtaken>>
    BY DEF Change, writer
  <2>3. snapshot' \in [Writers -> 0 .. Len(versions')]
    BY <2>1, <2>2 DEF TypeOK
  <2>4. applied' \subseteq 1 .. Len(versions')
    BY <2>1, <2>2 DEF TypeOK
  <2>5. QED
    BY <1>7, <2>1, <2>2, <2>3, <2>4 DEF TypeOK
<1>9. VersionsOrdered'
  <2>1. \A n \in 1 .. Len(versions) :
          versions[n].at \in 1 .. MaxVersions /\ versions[n].at <= Latest
    BY LatestType
  <2>2. \A n \in 1 .. Len(versions) : versions'[n].at = versions[n].at
    BY <1>7
  <2>3. versions'[Len(versions) + 1].at = Latest + tick
    BY <1>5, <1>7
  <2>4. Latest \in Nat
    BY LatestType, <1>2
  <2>5. ASSUME NEW n \in 1 .. Len(versions')
        PROVE  /\ versions'[n].at <= n
               /\ \A m \in 1 .. n : versions'[m].at <= versions'[n].at
    <3>1. CASE n \in 1 .. Len(versions)
      BY <3>1, <1>2, <2>2, SMTT(15) DEF VersionsOrdered
    <3>2. CASE n = Len(versions) + 1
      <4>1. versions'[n].at = Latest + tick
        BY <3>2, <2>3
      <4>2. ASSUME NEW m \in 1 .. n
            PROVE  versions'[m].at <= Latest + tick
        <5>1. CASE m \in 1 .. Len(versions)
          <6>1. versions'[m].at \in Nat /\ versions'[m].at <= Latest
            BY <5>1, <2>1, <2>2, BoundAssumption
          <6>2. QED
            BY <6>1, <2>4
        <5>2. CASE m = n
          BY <5>2, <4>1, <2>4
        <5>3. QED
          BY <5>1, <5>2, <3>2, <1>2
      <4>3. QED
        BY <3>2, <1>3, <4>1, <4>2
    <3>3. QED
      BY <3>1, <3>2, <1>2, <1>7
  <2>6. QED
    BY <2>5 DEF VersionsOrdered
<1>10. NotStaleWhenRead'
  BY <1>2, <1>7 DEF Change, NotStaleWhenRead, writer
<1>11. FreshestKept' /\ FulfillmentAgrees'
  BY <1>2, <1>7 DEF Change, FreshestKept, FulfillmentAgrees, TypeOK
<1>12. QED
  BY <1>8, <1>9, <1>10, <1>11

(* The stale check makes the version a writer holds as new as the row it   *)
(* read.                                                                   *)
LEMMA SelectIInv ==
    ASSUME IInv, NEW w \in Writers, Select(w)
    PROVE  IInv'
<1> USE DEF IInv
<1>1. PICK n \in 1 .. Len(versions) :
        IF row.modified > versions[n].at
        THEN /\ applied' = applied \cup {n}
             /\ UNCHANGED writer
        ELSE /\ pc' = [pc EXCEPT ![w] = "write"]
             /\ snapshot' = [snapshot EXCEPT ![w] = n]
             /\ seen' = [seen EXCEPT ![w] = row]
             /\ UNCHANGED applied
  BY DEF Select
<1>2. UNCHANGED <<platform, versions, gone, row, overtaken>>
  BY DEF Select, shop
<1>3. row.modified \in Nat /\ versions[n].at \in Nat
  <2>1. row \in Rows /\ TypeOK
    BY DEF TypeOK
  <2>2. versions[n].at \in 1 .. MaxVersions
    BY <2>1, VersionType
  <2>3. QED
    BY <2>1, <2>2, ModifiedType
<1>4. TypeOK'
  <2>1. pc' \in [Writers -> {"idle", "write"}]
    BY <1>1 DEF TypeOK, writer
  <2>2. snapshot' \in [Writers -> 0 .. Len(versions)]
    <3>1. n \in 0 .. Len(versions)
      BY LenType
    <3>2. QED
      BY <1>1, <3>1 DEF TypeOK, writer
  <2>3. applied' \subseteq 1 .. Len(versions)
    BY <1>1 DEF TypeOK
  <2>4. seen' \in [Writers -> Rows]
    BY <1>1 DEF TypeOK, writer
  <2>5. QED
    BY <1>2, <2>1, <2>2, <2>3, <2>4 DEF TypeOK
<1>5. VersionsOrdered' /\ FulfillmentAgrees'
  BY <1>2 DEF VersionsOrdered, FulfillmentAgrees
<1>6. NotStaleWhenRead'
  BY <1>1, <1>2, <1>3 DEF NotStaleWhenRead, TypeOK, writer
<1>7. FreshestKept'
  BY <1>1, <1>2, <1>3 DEF FreshestKept
<1>8. QED
  BY <1>4, <1>5, <1>6, <1>7

(* When no other writer was overtaken the row is the one the writer read,  *)
(* and its version is at least as new.                                     *)
LEMMA CommitIInv ==
    ASSUME IInv, NEW w \in Writers, Commit(w)
    PROVE  IInv'
<1> USE DEF IInv
<1>1. /\ pc[w] = "write"
      /\ row' = Written(w)
      /\ applied' = applied \cup {snapshot[w]}
      /\ overtaken' = (overtaken \/ Overtaken(w))
      /\ UNCHANGED <<platform, versions, gone>>
      /\ pc' = [pc EXCEPT ![w] = "idle"]
      /\ snapshot' = [snapshot EXCEPT ![w] = 0]
      /\ seen' = [seen EXCEPT ![w] = NoRow]
  BY DEF Commit, Finish, shop
<1>2. /\ row' \in Rows
      /\ row'.modified = versions[snapshot[w]].at
      /\ ImpliesFulfilled(row'.status) => row'.fulfillment = "fulfilled"
  BY <1>1, WrittenType
<1>3. snapshot[w] \in 1 .. Len(versions)
  BY <1>1 DEF NotStaleWhenRead
<1>4. overtaken' \in BOOLEAN
  BY <1>1 DEF TypeOK, Overtaken
<1>5. TypeOK'
  <2>1. pc' \in [Writers -> {"idle", "write"}]
    BY <1>1 DEF TypeOK
  <2>2. snapshot' \in [Writers -> 0 .. Len(versions)]
    <3>1. 0 \in 0 .. Len(versions)
      BY LenType
    <3>2. QED
      BY <1>1, <3>1 DEF TypeOK
  <2>3. applied' \subseteq 1 .. Len(versions)
    BY <1>1, <1>3 DEF TypeOK
  <2>4. seen' \in [Writers -> Rows]
    BY <1>1, NoRowType DEF TypeOK
  <2>5. QED
    BY <1>1, <1>2, <1>4, <2>1, <2>2, <2>3, <2>4 DEF TypeOK
<1>6. VersionsOrdered' /\ FulfillmentAgrees'
  BY <1>1, <1>2 DEF VersionsOrdered, FulfillmentAgrees
<1>7. NotStaleWhenRead'
  BY <1>1 DEF NotStaleWhenRead, TypeOK
<1>8. FreshestKept'
  <2>1. SUFFICES ASSUME ~overtaken'
                 PROVE  \A n \in applied' : row'.modified >= versions[n].at
    BY <1>1 DEF FreshestKept
  <2>2. seen[w] = row /\ ~overtaken
    BY <1>1, <2>1 DEF Overtaken
  <2>3. row'.modified >= row.modified
    BY <1>1, <1>2, <2>2 DEF NotStaleWhenRead
  <2>4. /\ row.modified \in Nat
        /\ row'.modified \in Nat
        /\ \A n \in 1 .. Len(versions) : versions[n].at \in Nat
    <3>1. row.modified \in Nat
      BY ModifiedType DEF TypeOK
    <3>2. row'.modified \in Nat
      BY <1>2, ModifiedType
    <3>3. QED
      BY <3>1, <3>2, VersionType, BoundAssumption
  <2>5. \A n \in applied : row.modified >= versions[n].at
    BY <2>2 DEF FreshestKept
  <2>6. applied \subseteq 1 .. Len(versions)
    BY DEF TypeOK
  <2>7. QED
    BY <1>1, <1>2, <1>3, <2>3, <2>4, <2>5, <2>6
<1>9. QED
  BY <1>5, <1>6, <1>7, <1>8

(* A transaction that is rolled back changes nothing.                      *)
LEMMA AbortIInv ==
    ASSUME IInv, NEW w \in Writers, Abort(w)
    PROVE  IInv'
BY NoRowType DEF IInv, TypeOK, VersionsOrdered, NotStaleWhenRead, FreshestKept,
   FulfillmentAgrees, Abort, Finish, shop

(* Deleting an order makes its row newer.                                  *)
LEMMA MarkOrderDeletedIInv ==
    ASSUME IInv, MarkOrderDeleted
    PROVE  IInv'
<1> USE DEF IInv
<1>1. UNCHANGED <<platform, versions, gone, pc, snapshot, seen, applied, overtaken>>
  BY DEF MarkOrderDeleted, shop, writer
<1>2. /\ row' \in Rows
      /\ row'.status = "deleted"
      /\ row'.modified >= row.modified
  BY DeletedRow
<1>3. TypeOK' /\ VersionsOrdered' /\ NotStaleWhenRead'
  BY <1>1, <1>2 DEF TypeOK, VersionsOrdered, NotStaleWhenRead
<1>4. FreshestKept'
  <2>1. row.modified \in Nat /\ row'.modified \in Nat
    <3>1. row.modified \in Nat
      BY ModifiedType DEF TypeOK
    <3>2. QED
      BY <3>1, <1>2, ModifiedType
  <2>2. \A n \in applied : versions[n].at \in Nat
    BY VersionType, BoundAssumption DEF TypeOK
  <2>3. QED
    BY <1>1, <1>2, <2>1, <2>2 DEF FreshestKept
<1>5. FulfillmentAgrees'
  BY <1>2 DEF FulfillmentAgrees, ImpliesFulfilled, Normalize, Progress
<1>6. QED
  BY <1>3, <1>4, <1>5

(* A parcel update leaves modified_at_woo alone.                           *)
LEMMA ApplyTrackingIInv ==
    ASSUME IInv, ApplyTrackingStatusToOrder
    PROVE  IInv'
<1>1. UNCHANGED <<platform, versions, gone, pc, snapshot, seen, applied, overtaken>>
  BY DEF ApplyTrackingStatusToOrder, shop, writer
<1>2. /\ row' \in Rows
      /\ row'.modified = row.modified
      /\ ImpliesFulfilled(row'.status) => row'.fulfillment = "fulfilled"
  BY TrackedRow DEF IInv
<1>3. QED
  BY <1>1, <1>2 DEF IInv, TypeOK, VersionsOrdered, NotStaleWhenRead,
     FreshestKept, FulfillmentAgrees

(* Every step keeps the inductive invariant.                               *)
LEMMA NextIInv == IInv /\ [Next]_vars => IInv'
<1> SUFFICES ASSUME IInv, [Next]_vars PROVE IInv'
  OBVIOUS
<1>1. CASE Change
  BY <1>1, ChangeIInv
<1>2. CASE Remove
  BY <1>2 DEF Remove, writer, IInv, TypeOK, VersionsOrdered, NotStaleWhenRead,
     FreshestKept, FulfillmentAgrees
<1>3. CASE MarkOrderDeleted
  BY <1>3, MarkOrderDeletedIInv
<1>4. CASE ApplyTrackingStatusToOrder
  BY <1>4, ApplyTrackingIInv
<1>5. ASSUME NEW w \in Writers, Select(w) \/ Commit(w) \/ Abort(w)
      PROVE  IInv'
  BY <1>5, SelectIInv, CommitIInv, AbortIInv
<1>6. CASE UNCHANGED vars
  BY <1>6 DEF vars, shop, writer, IInv, TypeOK, VersionsOrdered,
     NotStaleWhenRead, FreshestKept, FulfillmentAgrees
<1>7. QED
  BY <1>1, <1>2, <1>3, <1>4, <1>5, <1>6 DEF Next

(* IInv is an invariant of the row and its writers.                        *)
THEOREM Invariance == Spec => []IInv
<1>1. Init => IInv
  BY InitIInv
<1>2. IInv /\ [Next]_vars => IInv'
  BY NextIInv
<1>3. QED
  BY <1>1, <1>2, PTL DEF Spec

(* The type invariant holds.                                               *)
THEOREM TypeCorrect == Spec => []TypeOK
<1>1. IInv => TypeOK
  BY DEF IInv
<1>2. QED
  BY <1>1, Invariance, PTL

(* Unless writers of the row overlapped, it is at least as new as every    *)
(* snapshot UpsertOrderSnapshot has accepted.                              *)
THEOREM FreshestIsKept == Spec => []FreshestKept
<1>1. IInv => FreshestKept
  BY DEF IInv
<1>2. QED
  BY <1>1, Invariance, PTL

(* A status that implies fulfillment is accompanied by it in every row.    *)
THEOREM FulfillmentIsConsistent == Spec => []FulfillmentAgrees
<1>1. IInv => FulfillmentAgrees
  BY DEF IInv
<1>2. QED
  BY <1>1, Invariance, PTL

-----------------------------------------------------------------------------
(* Only a parcel's status or overlapping writers take a status back.       *)
LEMMA StepAdvances ==
    ASSUME IInv, [Next]_vars, Rank(row'.status) < Rank(row.status)
    PROVE  \/ ApplyTrackingStatusToOrder
           \/ \E w \in Writers : Overtaken(w) /\ Commit(w)
<1>1. CASE row' = row
  BY <1>1, RankType
<1>2. CASE MarkOrderDeleted
  <2>1. row'.status = "deleted"
    BY <1>2, DeletedRow DEF IInv
  <2>2. Rank(row'.status) = 102
    BY <2>1, DeletedIsLast
  <2>3. Rank(row.status) \in Nat /\ Rank(row.status) <= 102
    BY RankType
  <2>4. QED
    BY <2>2, <2>3
<1>3. CASE ApplyTrackingStatusToOrder
  BY <1>3
<1>4. CASE \E w \in Writers : Commit(w)
  <2>1. PICK w \in Writers : Commit(w)
    BY <1>4
  <2>2. pc[w] = "write" /\ row' = Written(w)
    BY <2>1 DEF Commit
  <2>3. PICK d : row'.status = Merge(seen[w].status, d)
    BY <2>2, WrittenType DEF IInv
  <2>4. CASE seen[w] = row
    BY <2>3, <2>4, MergeKeepsRank, RankType
  <2>5. CASE seen[w] # row
    BY <2>1, <2>2, <2>5 DEF Overtaken
  <2>6. QED
    BY <2>4, <2>5
<1>5. QED
  BY <1>1, <1>2, <1>3, <1>4
     DEF Next, vars, Change, Remove, Select, Abort

(* The status of an order goes back only as StatusAdvances allows.         *)
THEOREM StatusOnlyAdvances == Spec => StatusAdvances
<1>1. IInv /\ [Next]_vars =>
        [Rank(row'.status) < Rank(row.status) =>
            \/ ApplyTrackingStatusToOrder
            \/ \E w \in Writers : Overtaken(w) /\ Commit(w)]_vars
  BY StepAdvances
<1>2. QED
  BY <1>1, Invariance, PTL DEF Spec, StatusAdvances

(* Only overlapping writers bring a deleted ShopBase order back.           *)
LEMMA StepKeepsDeleted ==
    ASSUME IInv, [Next]_vars,
           platform = "shopbase", row.status = "deleted", row' # row
    PROVE  \/ row'.status = "deleted" /\ row'.modified >= row.modified
           \/ \E w \in Writers : Overtaken(w) /\ Commit(w)
<1>1. CASE MarkOrderDeleted
  BY <1>1, DeletedRow DEF IInv
<1>2. CASE \E w \in Writers : Commit(w)
  <2>1. PICK w \in Writers : Commit(w)
    BY <1>2
  <2>2. pc[w] = "write" /\ row' = Written(w)
    BY <2>1 DEF Commit
  <2>3. CASE seen[w] = row
    <3>1. PICK d : row'.status = Merge(seen[w].status, d)
      BY <2>2, WrittenType DEF IInv
    <3>2. row'.status = "deleted"
      BY <3>1, <2>3, DeletedMerge
    <3>3. row'.modified = versions[snapshot[w]].at
      BY <2>2, WrittenType DEF IInv
    <3>4. row.modified <= versions[snapshot[w]].at
      BY <2>2, <2>3 DEF IInv, NotStaleWhenRead
    <3>5. row.modified \in Nat /\ row'.modified \in Nat
      <4>1. row.modified \in Nat
        BY ModifiedType DEF IInv, TypeOK
      <4>2. row' \in Rows
        BY <2>2, WrittenType DEF IInv
      <4>3. QED
        BY <4>1, <4>2, ModifiedType
    <3>6. QED
      BY <3>2, <3>3, <3>4, <3>5
  <2>4. CASE seen[w] # row
    BY <2>1, <2>2, <2>4 DEF Overtaken
  <2>5. QED
    BY <2>3, <2>4
<1>3. QED
  BY <1>1, <1>2
     DEF Next, vars, Change, Remove, Select, Abort, ApplyTrackingStatusToOrder

(* A deleted ShopBase order stays deleted as DeletedStays says.            *)
THEOREM DeletedOrderStays == Spec => DeletedStays
<1>1. IInv /\ [Next]_vars =>
        [platform = "shopbase" /\ row.status = "deleted" /\ row' # row =>
            \/ row'.status = "deleted" /\ row'.modified >= row.modified
            \/ \E w \in Writers : Overtaken(w) /\ Commit(w)]_vars
  BY StepKeepsDeleted
<1>2. QED
  BY <1>1, Invariance, PTL DEF Spec, DeletedStays

=============================================================================

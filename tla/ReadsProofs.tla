----------------------------- MODULE ReadsProofs -----------------------------
(***************************************************************************)
(* What users read of the claims, proved for any number of claims, users,  *)
(* requests and slots.                                                     *)
(***************************************************************************)
EXTENDS ClaimReads, TLAPS

-----------------------------------------------------------------------------
(* A claim that is decided stays so; an approved or a paid one has all its *)
(* approvals, a withdrawn one none.                                        *)
ApprovedBy(c) == path[c] # <<>> /\ approved[c] = DOMAIN path[c]
LifeOK ==
    /\ status \in [Claims -> Written \cup {"NONE"}]
    /\ path = [c \in Claims |-> path[c]]
    /\ approved = [c \in Claims |-> approved[c]]
    /\ \A c \in Claims :
         /\ status[c] \in {"APPROVED", "PAID"} => ApprovedBy(c)
         /\ status[c] = "CANCELLED" => approved[c] = {}

(* The figures of the first n statements of a load.                        *)
ReadBefore(kind, n) == UNION {Queries[kind][i] : i \in 1..(n - 1)}

(* Figures that are claims are in the scope of whoever asked, and those of *)
(* the approval rate, which one statement reads, have no claim in common.  *)
Figured(figures, r, u) ==
    /\ \A f \in DOMAIN figures : figures[f] \subseteq Scope(r, u)
    /\ {"approved", "rejected"} \subseteq DOMAIN figures =>
         figures["approved"] \cap figures["rejected"] = {}

(* The row of a detail is of a claim in scope.  Until the steps are read,  *)
(* a decision it shows still stands; then the steps are those of the       *)
(* decision.                                                               *)
Detailed(figures, q) ==
    /\ "row" \in DOMAIN figures => q.claim \in Scope(q.role, q.user)
    /\ DOMAIN figures = {"row"} =>
         /\ figures["row"] \in {"APPROVED", "PAID"} =>
              status[q.claim] \in {"APPROVED", "PAID"}
         /\ figures["row"] = "CANCELLED" => status[q.claim] = "CANCELLED"
    /\ DOMAIN figures = {"row", "steps"} =>
         /\ figures["row"] \in {"APPROVED", "PAID"} =>
              /\ figures["steps"].path # <<>>
              /\ figures["steps"].approved = DOMAIN figures["steps"].path
         /\ figures["row"] = "CANCELLED" => figures["steps"].approved = {}

Shown(figures, q) ==
    IF q.kind = "detail" THEN Detailed(figures, q) ELSE Figured(figures, q.role, q.user)

(* A load that is under way has read the figures of its first statements.  *)
Underway(l) ==
    /\ DOMAIN l = {"phase", "ask", "figures", "next"}
    /\ l.ask \in Requests
    /\ l.next \in 1..(Len(Queries[l.ask.kind]) + 1)
    /\ DOMAIN l.figures = ReadBefore(l.ask.kind, l.next)
    /\ Shown(l.figures, l.ask)
Over(l) ==
    /\ l.ask \in Requests
    /\ DOMAIN l.figures = Figures(l.ask.kind)
    /\ Shown(l.figures, l.ask)
Served(l) == \/ l = Idle
             \/ l.phase = "load" /\ Underway(l)
             \/ l.phase = "done" /\ Over(l)
LoadOK == load = [s \in Slots |-> load[s]] /\ \A s \in Slots : Served(load[s])

(* What Redis keeps is complete, and of whoever its key names.             *)
CacheOK == \A k \in DOMAIN cache :
    /\ k \in Keys
    /\ DOMAIN cache[k].figures = Figures(k[1])
    /\ Figured(cache[k].figures, k[2], k[3])

ReadsInv == LifeOK /\ LoadOK /\ CacheOK

-----------------------------------------------------------------------------
(* The claims.                                                             *)

(* Approvals are given once and for all, and no step leaves APPROVED, PAID *)
(* or CANCELLED but the payment.                                           *)
LEMMA LifeNext ==
    ASSUME LifeOK, Life!Next
    PROVE  /\ LifeOK'
           /\ \A c \in Claims :
                /\ status[c] \in {"APPROVED", "PAID"} => status'[c] \in {"APPROVED", "PAID"}
                /\ status[c] = "CANCELLED" => status'[c] = "CANCELLED"
<1> DEFINE Stay == \A c \in Claims :
             /\ status[c] \in {"APPROVED", "PAID"} => status'[c] \in {"APPROVED", "PAID"}
             /\ status[c] = "CANCELLED" => status'[c] = "CANCELLED"
<1>1. ASSUME NEW c \in Claims, NEW from, NEW to, Life!Move(c, from, to),
             \/ to \in {"DRAFT", "REJECTED"} /\ from \in {"NONE", "SUBMITTED"}
             \/ to = "CANCELLED" /\ approved[c] = {} /\ from = "SUBMITTED"
             \/ from = "APPROVED" /\ to = "PAID"
      PROVE  LifeOK' /\ Stay
  <2>1. /\ status' = [status EXCEPT ![c] = to] /\ path' = path /\ approved' = approved
        /\ status[c] = from
    BY <1>1 DEF Life!Move
  <2>2. status' \in [Claims -> Written \cup {"NONE"}]
    BY <1>1, <2>1 DEF LifeOK, Written
  <2>3. ASSUME NEW d \in Claims
        PROVE  /\ status'[d] \in {"APPROVED", "PAID"} => ApprovedBy(d)
               /\ status'[d] = "CANCELLED" => approved[d] = {}
    BY <1>1, <2>1 DEF LifeOK
  <2>4. Stay
    BY <1>1, <2>1 DEF LifeOK
  <2> QED BY <2>1, <2>2, <2>3, <2>4 DEF LifeOK, ApprovedBy
<1>2. ASSUME NEW c \in Claims, Life!Submit(c) PROVE LifeOK' /\ Stay
  <2>1. PICK p \in Paths : path' = [path EXCEPT ![c] = p]
    BY <1>2 DEF Life!Submit
  <2>2. /\ status' = [status EXCEPT ![c] = "SUBMITTED"]
        /\ approved' = [approved EXCEPT ![c] = {}]
        /\ status[c] \in {"DRAFT", "REJECTED"}
    BY <1>2 DEF Life!Submit
  <2>3. status' \in [Claims -> Written \cup {"NONE"}]
    BY <2>2 DEF LifeOK, Written
  <2>4. path' = [d \in Claims |-> path'[d]] /\ approved' = [d \in Claims |-> approved'[d]]
    BY <2>1, <2>2 DEF LifeOK
  <2>5. ASSUME NEW d \in Claims
        PROVE  /\ status'[d] \in {"APPROVED", "PAID"} => ApprovedBy(d)'
               /\ status'[d] = "CANCELLED" => approved'[d] = {}
    BY <2>1, <2>2 DEF LifeOK, ApprovedBy
  <2>6. Stay
    BY <2>2 DEF LifeOK
  <2> QED BY <2>3, <2>4, <2>5, <2>6 DEF LifeOK
<1>3. ASSUME NEW c \in Claims, NEW i \in DOMAIN path[c], Life!Approve(c, i)
      PROVE  LifeOK' /\ Stay
  <2> DEFINE to == IF 1..i = DOMAIN path[c] THEN "APPROVED" ELSE "SUBMITTED"
  <2>1. /\ status' = [status EXCEPT ![c] = to]
        /\ approved' = [approved EXCEPT ![c] = 1..i]
        /\ path' = path /\ status[c] = "SUBMITTED"
    BY <1>3 DEF Life!Approve
  <2>2. path[c] # <<>>
    BY <1>3
  <2>3. status' \in [Claims -> Written \cup {"NONE"}]
    BY <2>1 DEF LifeOK, Written
  <2>4. path' = [d \in Claims |-> path'[d]] /\ approved' = [d \in Claims |-> approved'[d]]
    BY <2>1 DEF LifeOK
  <2>5. ASSUME NEW d \in Claims
        PROVE  /\ status'[d] \in {"APPROVED", "PAID"} => ApprovedBy(d)'
               /\ status'[d] = "CANCELLED" => approved'[d] = {}
    BY <2>1, <2>2 DEF LifeOK, ApprovedBy
  <2>6. Stay
    BY <2>1 DEF LifeOK
  <2> QED BY <2>3, <2>4, <2>5, <2>6 DEF LifeOK
<1> HIDE DEF Stay
<1>4. PICK c \in Claims :
        \/ Life!Move(c, "NONE", "DRAFT") \/ Life!Submit(c)
        \/ \E i \in DOMAIN path[c] : Life!Approve(c, i)
        \/ Life!Move(c, "SUBMITTED", "REJECTED") \/ Life!Cancel(c)
        \/ Life!Move(c, "APPROVED", "PAID")
  BY DEF Life!Next
<1>5. LifeOK' /\ Stay
  BY <1>1, <1>2, <1>3, <1>4 DEF Life!Cancel
<1> QED BY <1>5 DEF Stay

-----------------------------------------------------------------------------
(* The statements of a load.                                               *)

(* What is asked, and by how many statements.                              *)
LEMMA Asked ==
    ASSUME NEW q \in Requests
    PROVE  /\ q.kind \in {"summary", "series", "list", "detail"}
           /\ q.kind = "detail" => q.claim \in Claims
           /\ Len(Queries[q.kind]) \in 1..3
           /\ DOMAIN Queries[q.kind] = 1..Len(Queries[q.kind])
<1>1. /\ q.kind \in {"summary", "series", "list", "detail"}
      /\ q.kind = "detail" => q.claim \in Claims
  BY ReadsAssumption DEF Cached
<1> QED BY <1>1 DEF Queries, SummaryQueries, SeriesQueries, ListQueries, DetailQueries

(* A statement adds its figures to those read before it.                   *)
LEMMA ReadMore ==
    ASSUME NEW kind, NEW n \in Nat, n >= 1
    PROVE  ReadBefore(kind, n + 1) = ReadBefore(kind, n) \cup Queries[kind][n]
<1>1. 1..((n + 1) - 1) = (1..(n - 1)) \cup {n}
  OBVIOUS
<1> QED BY <1>1 DEF ReadBefore

(* All of them have read all the figures.                                  *)
LEMMA ReadAll ==
    ASSUME NEW q \in Requests
    PROVE  ReadBefore(q.kind, Len(Queries[q.kind]) + 1) = Figures(q.kind)
<1>1. 1..((Len(Queries[q.kind]) + 1) - 1) = DOMAIN Queries[q.kind]
  BY Asked
<1> QED BY <1>1 DEF ReadBefore, Figures

(* The figures of the approval rate are read by one statement.             *)
LEMMA RateAtOnce ==
    ASSUME NEW kind \in {"summary", "series", "list"}, NEW n \in 1..Len(Queries[kind])
    PROVE  \/ ~({"approved", "rejected"} \subseteq ReadBefore(kind, n + 1))
           \/ /\ Queries[kind][n] = {"approved", "rejected"}
              /\ "approved" \notin ReadBefore(kind, n)
              /\ "rejected" \notin ReadBefore(kind, n)
<1> USE DEF Queries
<1>1. CASE kind = "summary"
  <2>1. /\ Queries[kind][1] = {"pending"} /\ Queries[kind][2] = {"total"}
        /\ Queries[kind][3] = {"approved", "rejected"} /\ n \in 1..3
    BY <1>1 DEF SummaryQueries
  <2> HIDE DEF Queries
  <2>2. \A i \in 1..2 : "approved" \notin Queries[kind][i] /\ "rejected" \notin Queries[kind][i]
    BY <2>1
  <2>3. CASE n = 3
    BY <2>1, <2>2, <2>3 DEF ReadBefore
  <2>4. CASE n # 3
    <3>1. \A i \in 1..((n + 1) - 1) : "approved" \notin Queries[kind][i]
      BY <2>1, <2>2, <2>4
    <3> QED BY <3>1 DEF ReadBefore
  <2> QED BY <2>3, <2>4
<1>2. CASE kind = "series"
  <2>1. Queries[kind][1] = {"total"} /\ n = 1
    BY <1>2 DEF SeriesQueries
  <2> HIDE DEF Queries
  <2>2. \A i \in 1..((n + 1) - 1) : "approved" \notin Queries[kind][i]
    BY <2>1
  <2> QED BY <2>2 DEF ReadBefore
<1>3. CASE kind = "list"
  <2>1. Queries[kind][1] = {"count"} /\ Queries[kind][2] = {"rows"} /\ n \in 1..2
    BY <1>3 DEF ListQueries
  <2> HIDE DEF Queries
  <2>2. \A i \in 1..((n + 1) - 1) : "approved" \notin Queries[kind][i]
    BY <2>1
  <2> QED BY <2>2 DEF ReadBefore
<1> QED BY <1>1, <1>2, <1>3

(* The row of a detail is read before its steps.                           *)
LEMMA RowFirst ==
    /\ Len(Queries["detail"]) = 2
    /\ Queries["detail"][1] = {"row"} /\ Queries["detail"][2] = {"steps"}
    /\ ReadBefore("detail", 1) = {} /\ ReadBefore("detail", 2) = {"row"}
    /\ ReadBefore("detail", 3) = {"row", "steps"}
    /\ Figures("detail") = {"row", "steps"}
<1>1. /\ Len(Queries["detail"]) = 2
      /\ Queries["detail"][1] = {"row"} /\ Queries["detail"][2] = {"steps"}
      /\ DOMAIN Queries["detail"] = 1..2
  BY DEF Queries, DetailQueries
<1>2. ReadBefore("detail", 1) = {}
  BY DEF ReadBefore
<1>3. ReadBefore("detail", 2) = {"row"}
  BY <1>1, <1>2, ReadMore
<1>4. ReadBefore("detail", 3) = {"row", "steps"}
  BY <1>1, <1>3, ReadMore
<1>5. Figures("detail") = {"row", "steps"}
  BY <1>1 DEF Figures
<1> QED BY <1>1, <1>2, <1>3, <1>4, <1>5

(* A statement of figures that are claims.                                 *)
LEMMA FiguresRead ==
    ASSUME NEW kind \in {"summary", "series", "list"}, NEW n \in 1..Len(Queries[kind]),
           NEW r, NEW u, NEW old, DOMAIN old = ReadBefore(kind, n), Figured(old, r, u)
    PROVE  LET new == Beside(old, Read(Queries[kind][n], r, u))
           IN  DOMAIN new = ReadBefore(kind, n + 1) /\ Figured(new, r, u)
<1> DEFINE read == Read(Queries[kind][n], r, u)
           new == Beside(old, read)
<1>0. n \in Nat /\ n >= 1
  BY DEF Queries, SummaryQueries, SeriesQueries, ListQueries
<1>1. /\ DOMAIN read = Queries[kind][n]
      /\ \A f \in DOMAIN read :
           read[f] = {c \in Scope(r, u) : status[c] \in Counted[f]}
  BY DEF Read
<1>2. /\ DOMAIN new = DOMAIN old \cup DOMAIN read
      /\ \A f \in DOMAIN old : new[f] = old[f]
      /\ \A f \in DOMAIN read \ DOMAIN old : new[f] = read[f]
  BY DEF Beside
<1> HIDE DEF read, new
<1>3. DOMAIN new = ReadBefore(kind, n + 1)
  BY <1>0, <1>1, <1>2, ReadMore
<1>4. ASSUME NEW f \in DOMAIN new PROVE new[f] \subseteq Scope(r, u)
  <2>1. CASE f \in DOMAIN old
    BY <1>2, <2>1 DEF Figured
  <2>2. CASE f \notin DOMAIN old
    BY <1>1, <1>2, <2>2
  <2> QED BY <2>1, <2>2
<1>5. ASSUME {"approved", "rejected"} \subseteq DOMAIN new
      PROVE  new["approved"] \cap new["rejected"] = {}
  <2>1. /\ Queries[kind][n] = {"approved", "rejected"}
        /\ "approved" \notin DOMAIN old /\ "rejected" \notin DOMAIN old
    BY <1>3, <1>5, RateAtOnce
  <2>2. new["approved"] = read["approved"] /\ new["rejected"] = read["rejected"]
    BY <1>1, <1>2, <2>1
  <2>3. Counted["approved"] = {"APPROVED"} /\ Counted["rejected"] = {"REJECTED"}
    BY DEF Counted
  <2> QED BY <1>1, <2>1, <2>2, <2>3
<1> QED BY <1>3, <1>4, <1>5 DEF Figured, read, new

(* A statement of a detail.                                                *)
LEMMA DetailRead ==
    ASSUME LifeOK, NEW q, q.kind = "detail", q.claim \in Claims, NEW n \in 1..2,
           NEW old, DOMAIN old = ReadBefore("detail", n), Detailed(old, q),
           "row" \in Queries["detail"][n] => Found(q)
    PROVE  LET new == Beside(old, ReadDetail(Queries["detail"][n], q.claim))
           IN  DOMAIN new = ReadBefore("detail", n + 1) /\ Detailed(new, q)
<1> DEFINE read == ReadDetail(Queries["detail"][n], q.claim)
           new == Beside(old, read)
<1>1. /\ DOMAIN read = Queries["detail"][n]
      /\ "row" \in DOMAIN read => read["row"] = status[q.claim]
      /\ "steps" \in DOMAIN read =>
           read["steps"] = [path |-> path[q.claim], approved |-> approved[q.claim]]
  BY DEF ReadDetail
<1>2. /\ DOMAIN new = DOMAIN old \cup DOMAIN read
      /\ \A f \in DOMAIN old : new[f] = old[f]
      /\ \A f \in DOMAIN read \ DOMAIN old : new[f] = read[f]
  BY DEF Beside
<1> HIDE DEF read, new
<1>3. CASE n = 1
  <2>1. DOMAIN new = {"row"} /\ new["row"] = status[q.claim]
    BY <1>1, <1>2, <1>3, RowFirst
  <2>2. q.claim \in Scope(q.role, q.user)
    BY <1>3, RowFirst DEF Found
  <2>3. Detailed(new, q)
    BY <2>1, <2>2 DEF Detailed
  <2> QED BY <1>3, <2>1, <2>3, RowFirst DEF read, new
<1>4. CASE n = 2
  <2>1. /\ DOMAIN old = {"row"} /\ DOMAIN new = {"row", "steps"}
        /\ new["row"] = old["row"]
        /\ new["steps"] = [path |-> path[q.claim], approved |-> approved[q.claim]]
    BY <1>1, <1>2, <1>4, RowFirst
  <2>2. /\ new["row"] \in {"APPROVED", "PAID"} => ApprovedBy(q.claim)
        /\ new["row"] = "CANCELLED" => approved[q.claim] = {}
    BY <2>1 DEF Detailed, LifeOK
  <2>3. Detailed(new, q)
    BY <2>1, <2>2 DEF Detailed, ApprovedBy
  <2> QED BY <1>4, <2>1, <2>3, RowFirst DEF read, new
<1> QED BY <1>3, <1>4

-----------------------------------------------------------------------------
(* The steps.                                                              *)

(* A slot stays as it is while the claims do.                              *)
LEMMA ServedFrame ==
    ASSUME NEW l, Served(l), claimVars' = claimVars
    PROVE  Served(l)'
BY DEF Served, Underway, Over, Shown, Detailed, claimVars

(* A decision a detail has shown stands when the claims move.              *)
LEMMA ServedStays ==
    ASSUME NEW l, Served(l), LifeOK, Life!Next
    PROVE  Served(l)'
<1>1. ASSUME NEW q \in Requests, NEW figures, Shown(figures, q)
      PROVE  Shown(figures, q)'
  <2>1. CASE q.kind = "detail"
    <3>1. q.claim \in Claims
      BY <2>1, Asked
    <3>2. /\ status[q.claim] \in {"APPROVED", "PAID"} =>
                status'[q.claim] \in {"APPROVED", "PAID"}
          /\ status[q.claim] = "CANCELLED" => status'[q.claim] = "CANCELLED"
      BY <3>1, LifeNext
    <3> QED BY <1>1, <2>1, <3>2 DEF Shown, Detailed
  <2>2. CASE q.kind # "detail"
    BY <1>1, <2>2 DEF Shown
  <2> QED BY <2>1, <2>2
<1> QED BY <1>1 DEF Served, Underway, Over

(* One slot goes on and the others stay.                                   *)
LEMMA OneServed ==
    ASSUME LoadOK, NEW s \in Slots, NEW l, load' = [load EXCEPT ![s] = l],
           claimVars' = claimVars, Served(l)
    PROVE  LoadOK'
<1>1. load' = [t \in Slots |-> load'[t]]
  BY DEF LoadOK
<1>2. ASSUME NEW t \in Slots PROVE Served(load'[t])
  BY <1>2 DEF LoadOK
<1>3. ASSUME NEW t \in Slots PROVE Served(load[t])'
  <2>1. PICK m : m = load'[t] /\ Served(m)
    BY <1>2
  <2>2. Served(m)'
    BY <2>1, ServedFrame
  <2> QED BY <2>1, <2>2
<1> QED BY <1>1, <1>3 DEF LoadOK

(* What a key names is what was asked.                                     *)
LEMMA KeyOf ==
    ASSUME NEW q
    PROVE  Key(q)[1] = q.kind /\ Key(q)[2] = q.role /\ Key(q)[3] = q.user
BY DEF Key

(* A request begins, and a load that failed is forgotten.                  *)
LEMMA BeginServes ==
    ASSUME LifeOK, LoadOK, NEW s \in Slots, NEW q \in Requests, Begin(s, q)
    PROVE  LoadOK'
<1> DEFINE l == [phase |-> "load", ask |-> q, figures |-> NoFigures, next |-> 1]
<1>1. load' = [load EXCEPT ![s] = l] /\ claimVars' = claimVars
  BY DEF Begin
<1>2. DOMAIN NoFigures = {} /\ ReadBefore(q.kind, 1) = {}
  BY DEF NoFigures, ReadBefore
<1>3. Shown(NoFigures, q)
  BY <1>2 DEF Shown, Detailed, Figured
<1>4. 1 \in 1..(Len(Queries[q.kind]) + 1)
  BY Asked
<1>5. /\ l.phase = "load" /\ l.ask = q /\ l.figures = NoFigures /\ l.next = 1
      /\ DOMAIN l = {"phase", "ask", "figures", "next"}
  OBVIOUS
<1> HIDE DEF l
<1>6. Underway(l)
  BY <1>2, <1>3, <1>4, <1>5 DEF Underway
<1>7. Served(l)
  BY <1>5, <1>6 DEF Served
<1> QED BY <1>1, <1>7, OneServed

(* The next statement of a load.                                           *)
LEMMA QueryServes ==
    ASSUME LifeOK, LoadOK, NEW s \in Slots, Query(s)
    PROVE  LoadOK'
<1> DEFINE l == load[s]
           q == l.ask
           n == l.next
           asked == Queries[q.kind][n]
           read == IF q.kind = "detail" THEN ReadDetail(asked, q.claim)
                                        ELSE Read(asked, q.role, q.user)
           new == Beside(l.figures, read)
           m == [l EXCEPT !.figures = new, !.next = n + 1]
<1>1. Served(l) /\ l.phase = "load"
  BY DEF LoadOK, Query, Loading
<1>2. Underway(l)
  BY <1>1 DEF Served, Idle
<1>3. /\ DOMAIN l = {"phase", "ask", "figures", "next"}
      /\ q \in Requests /\ n \in 1..(Len(Queries[q.kind]) + 1)
      /\ DOMAIN l.figures = ReadBefore(q.kind, n) /\ Shown(l.figures, q)
  BY <1>2 DEF Underway
<1>4. n \in 1..Len(Queries[q.kind])
  <2>1. ~(n > Len(Queries[q.kind]))
    BY DEF Query, Loaded
  <2>2. Len(Queries[q.kind]) \in 1..3
    BY <1>3, Asked
  <2> QED BY <1>3, <2>1, <2>2
<1>5. claimVars' = claimVars /\ ("row" \in asked => Found(q))
  BY DEF Query
<1>6. load' = [load EXCEPT ![s] = m]
  BY DEF Query, LoadOK
<1>7. DOMAIN new = ReadBefore(q.kind, n + 1) /\ Shown(new, q)
  <2>1. CASE q.kind = "detail"
    <3>1. q.claim \in Claims /\ n \in 1..2
      BY <1>3, <1>4, <2>1, Asked, RowFirst
    <3>2. Detailed(l.figures, q) /\ DOMAIN l.figures = ReadBefore("detail", n)
          /\ ("row" \in Queries["detail"][n] => Found(q))
      BY <1>3, <1>5, <2>1 DEF Shown
    <3>3. read = ReadDetail(Queries["detail"][n], q.claim)
      BY <2>1
    <3> HIDE DEF l, q, n, read
    <3>4. DOMAIN new = ReadBefore("detail", n + 1) /\ Detailed(new, q)
      BY <2>1, <3>1, <3>2, <3>3, DetailRead
    <3> QED BY <2>1, <3>4 DEF Shown
  <2>2. CASE q.kind # "detail"
    <3>1. q.kind \in {"summary", "series", "list"}
      BY <1>3, <2>2, Asked
    <3>2. Figured(l.figures, q.role, q.user)
      BY <1>3, <2>2 DEF Shown
    <3>3. read = Read(Queries[q.kind][n], q.role, q.user)
      BY <2>2
    <3> HIDE DEF read
    <3>4. DOMAIN new = ReadBefore(q.kind, n + 1) /\ Figured(new, q.role, q.user)
      BY <1>3, <1>4, <3>1, <3>2, <3>3, FiguresRead
    <3> QED BY <2>2, <3>4 DEF Shown
  <2> QED BY <2>1, <2>2
<1>8. n + 1 \in 1..(Len(Queries[q.kind]) + 1)
  BY <1>3, <1>4, Asked
<1>9. /\ m.phase = "load" /\ m.ask = q /\ m.figures = new /\ m.next = n + 1
      /\ DOMAIN m = {"phase", "ask", "figures", "next"}
  <2> HIDE DEF new
  <2> QED BY <1>1, <1>3
<1> HIDE DEF m, new, q, n
<1>10. Underway(m)
  BY <1>3, <1>7, <1>8, <1>9 DEF Underway
<1>11. Served(m)
  BY <1>9, <1>10 DEF Served
<1> QED BY <1>5, <1>6, <1>11, OneServed

(* A finished load has all its figures.                                    *)
LEMMA FinishedHasAll ==
    ASSUME LoadOK, NEW s \in Slots, Finished(s)
    PROVE  /\ load[s].ask \in Requests
           /\ DOMAIN load[s].figures = Figures(load[s].ask.kind)
           /\ Shown(load[s].figures, load[s].ask)
<1> DEFINE l == load[s]
           q == l.ask
<1>1. Underway(l)
  BY DEF LoadOK, Finished, Loading, Served, Idle
<1>2. /\ q \in Requests /\ l.next \in 1..(Len(Queries[q.kind]) + 1)
      /\ DOMAIN l.figures = ReadBefore(q.kind, l.next) /\ Shown(l.figures, q)
  BY <1>1 DEF Underway
<1>3. l.next = Len(Queries[q.kind]) + 1
  <2>1. l.next > Len(Queries[q.kind])
    BY DEF Finished, Loaded
  <2>2. Len(Queries[q.kind]) \in 1..3
    BY <1>2, Asked
  <2> QED BY <1>2, <2>1, <2>2
<1>4. DOMAIN l.figures = Figures(q.kind)
  BY <1>2, <1>3, ReadAll
<1> QED BY <1>2, <1>4

(* An answer is of figures that are complete and shown to who asked.       *)
LEMMA AnswerServes ==
    ASSUME LifeOK, LoadOK, NEW s \in Slots, NEW q \in Requests, NEW figures,
           load' = [load EXCEPT ![s] = Answer(q, figures)], claimVars' = claimVars,
           DOMAIN figures = Figures(q.kind), Shown(figures, q)
    PROVE  LoadOK'
<1> DEFINE l == Answer(q, figures)
<1>1. l.phase = "done" /\ l.ask = q /\ l.figures = figures
  BY DEF Answer
<1> HIDE DEF l
<1>2. Served(l)
  BY <1>1 DEF Served, Over
<1>3. load' = [load EXCEPT ![s] = l]
  BY DEF l
<1> QED BY <1>2, <1>3, OneServed

(* A load that is finished may be kept under its key.                      *)
LEMMA StoreKeeps ==
    ASSUME LifeOK, LoadOK, CacheOK, NEW s \in Slots, Store(s)
    PROVE  LoadOK' /\ CacheOK'
<1> DEFINE l == load[s]
           q == l.ask
           r == [figures |-> l.figures, ttl |-> TRUE]
           one == [k \in {Key(q)} |-> r]
<1>1. /\ q \in Requests /\ DOMAIN l.figures = Figures(q.kind)
      /\ Shown(l.figures, q)
  BY FinishedHasAll DEF Store
<1>2. LoadOK'
  <2>1. load' = [load EXCEPT ![s] = Answer(q, l.figures)] /\ claimVars' = claimVars
    BY DEF Store
  <2> HIDE DEF q
  <2> QED BY <1>1, <2>1, AnswerServes
<1>3. CASE cache' = cache
  BY <1>2, <1>3 DEF CacheOK
<1>4. CASE q.kind \in Cached /\ cache' = Beside(one, cache)
  <2>1. Figured(l.figures, q.role, q.user)
    BY <1>1, <1>4 DEF Shown, Cached
  <2>2. Key(q) \in Keys /\ Key(q)[1] = q.kind /\ Key(q)[2] = q.role
        /\ Key(q)[3] = q.user
    BY <1>1, <1>4, KeyOf DEF Keys
  <2>3. r.figures = l.figures
    OBVIOUS
  <2>4. DOMAIN one = {Key(q)} /\ one[Key(q)] = r
    OBVIOUS
  <2> HIDE DEF r, one
  <2>5. /\ DOMAIN cache' = {Key(q)} \cup DOMAIN cache
        /\ cache'[Key(q)] = r
        /\ \A k \in DOMAIN cache \ {Key(q)} : cache'[k] = cache[k]
    BY <1>4, <2>4 DEF Beside
  <2> HIDE DEF l, q
  <2>6. ASSUME NEW k \in DOMAIN cache'
        PROVE  /\ k \in Keys /\ DOMAIN cache'[k].figures = Figures(k[1])
               /\ Figured(cache'[k].figures, k[2], k[3])
    <3>1. CASE k = Key(q)
      BY <1>1, <2>1, <2>2, <2>3, <2>5, <3>1
    <3>2. CASE k # Key(q)
      BY <2>5, <2>6, <3>2 DEF CacheOK
    <3> QED BY <3>1, <3>2
  <2>7. CacheOK'
    BY <2>6 DEF CacheOK, Figured
  <2> QED BY <1>2, <2>7
<1> QED BY <1>2, <1>3, <1>4 DEF Store, Kept

(* Every step keeps the invariant of the reads.                            *)
LEMMA ReadsNext == ReadsInv /\ [Next]_vars => ReadsInv'
<1> SUFFICES ASSUME LifeOK, LoadOK, CacheOK, [Next]_vars PROVE LifeOK' /\ LoadOK' /\ CacheOK'
  BY DEF ReadsInv
<1>1. ASSUME claimVars' = claimVars PROVE LifeOK'
  BY <1>1 DEF LifeOK, ApprovedBy, claimVars
<1>2. ASSUME cache' = cache PROVE CacheOK'
  BY <1>2 DEF CacheOK
<1>3. ASSUME ChangeClaim PROVE LifeOK' /\ LoadOK' /\ CacheOK'
  <2>1. Life!Next /\ load' = load /\ cache' = cache
    BY <1>3 DEF ChangeClaim
  <2>2. ASSUME NEW s \in Slots PROVE Served(load[s])'
    <3>1. PICK l : l = load[s] /\ Served(l)
      BY DEF LoadOK
    <3>2. Served(l)'
      BY <2>1, <3>1, ServedStays
    <3> QED BY <2>1, <3>1, <3>2
  <2>3. LoadOK'
    BY <2>1, <2>2 DEF LoadOK
  <2> QED BY <1>2, <2>1, <2>3, LifeNext
<1>4. ASSUME NEW s \in Slots, NEW q \in Requests, AskCached(s, q)
      PROVE  LifeOK' /\ LoadOK' /\ CacheOK'
  <2>1. /\ q.kind \in Cached /\ Key(q) \in DOMAIN cache
        /\ load' = [load EXCEPT ![s] = Answer(q, cache[Key(q)].figures)]
        /\ claimVars' = claimVars /\ cache' = cache
    BY <1>4 DEF AskCached
  <2>2. /\ DOMAIN cache[Key(q)].figures = Figures(q.kind)
        /\ Figured(cache[Key(q)].figures, q.role, q.user)
    BY <2>1, KeyOf DEF CacheOK
  <2>3. Shown(cache[Key(q)].figures, q)
    BY <2>1, <2>2 DEF Shown, Cached
  <2>4. PICK figures : figures = cache[Key(q)].figures
    OBVIOUS
  <2>5. LoadOK'
    BY <2>1, <2>2, <2>3, <2>4, AnswerServes
  <2> QED BY <1>1, <1>2, <2>1, <2>5
<1>5. ASSUME NEW s \in Slots, NEW q \in Requests,
             AskLoad(s, q) \/ AskList(s, q) \/ AskDetail(s, q)
      PROVE  LifeOK' /\ LoadOK' /\ CacheOK'
  <2>1. Begin(s, q)
    BY <1>5 DEF AskLoad, AskList, AskDetail
  <2> QED BY <1>1, <1>2, <2>1, BeginServes DEF Begin
<1>6. ASSUME NEW s \in Slots, Query(s) PROVE LifeOK' /\ LoadOK' /\ CacheOK'
  <2>1. claimVars' = claimVars /\ cache' = cache
    BY <1>6 DEF Query
  <2> QED BY <1>1, <1>2, <1>6, <2>1, QueryServes
<1>7. ASSUME NEW s \in Slots, QueryFails(s) PROVE LifeOK' /\ LoadOK' /\ CacheOK'
  <2>1. Served(Idle)
    BY DEF Served
  <2>2. /\ load' = [load EXCEPT ![s] = Idle] /\ claimVars' = claimVars
        /\ cache' = cache
    BY <1>7 DEF QueryFails
  <2> QED BY <1>1, <1>2, <2>1, <2>2, OneServed
<1>8. ASSUME NEW s \in Slots, Store(s) PROVE LifeOK' /\ LoadOK' /\ CacheOK'
  BY <1>1, <1>8, StoreKeeps DEF Store
<1>9. ASSUME NEW k \in DOMAIN cache, ExpireEntry(k) PROVE LifeOK' /\ LoadOK' /\ CacheOK'
  <2>1. /\ cache' = [j \in DOMAIN cache \ {k} |-> cache[j]]
        /\ load' = load /\ claimVars' = claimVars
    BY <1>9 DEF ExpireEntry
  <2>2. CacheOK'
    BY <2>1 DEF CacheOK
  <2>3. LoadOK'
    BY <2>1 DEF LoadOK, Served, Underway, Over, Shown, Detailed, claimVars
  <2> QED BY <1>1, <2>1, <2>2, <2>3
<1>10. CASE UNCHANGED vars
  <2>1. claimVars' = claimVars /\ load' = load /\ cache' = cache
    BY <1>10 DEF vars, claimVars
  <2>2. LoadOK'
    BY <2>1 DEF LoadOK, Served, Underway, Over, Shown, Detailed, claimVars
  <2> QED BY <1>1, <1>2, <2>1, <2>2
<1> QED BY <1>3, <1>4, <1>5, <1>6, <1>7, <1>8, <1>9, <1>10 DEF Next

(* It holds before anything is asked.                                      *)
LEMMA ReadsInit == Init => ReadsInv
<1> SUFFICES ASSUME Init PROVE ReadsInv
  OBVIOUS
<1>1. LifeOK
  BY DEF Init, Life!Init, LifeOK, Written
<1>2. LoadOK
  BY DEF Init, LoadOK, Served
<1>3. CacheOK
  BY DEF Init, CacheOK
<1> QED BY <1>1, <1>2, <1>3 DEF ReadsInv

(* So it always holds.                                                     *)
LEMMA ReadsAlways == Spec => []ReadsInv
BY ReadsInit, ReadsNext, PTL DEF Spec

(* What an answer shows.                                                   *)
LEMMA DoneShows ==
    ASSUME ReadsInv, NEW s \in Slots, load[s].phase = "done"
    PROVE  /\ load[s].ask \in Requests
           /\ DOMAIN load[s].figures = Figures(load[s].ask.kind)
           /\ Shown(load[s].figures, load[s].ask)
BY DEF ReadsInv, LoadOK, Served, Idle, Over

(* Whatever Redis keeps or a request is answered with has all the figures  *)
(* of its kind (cached, service.go: nothing is kept before load returned). *)
THEOREM ReadsTypes == Spec => []TypeOK
<1>1. ASSUME ReadsInv PROVE TypeOK
  <2>1. \A r, u : Scope(r, u) \subseteq Claims
    BY DEF Scope
  <2>2. ASSUME NEW k \in DOMAIN cache PROVE k \in Keys /\ Complete(cache[k].figures, k[1])
    <3>1. /\ k \in Keys /\ DOMAIN cache[k].figures = Figures(k[1])
          /\ Figured(cache[k].figures, k[2], k[3])
      BY <1>1 DEF ReadsInv, CacheOK
    <3> QED BY <2>1, <3>1 DEF Complete, Figured
  <2>3. ASSUME NEW s \in Slots, load[s] # Idle
        PROVE  /\ load[s].ask \in Requests
               /\ load[s].phase = "done" => Complete(load[s].figures, load[s].ask.kind)
    <3>1. load[s].ask \in Requests
      BY <1>1, <2>3 DEF ReadsInv, LoadOK, Served, Underway, Over
    <3>2. ASSUME load[s].phase = "done" PROVE Complete(load[s].figures, load[s].ask.kind)
      BY <1>1, <2>1, <3>2, DoneShows DEF Complete, Shown, Figured
    <3> QED BY <3>1, <3>2
  <2> QED BY <2>2, <2>3 DEF TypeOK
<1> QED BY <1>1, ReadsAlways, PTL

(* An employee is answered with claims of his own and figures about them   *)
(* only, whatever roles he asks under and whatever was kept meanwhile.     *)
THEOREM ReadsInScope == Spec => []OwnClaimsOnly
<1>1. ASSUME ReadsInv, NEW s \in Slots, load[s].phase = "done"
      PROVE  LET q == load[s].ask
                 shown == IF q.kind = "detail" THEN {q.claim}
                          ELSE UNION {load[s].figures[f] : f \in DOMAIN load[s].figures}
             IN  q.role = "employee" => \A c \in shown : Owner[c] = q.user
  <2> DEFINE q == load[s].ask
  <2>0. /\ q \in Requests /\ DOMAIN load[s].figures = Figures(q.kind)
        /\ Shown(load[s].figures, q)
    BY <1>1, DoneShows
  <2>1. CASE q.kind = "detail"
    <3>1. "row" \in DOMAIN load[s].figures
      BY <2>0, <2>1, RowFirst
    <3> QED BY <2>0, <2>1, <3>1 DEF Shown, Detailed, Scope
  <2>2. CASE q.kind # "detail"
    BY <2>0, <2>2 DEF Shown, Figured, Scope
  <2> QED BY <2>1, <2>2
<1>2. ReadsInv => OwnClaimsOnly
  BY <1>1 DEF OwnClaimsOnly
<1> QED BY <1>2, ReadsAlways, PTL

(* No claim is counted both as approved and as rejected: the approval rate *)
(* is a share of claims, however loads and decisions interleave.           *)
THEOREM RateIsShare == Spec => []DecidedOnce
<1>1. ASSUME ReadsInv, NEW s \in Slots, Done(s, {"summary"})
      PROVE  load[s].figures.approved \cap load[s].figures.rejected = {}
  <2>1. /\ load[s].ask.kind = "summary"
        /\ DOMAIN load[s].figures = Figures("summary")
        /\ Shown(load[s].figures, load[s].ask)
    BY <1>1, DoneShows DEF Done
  <2>2. {"approved", "rejected"} \subseteq Figures("summary")
    <3>1. Queries["summary"][3] = {"approved", "rejected"} /\ 3 \in DOMAIN Queries["summary"]
      BY DEF Queries, SummaryQueries
    <3> QED BY <3>1 DEF Figures
  <2> QED BY <2>1, <2>2 DEF Shown, Figured
<1>2. ReadsInv => DecidedOnce
  BY <1>1 DEF DecidedOnce
<1> QED BY <1>2, ReadsAlways, PTL

(* A detail that says APPROVED or PAID shows a path whose every step has   *)
(* approved, one that says CANCELLED no step that has, though the claim    *)
(* moves between the two statements.                                       *)
THEOREM DetailsAgree == Spec => []DetailAgrees
<1>1. ASSUME ReadsInv, NEW s \in Slots, Done(s, {"detail"})
      PROVE  LET row == load[s].figures.row
                 steps == load[s].figures.steps
             IN  /\ row \in {"APPROVED", "PAID"} =>
                       steps.path # <<>> /\ steps.approved = DOMAIN steps.path
                 /\ row = "CANCELLED" => steps.approved = {}
  <2>1. /\ load[s].ask.kind = "detail"
        /\ DOMAIN load[s].figures = Figures("detail")
        /\ Shown(load[s].figures, load[s].ask)
    BY <1>1, DoneShows DEF Done
  <2>2. Figures("detail") = {"row", "steps"}
    BY RowFirst
  <2> QED BY <2>1, <2>2 DEF Shown, Detailed
<1>2. ReadsInv => DetailAgrees
  BY <1>1 DEF DetailAgrees
<1> QED BY <1>2, ReadsAlways, PTL
=============================================================================

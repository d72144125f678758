----------------------------- MODULE TaskOutcomes -----------------------------
(***************************************************************************)
(* What the handlers of the task page amount to, for any number of tasks,  *)
(* of requests under way and of acts of the user and of others.            *)
(*                                                                         *)
(* Requests are taken from the middle of flight and appended at its end;   *)
(* Turn says what that does to the requests without speaking of places.    *)
(* Every handler then settles requests and makes others (Settled), shows   *)
(* what a load brought (ListShown, FetchShown), gives a batch up           *)
(* (BatchEnds), or is a step of the server (Served) or of others           *)
(* (Happens).                                                              *)
(***************************************************************************)
EXTENDS TaskScreen, TLAPS, FiniteSetTheorems, SequenceTheorems

USE TaskClientAssumption, TaskScreenAssumption
    DEF TaskClientAssumption, TaskScreenAssumption

(* What a listing returns.                                                 *)
Listed == UNION {[S -> Row] : S \in SUBSET Task}

Op == Reads \cup Updates \cup {"create", "delete", "erase", "batchdel", "comment", "block",
                               "unblock", "join", "part", "sprint"}

(* The fields that an update changes, with the values they take.           *)
Change == ({"status"} \X Status) \cup ({"proof"} \X {"yes", "no"})
            \cup ({"owner"} \X {None, Me, Other}) \cup ({"other", "kept"} \X {None})

Target == Task \cup {None}
Field  == {"", "all", "session", "status", "proof", "owner", "other", "kept"}
Value  == Task \cup Status \cup {None, Me, Other, "any", "yes", "no"}

Message ==
  [op : Op, on : Target, field : Field, value : Value,
   heard : BOOLEAN, latest : BOOLEAN, stage : {"asked", "read", "done", "lost"},
   ok : BOOLEAN, data : {None} \cup Listed \cup Row]

WellAsked(r) ==
  /\ r.op \in Updates => <<r.field, r.value>> \in Change
  /\ r.op = "create" => r.value \in Status

WellAnswered(r) ==
  /\ r.op \in Updates /\ r.stage = "read" => r.data \in Row
  /\ r.op \in Reads => r.stage \in {"done", "lost"}
  /\ r.op \in Listings \cup {"picker"} /\ r.ok => r.data \in Listed
  /\ r.op = "fetch" /\ r.ok => r.data \in Row /\ r.on \in Task

(* A request as it is made, and one under way.                             *)
Wanted   == {r \in Message : WellAsked(r) /\ r.stage = "asked" /\ r.heard /\ r.data = None}
Underway == {r \in Message : WellAsked(r) /\ WellAnswered(r)}

Board ==
  [view : {"list", "board"}, status : Status \cup {"any"}, assignee : {None, Me, Other},
   hide : BOOLEAN, all : BOOLEAN, shown : Listed, fresh : BOOLEAN, loading : BOOLEAN,
   error : BOOLEAN, picking : BOOLEAN, picked : SUBSET Task, busy : BOOLEAN,
   sprintPanel : BOOLEAN, made : BOOLEAN, sprint : BOOLEAN, naming : BOOLEAN,
   drag : Task \cup {None}, open : Task \cup {None}, url : Task \cup {None},
   dialog : [open : BOOLEAN, title : BOOLEAN, status : Status, saving : Int]]

RowsTyped == rows \in Listed /\ DOMAIN rows \subseteq born /\ born \subseteq Task

-----------------------------------------------------------------------------
(* A request that changed only in being heard or the latest no more.       *)
Weaker(s, r) ==
  /\ s \in Underway /\ s.op = r.op /\ s.on = r.on /\ s.field = r.field /\ s.value = r.value
  /\ s.stage = r.stage /\ s.ok = r.ok /\ s.data = r.data
  /\ s.latest => r.latest

(* Each page waits for one of its loads at most as the latest.             *)
OneLatest ==
  \A m, n \in DOMAIN flight :
    /\ flight[m].latest /\ flight[n].latest
    /\ Loader(flight[m]) = Loader(flight[n]) /\ Loader(flight[m]) # "none"
    => m = n

Creating == {n \in DOMAIN flight : flight[n].op = "create"}

(* Request n was answered, or none when n is 0, and those of asked are     *)
(* sent.                                                                   *)
Turn(n, asked) ==
  /\ flight' \in Seq(Underway)
  /\ \A i \in DOMAIN flight' :
       \/ \E m \in DOMAIN flight \ {n} :
             /\ Weaker(flight'[i], flight[m]) /\ flight'[i].heard = flight[m].heard
             /\ flight'[i].latest /\ Loader(flight[m]) # "none"
                  => \A k \in DOMAIN asked : Loader(asked[k]) # Loader(flight[m])
       \/ \E k \in DOMAIN asked :
             Weaker(flight'[i], Sent(asked[k])) /\ flight'[i].heard
  /\ \A m \in DOMAIN flight \ {n} : \E i \in DOMAIN flight' :
       Weaker(flight'[i], flight[m]) /\ flight'[i].heard = flight[m].heard
  /\ \A k \in DOMAIN asked : \E i \in DOMAIN flight' :
       Weaker(flight'[i], Sent(asked[k])) /\ flight'[i].heard
  /\ unseen' = [w \in DOMAIN unseen |-> unseen[w] /\ \A k \in DOMAIN asked : Loader(asked[k]) # w]
  /\ OneLatest => OneLatest'
  /\ (\A k \in DOMAIN asked : asked[k].op # "create")
       => Cardinality(Creating') = Cardinality(Creating \ {n})
  /\ Len(asked) = 1 /\ asked[1].op = "create"
       => Cardinality(Creating') = Cardinality(Creating \ {n}) + 1

(* What is left of flight and what it is left of.                          *)
Left(base, n, h) ==
  /\ base \in Seq(Underway) /\ h \in [DOMAIN base -> DOMAIN flight \ {n}]
  /\ \A i \in DOMAIN base : base[i] = flight[h[i]]
  /\ \A i, j \in DOMAIN base : h[i] = h[j] => i = j
  /\ \A m \in DOMAIN flight \ {n} : \E i \in DOMAIN base : h[i] = m

LEMMA NothingLeft ==
  ASSUME flight \in Seq(Underway)
  PROVE  Left(flight, 0, [i \in DOMAIN flight |-> i])
<1>1. DOMAIN flight = 1..Len(flight) /\ Len(flight) \in Nat
  OBVIOUS
<1>2. 0 \notin DOMAIN flight
  BY <1>1
<1> QED
  BY <1>2 DEF Left

LEMMA WithoutLeaves ==
  ASSUME flight \in Seq(Underway), NEW n \in DOMAIN flight
  PROVE  Left(Without(n), n, [i \in DOMAIN Without(n) |-> IF i < n THEN i ELSE i + 1])
<1> DEFINE a == SubSeq(flight, 1, n - 1)
           b == SubSeq(flight, n + 1, Len(flight))
           h == [i \in DOMAIN Without(n) |-> IF i < n THEN i ELSE i + 1]
<1>1. /\ DOMAIN flight = 1..Len(flight) /\ Len(flight) \in Nat /\ n \in 1..Len(flight)
      /\ \A i \in 1..Len(flight) : flight[i] \in Underway
  BY ElementOfSeq
<1>2. /\ a \in Seq(Underway) /\ Len(a) = n - 1
      /\ \A i \in 1..(n - 1) : a[i] = flight[i]
  <2>1. \A i \in 1..(n - 1) : flight[i] \in Underway
    BY <1>1
  <2>2. /\ a \in Seq(Underway) /\ Len(a) = IF 1 <= n - 1 THEN n - 1 - 1 + 1 ELSE 0
        /\ \A i \in 1..(n - 1 - 1 + 1) : a[i] = flight[1 + i - 1]
    <3>1. n - 1 \in Int /\ 1 \in Int
      BY <1>1
    <3> QED
      BY <2>1, <3>1, SubSeqProperties
  <2>3. n - 1 - 1 + 1 = n - 1 /\ \A i \in 1..(n - 1) : 1 + i - 1 = i
    BY <1>1
  <2> QED
    BY <1>1, <2>2, <2>3
<1>3. /\ b \in Seq(Underway) /\ Len(b) = Len(flight) - n
      /\ \A i \in 1..(Len(flight) - n) : b[i] = flight[n + i]
  <2>1. \A i \in (n + 1)..Len(flight) : flight[i] \in Underway
    BY <1>1
  <2>2. /\ b \in Seq(Underway)
        /\ Len(b) = IF n + 1 <= Len(flight) THEN Len(flight) - (n + 1) + 1 ELSE 0
        /\ \A i \in 1..(Len(flight) - (n + 1) + 1) : b[i] = flight[(n + 1) + i - 1]
    <3>1. n + 1 \in Int /\ Len(flight) \in Int
      BY <1>1
    <3> QED
      BY <2>1, <3>1, SubSeqProperties
  <2>3. /\ Len(flight) - (n + 1) + 1 = Len(flight) - n
        /\ \A i \in 1..(Len(flight) - n) : (n + 1) + i - 1 = n + i
    BY <1>1
  <2> QED
    BY <1>1, <2>2, <2>3
<1>4. /\ Without(n) \in Seq(Underway) /\ Len(Without(n)) = Len(flight) - 1
      /\ DOMAIN Without(n) = 1..(Len(flight) - 1)
      /\ \A i \in 1..(Len(flight) - 1) : Without(n)[i] = flight[IF i < n THEN i ELSE i + 1]
  <2> HIDE DEF a, b
  <2>1. Without(n) = a \o b
    BY DEF Without, RemoveAt, a, b
  <2>2. Len(a) + Len(b) = Len(flight) - 1
    BY <1>1, <1>2, <1>3
  <2>3. /\ a \o b \in Seq(Underway) /\ Len(a \o b) = Len(flight) - 1
        /\ \A i \in 1..(Len(flight) - 1) : (a \o b)[i] = IF i <= n - 1 THEN a[i] ELSE b[i - (n - 1)]
    <3>1. /\ a \o b \in Seq(Underway) /\ Len(a \o b) = Len(a) + Len(b)
          /\ \A i \in 1..(Len(a) + Len(b)) :
               (a \o b)[i] = IF i <= Len(a) THEN a[i] ELSE b[i - Len(a)]
      BY <1>2, <1>3, ConcatProperties
    <3> QED
      BY <1>2, <2>2, <3>1
  <2>4. ASSUME NEW i \in 1..(Len(flight) - 1)
        PROVE  (a \o b)[i] = flight[IF i < n THEN i ELSE i + 1]
    <3>1. CASE i < n
      <4>1. i <= n - 1 /\ i \in 1..(n - 1)
        BY <1>1, <3>1
      <4> QED
        BY <1>2, <2>3, <3>1, <4>1
    <3>2. CASE ~ (i < n)
      <4>1. ~ (i <= n - 1) /\ i - (n - 1) \in 1..(Len(flight) - n) /\ n + (i - (n - 1)) = i + 1
        BY <1>1, <3>2
      <4> QED
        BY <1>3, <2>3, <3>2, <4>1
    <3> QED
      BY <3>1, <3>2
  <2>5. DOMAIN (a \o b) = 1..(Len(flight) - 1)
    BY <2>3
  <2> QED
    BY <2>1, <2>3, <2>4, <2>5
<1> HIDE DEF a, b
<1>5. h \in [DOMAIN Without(n) -> DOMAIN flight \ {n}]
  <2>1. \A i \in 1..(Len(flight) - 1) : (IF i < n THEN i ELSE i + 1) \in (1..Len(flight)) \ {n}
    BY <1>1
  <2> QED
    BY <1>1, <1>4, <2>1
<1>6. \A i, j \in DOMAIN Without(n) : h[i] = h[j] => i = j
  BY <1>1, <1>4
<1>7. ASSUME NEW m \in DOMAIN flight \ {n} PROVE \E i \in DOMAIN Without(n) : h[i] = m
  <2>1. CASE m < n
    <3>1. m \in DOMAIN Without(n)
      BY <1>1, <1>4, <2>1
    <3> QED
      BY <2>1, <3>1
  <2>2. CASE m > n
    <3>1. m - 1 \in DOMAIN Without(n) /\ ~ (m - 1 < n) /\ (m - 1) + 1 = m
      BY <1>1, <1>4, <2>2
    <3> QED
      BY <3>1
  <2> QED
    BY <1>1, <2>1, <2>2
<1>8. \A i \in DOMAIN Without(n) : Without(n)[i] = flight[h[i]]
  BY <1>4
<1> HIDE DEF h
<1>9. Left(Without(n), n, h)
  BY <1>4, <1>5, <1>6, <1>7, <1>8 DEF Left
<1> QED
  BY <1>9 DEF h

-----------------------------------------------------------------------------
LEMMA ListingTyped ==
  ASSUME RowsTyped, NEW all, NEW status
  PROVE  Listing(all, status) \in Listed
<1> DEFINE S == {t \in DOMAIN rows : /\ mode = "project" \/ all \/ rows[t].member
                                     /\ status \in {"any", rows[t].status}}
<1>1. PICK D \in SUBSET Task : rows \in [D -> Row]
  BY DEF RowsTyped, Listed
<1>2. S \in SUBSET Task
  BY <1>1
<1>3. \A t \in S : [rows[t] EXCEPT !.blockers = {}] \in Row
  BY <1>1 DEF Row
<1> HIDE DEF S
<1>4. [t \in S |-> [rows[t] EXCEPT !.blockers = {}]] \in [S -> Row]
  BY <1>3
<1>5. Listing(all, status) = [t \in S |-> [rows[t] EXCEPT !.blockers = {}]]
  BY DEF Listing, S
<1> QED
  BY <1>2, <1>4, <1>5 DEF Listed

(* The end of a request that reads, or of one that is refused or done.     *)
LEMMA EndedTyped ==
  ASSUME NEW r \in Message, WellAsked(r), NEW ok \in BOOLEAN, NEW data \in {None} \cup Listed \cup Row,
         r.op \in Listings \cup {"picker"} /\ ok => data \in Listed,
         r.op = "fetch" /\ ok => data \in Row /\ r.on \in Task
  PROVE  /\ Ended(r, ok, data) \in Underway
         /\ Ended(r, ok, data).op = r.op /\ Ended(r, ok, data).on = r.on
         /\ Ended(r, ok, data).field = r.field /\ Ended(r, ok, data).value = r.value
         /\ Ended(r, ok, data).heard = r.heard /\ Ended(r, ok, data).latest = r.latest
         /\ Ended(r, ok, data).stage = "done" /\ Ended(r, ok, data).ok = ok
         /\ Ended(r, ok, data).data = data
<1> DEFINE e == Ended(r, ok, data)
<1>1. /\ e \in Message
      /\ e.op = r.op /\ e.on = r.on /\ e.field = r.field /\ e.value = r.value
      /\ e.heard = r.heard /\ e.latest = r.latest
      /\ e.stage = "done" /\ e.ok = ok /\ e.data = data
  BY DEF Message, Ended
<1> HIDE DEF e
<1>2. WellAsked(e) /\ WellAnswered(e)
  BY <1>1 DEF WellAsked, WellAnswered
<1> QED
  BY <1>1, <1>2 DEF e, Underway

Same(s, r) ==
  /\ s.op = r.op /\ s.on = r.on /\ s.field = r.field /\ s.value = r.value
  /\ s.heard = r.heard /\ s.latest = r.latest

(* What is sent is under way, whether it is served at once or waits.       *)
LEMMA SentTyped ==
  ASSUME RowsTyped, NEW r \in Message, WellAsked(r),
         r.op \notin Reads => WellAnswered(r)
  PROVE  Sent(r) \in Underway /\ Same(Sent(r), r)
<1>1. ASSUME NEW ok \in BOOLEAN, NEW data \in {None} \cup Listed \cup Row,
             r.op \in Listings \cup {"picker"} /\ ok => data \in Listed,
             r.op = "fetch" /\ ok => data \in Row /\ r.on \in Task,
             Sent(r) = Ended(r, ok, data)
      PROVE  Sent(r) \in Underway /\ Same(Sent(r), r)
  BY <1>1, EndedTyped DEF Same
<1>2. CASE r.op \in Listings
  <2> DEFINE list == Listing(r.field = "all", r.value)
  <2>1. list \in Listed
    BY ListingTyped
  <2>2. Sent(r) = Ended(r, TRUE, list)
    BY <1>2 DEF Sent, Listings
  <2>3. r.op # "fetch"
    BY <1>2 DEF Listings
  <2> HIDE DEF list
  <2> QED
    BY <1>1, <2>1, <2>2, <2>3
<1>3. CASE r.op = "picker"
  <2> DEFINE list == Listing(FALSE, "any")
  <2>1. list \in Listed
    BY ListingTyped
  <2>2. Sent(r) = Ended(r, TRUE, list) \/ Sent(r) = Ended(r, FALSE, None)
    BY <1>3 DEF Sent, Listings
  <2> HIDE DEF list
  <2> QED
    BY <1>1, <1>3, <2>1, <2>2
<1>4. CASE r.op = "fetch"
  <2> DEFINE row == rows[r.on]
  <2>1. (r.on \in DOMAIN rows /\ Sent(r) = Ended(r, TRUE, row)) \/ Sent(r) = Ended(r, FALSE, None)
    BY <1>4 DEF Sent, Listings
  <2>2. r.on \in DOMAIN rows => row \in Row /\ r.on \in Task
    BY DEF RowsTyped, Listed
  <2>3. r.op \notin Listings \cup {"picker"}
    BY <1>4 DEF Listings
  <2> HIDE DEF row
  <2> QED
    BY <1>1, <2>1, <2>2, <2>3
<1>5. CASE r.op \notin Reads
  <2>1. Sent(r) = r
    BY <1>5 DEF Sent, Reads, Listings
  <2> QED
    BY <1>5, <2>1 DEF Underway, Same
<1> QED
  BY <1>2, <1>3, <1>4, <1>5 DEF Reads

LEMMA WantedSent ==
  ASSUME RowsTyped, NEW r \in Wanted
  PROVE  Sent(r) \in Underway /\ Same(Sent(r), r) /\ Sent(r).heard
<1>1. r \in Message /\ WellAsked(r) /\ r.stage = "asked" /\ r.heard
  BY DEF Wanted
<1>2. r.op \notin Reads => WellAnswered(r)
  BY <1>1 DEF WellAnswered, Reads
<1> QED
  BY <1>1, <1>2, SentTyped DEF Same

(* Not to be the latest any more.                                          *)
LEMMA LatestNoMore ==
  ASSUME NEW r \in Underway
  PROVE  /\ Weaker([r EXCEPT !.latest = FALSE], r)
         /\ [r EXCEPT !.latest = FALSE].heard = r.heard /\ [r EXCEPT !.latest = FALSE].latest = FALSE
         /\ Weaker(r, r)
<1> DEFINE s == [r EXCEPT !.latest = FALSE]
<1>1. /\ s \in Message /\ s.op = r.op /\ s.on = r.on /\ s.field = r.field /\ s.value = r.value
      /\ s.stage = r.stage /\ s.ok = r.ok /\ s.data = r.data /\ s.heard = r.heard
      /\ s.latest = FALSE
  BY DEF Underway, Message
<1> HIDE DEF s
<1>2. s \in Underway
  BY <1>1 DEF Underway, WellAsked, WellAnswered
<1> QED
  BY <1>1, <1>2 DEF Weaker, s

(* Where the requests are after an exchange.                               *)
Placed(base, asked) ==
  /\ flight' \in Seq(Underway) /\ Len(flight') = Len(base) + Len(asked)
  /\ \A i \in 1..Len(base) :
       /\ Weaker(flight'[i], base[i]) /\ flight'[i].heard = base[i].heard
       /\ flight'[i].latest /\ Loader(base[i]) # "none"
            => \A k \in 1..Len(asked) : Loader(asked[k]) # Loader(base[i])
  /\ \A k \in 1..Len(asked) :
       /\ Weaker(flight'[Len(base) + k], Sent(asked[k])) /\ flight'[Len(base) + k].heard
       /\ flight'[Len(base) + k].latest /\ Loader(asked[k]) # "none"
            => \A l \in 1..Len(asked) : l > k => Loader(asked[l]) # Loader(asked[k])

LEMMA ExchangePlaces ==
  ASSUME RowsTyped, NEW base \in Seq(Underway), NEW asked \in Seq(Wanted), Exchange(base, asked)
  PROVE  Placed(base, asked)
<1> DEFINE sent == [i \in DOMAIN asked |-> Sent(asked[i])]
           all == base \o sent
           later(i) == \E j \in DOMAIN all :
                         j > i /\ j > Len(base) /\ Loader(all[j]) = Loader(all[i])
<1>1. /\ DOMAIN asked = 1..Len(asked) /\ Len(asked) \in Nat
      /\ \A k \in 1..Len(asked) : asked[k] \in Wanted
  BY ElementOfSeq
<1>2. \A k \in 1..Len(asked) :
        /\ Sent(asked[k]) \in Underway /\ Sent(asked[k]).heard
        /\ Loader(Sent(asked[k])) = Loader(asked[k])
  BY <1>1, WantedSent DEF Same, Loader
<1>3. sent \in Seq(Underway) /\ Len(sent) = Len(asked)
  BY <1>1, <1>2, IsASeq
<1>4. /\ all \in Seq(Underway) /\ Len(all) = Len(base) + Len(asked)
      /\ DOMAIN all = 1..(Len(base) + Len(asked))
      /\ \A i \in 1..(Len(base) + Len(asked)) :
           all[i] = IF i <= Len(base) THEN base[i] ELSE sent[i - Len(base)]
  <2> HIDE DEF sent
  <2>1. /\ base \o sent \in Seq(Underway) /\ Len(base \o sent) = Len(base) + Len(sent)
        /\ \A i \in 1..(Len(base) + Len(sent)) :
             (base \o sent)[i] = IF i <= Len(base) THEN base[i] ELSE sent[i - Len(base)]
    BY <1>3, ConcatProperties
  <2>2. DOMAIN (base \o sent) = 1..Len(base \o sent)
    BY <2>1
  <2> QED
    BY <1>3, <2>1, <2>2
<1>5. flight' = [i \in DOMAIN all |-> IF Loader(all[i]) # "none" /\ later(i)
                                       THEN [all[i] EXCEPT !.latest = FALSE] ELSE all[i]]
  BY DEF Exchange
<1>6. Len(base) \in Nat /\ \A i \in 1..Len(base) : all[i] = base[i] /\ base[i] \in Underway
  BY <1>1, <1>4, ElementOfSeq
<1>7. \A k \in 1..Len(asked) : /\ all[Len(base) + k] = Sent(asked[k])
                               /\ Len(base) + k \in DOMAIN all /\ Len(base) + k > Len(base)
  <2> SUFFICES ASSUME NEW k \in 1..Len(asked)
               PROVE  /\ all[Len(base) + k] = Sent(asked[k])
                      /\ Len(base) + k \in DOMAIN all /\ Len(base) + k > Len(base)
    OBVIOUS
  <2>1. /\ Len(base) + k \in 1..(Len(base) + Len(asked)) /\ ~ (Len(base) + k <= Len(base))
        /\ (Len(base) + k) - Len(base) = k
    BY <1>1, <1>6
  <2>2. all[Len(base) + k] = sent[k]
    BY <1>4, <2>1
  <2>3. Len(base) + k > Len(base)
    BY <1>1, <1>6
  <2> QED
    BY <1>1, <1>4, <2>1, <2>2, <2>3
<1>8. \A i \in DOMAIN all : all[i] \in Underway
  BY <1>4, ElementOfSeq
<1>9. \A i \in DOMAIN all :
        /\ flight'[i] \in Underway /\ Weaker(flight'[i], all[i]) /\ flight'[i].heard = all[i].heard
        /\ flight'[i].latest /\ Loader(all[i]) # "none" => ~ later(i)
  <2> SUFFICES ASSUME NEW i \in DOMAIN all
               PROVE  /\ flight'[i] \in Underway /\ Weaker(flight'[i], all[i])
                      /\ flight'[i].heard = all[i].heard
                      /\ flight'[i].latest /\ Loader(all[i]) # "none" => ~ later(i)
    OBVIOUS
  <2> DEFINE r == all[i]
  <2>1. r \in Underway
    BY <1>8
  <2>2. CASE Loader(r) # "none" /\ later(i)
    <3>1. flight'[i] = [r EXCEPT !.latest = FALSE]
      BY <1>5, <2>2
    <3> HIDE DEF r
    <3>2. /\ Weaker(flight'[i], r) /\ flight'[i].heard = r.heard /\ flight'[i].latest = FALSE
      BY <2>1, <3>1, LatestNoMore
    <3> QED
      BY <3>2 DEF Weaker, r
  <2>3. CASE ~ (Loader(r) # "none" /\ later(i))
    <3>1. flight'[i] = r
      BY <1>5, <2>3
    <3> HIDE DEF later
    <3> QED
      BY <2>1, <2>3, <3>1, LatestNoMore DEF Weaker
  <2> QED
    BY <2>2, <2>3
<1>10. flight' \in Seq(Underway) /\ Len(flight') = Len(base) + Len(asked)
  <2>1. Len(base) + Len(asked) \in Nat
    BY <1>1, <1>6
  <2> DEFINE g(i) == IF Loader(all[i]) # "none" /\ later(i)
                     THEN [all[i] EXCEPT !.latest = FALSE] ELSE all[i]
  <2>2. flight' = [i \in 1..(Len(base) + Len(asked)) |-> g(i)]
    BY <1>4, <1>5
  <2>3. \A i \in 1..(Len(base) + Len(asked)) : g(i) \in Underway
    <3> SUFFICES ASSUME NEW i \in 1..(Len(base) + Len(asked)) PROVE g(i) \in Underway
      OBVIOUS
    <3>1. flight'[i] = g(i)
      BY <2>2
    <3> QED
      BY <1>4, <1>9, <3>1
  <2> HIDE DEF g
  <2> QED
    BY <2>1, <2>2, <2>3, IsASeq
<1>11. ASSUME NEW i \in DOMAIN all, ~ later(i), NEW k \in 1..Len(asked), Len(base) + k > i
       PROVE  Loader(asked[k]) # Loader(all[i])
  <2> HIDE DEF all
  <2> QED
    BY <1>2, <1>7, <1>11
<1> HIDE DEF later, all, sent
<1>12. ASSUME NEW i \in 1..Len(base)
       PROVE  /\ Weaker(flight'[i], base[i]) /\ flight'[i].heard = base[i].heard
              /\ flight'[i].latest /\ Loader(base[i]) # "none"
                   => \A k \in 1..Len(asked) : Loader(asked[k]) # Loader(base[i])
  <2>1. i \in DOMAIN all /\ all[i] = base[i] /\ \A k \in 1..Len(asked) : Len(base) + k > i
    BY <1>1, <1>4, <1>6
  <2> QED
    BY <1>9, <1>11, <2>1
<1>13. ASSUME NEW k \in 1..Len(asked)
       PROVE  /\ Weaker(flight'[Len(base) + k], Sent(asked[k])) /\ flight'[Len(base) + k].heard
              /\ flight'[Len(base) + k].latest /\ Loader(asked[k]) # "none"
                   => \A l \in 1..Len(asked) : l > k => Loader(asked[l]) # Loader(asked[k])
  <2>1. Len(base) + k \in DOMAIN all /\ all[Len(base) + k] = Sent(asked[k])
    BY <1>7
  <2>2. \A l \in 1..Len(asked) : l > k => Len(base) + l > Len(base) + k
    BY <1>1, <1>6
  <2> QED
    BY <1>2, <1>9, <1>11, <2>1, <2>2
<1> QED
  BY <1>10, <1>12, <1>13 DEF Placed

LEMMA ExchangeOneLatest ==
  ASSUME OneLatest, NEW n, NEW base, NEW h, Left(base, n, h),
         NEW asked \in Seq(Wanted), Placed(base, asked),
         \A k \in DOMAIN asked : Same(Sent(asked[k]), asked[k])
  PROVE  OneLatest'
<1>1. /\ DOMAIN base = 1..Len(base) /\ Len(base) \in Nat
      /\ DOMAIN asked = 1..Len(asked) /\ Len(asked) \in Nat
      /\ DOMAIN flight' = 1..(Len(base) + Len(asked))
  BY DEF Left, Placed
<1>2. \A i \in 1..Len(base) : /\ h[i] \in DOMAIN flight /\ base[i] = flight[h[i]]
                              /\ Loader(flight'[i]) = Loader(base[i])
  BY <1>1 DEF Left, Placed, Weaker, Loader
<1>3. \A k \in 1..Len(asked) : Loader(flight'[Len(base) + k]) = Loader(asked[k])
  BY <1>1 DEF Placed, Weaker, Loader, Same
<1>4. \A i \in DOMAIN flight' :
        \/ i \in 1..Len(base)
        \/ ~ (i <= Len(base)) /\ i - Len(base) \in 1..Len(asked) /\ i = Len(base) + (i - Len(base))
  BY <1>1
<1>5. ASSUME NEW i \in 1..Len(base), NEW k \in 1..Len(asked),
             flight'[i].latest, Loader(flight'[i]) # "none",
             Loader(flight'[i]) = Loader(flight'[Len(base) + k])
      PROVE  FALSE
  BY <1>2, <1>3, <1>5 DEF Placed
<1>6. ASSUME NEW i \in 1..Len(base), NEW j \in 1..Len(base),
             flight'[i].latest, flight'[j].latest,
             Loader(flight'[i]) = Loader(flight'[j]), Loader(flight'[i]) # "none"
      PROVE  i = j
  <2>1. flight[h[i]].latest /\ flight[h[j]].latest
    BY <1>2, <1>6 DEF Placed, Weaker
  <2>2. h[i] = h[j]
    BY <1>2, <1>6, <2>1 DEF OneLatest
  <2> QED
    BY <1>1, <2>2 DEF Left
<1>7. ASSUME NEW k \in 1..Len(asked), NEW l \in 1..Len(asked), l > k,
             flight'[Len(base) + k].latest, Loader(flight'[Len(base) + k]) # "none",
             Loader(flight'[Len(base) + k]) = Loader(flight'[Len(base) + l])
      PROVE  FALSE
  BY <1>3, <1>7 DEF Placed
<1>8. ASSUME NEW i \in DOMAIN flight', NEW j \in DOMAIN flight',
             flight'[i].latest, flight'[j].latest,
             Loader(flight'[i]) = Loader(flight'[j]), Loader(flight'[i]) # "none"
      PROVE  i = j
  <2>1. CASE i \in 1..Len(base) /\ j \in 1..Len(base)
    BY <1>6, <1>8, <2>1
  <2>2. CASE i \in 1..Len(base) /\ j \notin 1..Len(base)
    BY <1>4, <1>5, <1>8, <2>2
  <2>3. CASE i \notin 1..Len(base) /\ j \in 1..Len(base)
    BY <1>4, <1>5, <1>8, <2>3
  <2>4. CASE i \notin 1..Len(base) /\ j \notin 1..Len(base)
    <3> DEFINE k == i - Len(base)
               l == j - Len(base)
    <3>1. k \in 1..Len(asked) /\ l \in 1..Len(asked) /\ i = Len(base) + k /\ j = Len(base) + l
      BY <1>4, <2>4
    <3> HIDE DEF k, l
    <3>2. ~ (l > k) /\ ~ (k > l)
      BY <1>7, <1>8, <3>1
    <3>3. k = l
      BY <1>1, <3>1, <3>2
    <3> QED
      BY <3>1, <3>3
  <2> QED
    BY <2>1, <2>2, <2>3, <2>4
<1> QED
  BY <1>8 DEF OneLatest

LEMMA ExchangeCreating ==
  ASSUME flight \in Seq(Underway), NEW n, NEW base, NEW h, Left(base, n, h),
         NEW asked \in Seq(Wanted), Placed(base, asked),
         \A k \in DOMAIN asked : Same(Sent(asked[k]), asked[k])
  PROVE  /\ (\A k \in DOMAIN asked : asked[k].op # "create")
              => Cardinality(Creating') = Cardinality(Creating \ {n})
         /\ Len(asked) = 1 /\ asked[1].op = "create"
              => Cardinality(Creating') = Cardinality(Creating \ {n}) + 1
<1> DEFINE old == {i \in 1..Len(base) : base[i].op = "create"}
<1>1. /\ DOMAIN base = 1..Len(base) /\ Len(base) \in Nat
      /\ DOMAIN asked = 1..Len(asked) /\ Len(asked) \in Nat
      /\ DOMAIN flight' = 1..(Len(base) + Len(asked)) /\ DOMAIN flight = 1..Len(flight)
  BY DEF Left, Placed
<1>2. \A i \in 1..Len(base) : /\ h[i] \in DOMAIN flight \ {n} /\ base[i] = flight[h[i]]
                              /\ flight'[i].op = base[i].op
  BY <1>1 DEF Left, Placed, Weaker
<1>3. \A k \in 1..Len(asked) : flight'[Len(base) + k].op = asked[k].op
  BY <1>1 DEF Placed, Weaker, Same
<1>4. IsFiniteSet(old)
  <2>1. IsFiniteSet(1..Len(base))
    BY <1>1, FS_Interval
  <2> QED
    BY <2>1, FS_Subset
<1>5. Cardinality(old) = Cardinality(Creating \ {n})
  <2> DEFINE g == [i \in old |-> h[i]]
             C == Creating \ {n}
  <2>1. g \in [old -> C]
    BY <1>2 DEF Creating
  <2>2. \A i, j \in old : g[i] = g[j] => i = j
    BY <1>1 DEF Left
  <2>3. \A m \in C : \E i \in old : g[i] = m
    <3> SUFFICES ASSUME NEW m \in C PROVE \E i \in old : g[i] = m
      OBVIOUS
    <3>1. PICK i \in 1..Len(base) : h[i] = m
      BY <1>1 DEF Left, Creating
    <3>2. i \in old
      BY <1>2, <3>1 DEF Creating
    <3> QED
      BY <3>1, <3>2
  <2> HIDE DEF g, C, old
  <2>4. g \in Bijection(old, C)
    BY <2>1, <2>2, <2>3 DEF Bijection, Injection, Surjection, IsInjective
  <2> QED
    BY <1>4, <2>4, FS_Bijection DEF ExistsBijection, C
<1>6. \A i \in DOMAIN flight' :
        \/ i \in 1..Len(base)
        \/ ~ (i <= Len(base)) /\ i - Len(base) \in 1..Len(asked) /\ i = Len(base) + (i - Len(base))
  BY <1>1
<1>7. \A i \in 1..Len(base) : i \in DOMAIN flight'
  BY <1>1
<1>8. CASE \A k \in DOMAIN asked : asked[k].op # "create"
  <2>1. Creating' = old
    <3>1. \A i \in DOMAIN flight' : flight'[i].op = "create" => i \in 1..Len(base)
      BY <1>1, <1>3, <1>6, <1>8
    <3> QED
      BY <1>2, <1>7, <3>1 DEF Creating
  <2> HIDE DEF old
  <2>2. Len(asked) = 1 => 1 \in DOMAIN asked
    BY <1>1
  <2> QED
    BY <1>5, <1>8, <2>1, <2>2
<1>9. CASE Len(asked) = 1 /\ asked[1].op = "create"
  <2>1. 1 \in DOMAIN asked /\ Len(base) + 1 \in DOMAIN flight'
    BY <1>1, <1>9
  <2>2. \A i \in DOMAIN flight' : i \in 1..Len(base) \/ i = Len(base) + 1
    BY <1>1, <1>9
  <2>3. flight'[Len(base) + 1].op = "create"
    BY <1>1, <1>3, <1>9, <2>1
  <2>4. Creating' = old \cup {Len(base) + 1}
    BY <1>2, <1>7, <2>1, <2>2, <2>3 DEF Creating
  <2>5. Len(base) + 1 \notin old
    BY <1>1
  <2> HIDE DEF old
  <2>6. Cardinality(Creating') = Cardinality(old) + 1
    BY <1>4, <2>4, <2>5, FS_AddElement
  <2> QED
    BY <1>5, <1>9, <2>1, <2>6
<1> QED
  BY <1>8, <1>9

LEMMA ExchangeTurn ==
  ASSUME RowsTyped, flight \in Seq(Underway), NEW n, NEW base, NEW h, Left(base, n, h),
         NEW asked \in Seq(Wanted), Exchange(base, asked)
  PROVE  Turn(n, asked)
<1>1. base \in Seq(Underway) /\ DOMAIN base = 1..Len(base) /\ Len(base) \in Nat
  BY DEF Left
<1>2. Placed(base, asked)
  BY <1>1, ExchangePlaces
<1>3. /\ DOMAIN asked = 1..Len(asked) /\ Len(asked) \in Nat
      /\ DOMAIN flight' = 1..(Len(base) + Len(asked))
  BY <1>2 DEF Placed
<1>4. \A i \in 1..Len(base) : h[i] \in DOMAIN flight \ {n} /\ base[i] = flight[h[i]]
  BY <1>1 DEF Left
<1>5. ASSUME NEW i \in DOMAIN flight'
      PROVE  \/ \E m \in DOMAIN flight \ {n} :
                   /\ Weaker(flight'[i], flight[m]) /\ flight'[i].heard = flight[m].heard
                   /\ flight'[i].latest /\ Loader(flight[m]) # "none"
                        => \A k \in DOMAIN asked : Loader(asked[k]) # Loader(flight[m])
             \/ \E k \in DOMAIN asked :
                   Weaker(flight'[i], Sent(asked[k])) /\ flight'[i].heard
  <2>1. CASE i <= Len(base)
    <3>1. i \in 1..Len(base)
      BY <1>1, <1>3, <2>1
    <3> DEFINE m == h[i]
    <3>2. /\ m \in DOMAIN flight \ {n}
          /\ Weaker(flight'[i], flight[m]) /\ flight'[i].heard = flight[m].heard
          /\ flight'[i].latest /\ Loader(flight[m]) # "none"
               => \A k \in DOMAIN asked : Loader(asked[k]) # Loader(flight[m])
      BY <1>2, <1>3, <1>4, <3>1 DEF Placed
    <3> HIDE DEF m
    <3> QED
      BY <3>2
  <2>2. CASE ~ (i <= Len(base))
    <3>1. i - Len(base) \in 1..Len(asked) /\ Len(base) + (i - Len(base)) = i
      BY <1>1, <1>3, <2>2
    <3> QED
      BY <1>2, <1>3, <3>1 DEF Placed
  <2> QED
    BY <2>1, <2>2
<1>6. ASSUME NEW m \in DOMAIN flight \ {n}
      PROVE  \E i \in DOMAIN flight' :
               Weaker(flight'[i], flight[m]) /\ flight'[i].heard = flight[m].heard
  <2>1. PICK i \in 1..Len(base) : h[i] = m
    BY <1>1 DEF Left
  <2>2. i \in DOMAIN flight'
    BY <1>1, <1>3
  <2> QED
    BY <1>2, <1>4, <2>1, <2>2 DEF Placed
<1>7. ASSUME NEW k \in DOMAIN asked
      PROVE  \E i \in DOMAIN flight' : Weaker(flight'[i], Sent(asked[k])) /\ flight'[i].heard
  <2>1. Len(base) + k \in DOMAIN flight' /\ k \in 1..Len(asked)
    BY <1>1, <1>3
  <2> QED
    BY <1>2, <2>1 DEF Placed
<1>8. /\ flight' \in Seq(Underway)
      /\ unseen' = [w \in DOMAIN unseen |->
                      unseen[w] /\ \A k \in DOMAIN asked : Loader(asked[k]) # w]
  BY <1>2 DEF Placed, Exchange
<1>9. \A k \in DOMAIN asked : Same(Sent(asked[k]), asked[k])
  BY <1>3, WantedSent, ElementOfSeq
<1>10. OneLatest => OneLatest'
  BY <1>2, <1>9, ExchangeOneLatest
<1>11. /\ (\A k \in DOMAIN asked : asked[k].op # "create")
            => Cardinality(Creating') = Cardinality(Creating \ {n})
       /\ Len(asked) = 1 /\ asked[1].op = "create"
            => Cardinality(Creating') = Cardinality(Creating \ {n}) + 1
  BY <1>2, <1>9, ExchangeCreating
<1> QED
  BY <1>5, <1>6, <1>7, <1>8, <1>10, <1>11 DEF Turn

LEMMA SendsTurn ==
  ASSUME RowsTyped, flight \in Seq(Underway), NEW asked \in Seq(Wanted), Exchange(flight, asked)
  PROVE  Turn(0, asked)
BY NothingLeft, ExchangeTurn

LEMMA AnswerTurn ==
  ASSUME RowsTyped, flight \in Seq(Underway), NEW n \in DOMAIN flight,
         NEW asked \in Seq(Wanted), Exchange(Without(n), asked)
  PROVE  Turn(n, asked)
BY WithoutLeaves, ExchangeTurn

LEMMA StillTurn ==
  ASSUME flight \in Seq(Underway), unseen \in [{"board", "detail"} -> BOOLEAN],
         UNCHANGED <<flight, unseen>>
  PROVE  Turn(0, <<>>) /\ <<>> \in Seq(Wanted)
<1>1. DOMAIN flight = 1..Len(flight) /\ \A i \in DOMAIN flight : flight[i] \in Underway
  BY ElementOfSeq
<1>2. \A i \in DOMAIN flight : Weaker(flight[i], flight[i])
  BY <1>1, LatestNoMore
<1>3. DOMAIN <<>> = {} /\ Len(<<>>) # 1 /\ <<>> \in Seq(Wanted)
  OBVIOUS
<1>4. Creating' = Creating /\ Creating \ {0} = Creating /\ DOMAIN flight \ {0} = DOMAIN flight
  BY <1>1 DEF Creating
<1>5. OneLatest => OneLatest'
  BY DEF OneLatest
<1>6. unseen' = [w \in DOMAIN unseen |->
                   unseen[w] /\ \A k \in DOMAIN <<>> : Loader(<<>>[k]) # w]
  BY <1>3
<1>7. \A i \in DOMAIN flight' :
        \E m \in DOMAIN flight \ {0} :
           /\ Weaker(flight'[i], flight[m]) /\ flight'[i].heard = flight[m].heard
           /\ flight'[i].latest /\ Loader(flight[m]) # "none"
                => \A k \in DOMAIN <<>> : Loader(<<>>[k]) # Loader(flight[m])
  BY <1>2, <1>3, <1>4
<1>8. \A m \in DOMAIN flight \ {0} : \E i \in DOMAIN flight' :
        Weaker(flight'[i], flight[m]) /\ flight'[i].heard = flight[m].heard
  BY <1>2
<1>9. flight' \in Seq(Underway)
  OBVIOUS
<1>10. Cardinality(Creating') = Cardinality(Creating \ {0})
  BY <1>4
<1> QED
  BY <1>3, <1>5, <1>6, <1>7, <1>8, <1>9, <1>10 DEF Turn

LEMMA RequestWanted ==
  ASSUME NEW op \in Op, NEW on \in Target, NEW field \in Field, NEW value \in Value,
         op \in Updates => <<field, value>> \in Change, op = "create" => value \in Status
  PROVE  /\ Request(op, on, field, value) \in Wanted
         /\ Request(op, on, field, value).op = op /\ Request(op, on, field, value).on = on
         /\ Request(op, on, field, value).field = field
         /\ Request(op, on, field, value).value = value
<1> DEFINE r == Request(op, on, field, value)
<1>1. /\ r \in Message /\ r.op = op /\ r.on = on /\ r.field = field /\ r.value = value
      /\ r.stage = "asked" /\ r.heard /\ r.data = None
  BY DEF Request, Message
<1> HIDE DEF r
<1>2. r \in Wanted
  BY <1>1 DEF Wanted, WellAsked
<1> QED
  BY <1>1, <1>2 DEF r

LEMMA OneAsked ==
  ASSUME NEW r \in Wanted
  PROVE  <<r>> \in Seq(Wanted) /\ DOMAIN <<r>> = {1} /\ Len(<<r>>) = 1 /\ <<r>>[1] = r
OBVIOUS

LEMMA TwoAsked ==
  ASSUME NEW r \in Wanted, NEW s \in Wanted
  PROVE  /\ <<r, s>> \in Seq(Wanted) /\ DOMAIN <<r, s>> = {1, 2} /\ Len(<<r, s>>) = 2
         /\ <<r, s>>[1] = r /\ <<r, s>>[2] = s
OBVIOUS

(* A load asks for what the board's filters say.                           *)
Suits(r, b) == r.op \in Listings /\ (r.field = "all" <=> b.all) /\ r.value = b.status

LEMMA ListRequestWanted ==
  ASSUME NEW b \in Board, NEW op \in Listings
  PROVE  ListRequest(b, op) \in Wanted /\ Suits(ListRequest(b, op), b)
<1> DEFINE field == IF b.all THEN "all" ELSE "session"
           value == b.status
<1>1. op \in Op /\ op \notin Updates /\ op # "create" /\ None \in Target
  BY DEF Op, Reads, Listings, Updates, Target
<1>2. value \in Value /\ b.all \in BOOLEAN
  BY DEF Board, Value
<1>3. field \in Field /\ (field = "all" <=> b.all)
  BY <1>2 DEF Field
<1>4. ListRequest(b, op) = Request(op, None, field, value)
  BY DEF ListRequest
<1>5. value = b.status
  OBVIOUS
<1> HIDE DEF field, value
<1>7. op \in Updates => <<field, value>> \in Change
  BY <1>1
<1>8. op = "create" => value \in Status
  BY <1>1
<1>9. op \in Op /\ None \in Target
  BY <1>1
<1>6. /\ Request(op, None, field, value) \in Wanted /\ Request(op, None, field, value).op = op
      /\ Request(op, None, field, value).field = field
      /\ Request(op, None, field, value).value = value
  BY <1>2, <1>3, <1>7, <1>8, <1>9, RequestWanted
<1> QED
  BY <1>3, <1>4, <1>5, <1>6 DEF Suits

-----------------------------------------------------------------------------
(* What was fetched belongs to a task.                                     *)
Known(d) == d.task # None => d.taskId # None

Typed ==
  /\ mode \in {"session", "project"} /\ RowsTyped
  /\ joining \subseteq born /\ notice \in BOOLEAN
  /\ flight \in Seq(Underway) /\ unseen \in [{"board", "detail"} -> BOOLEAN]
  /\ clicks \in 0..MaxClicks /\ foreign \in 0..MaxForeign /\ losses \in 0..MaxLosses
  /\ board \in Board /\ detail \in Detail /\ Known(detail)

(* The dialog counts the tasks it waits for.                               *)
Saving == board.dialog.saving = Cardinality(Creating)

(* At the board's own address no detail is open.                           *)
Addressed(b) == b.url = None => b.open = None

SameList(b, c) == b.shown = c.shown /\ b.fresh = c.fresh /\ b.all = c.all /\ b.status = c.status

OfBoard(r) == r.op \in Op \ {"fetch", "update", "delete", "comment", "block", "unblock", "picker"}

(* An answer after which the board loads its list, so that it need not be  *)
(* told of the change; a request that the bar of the tasks picked waits    *)
(* for.                                                                    *)
TellsBoard(r) ==
  \/ r.op \in {"move", "erase", "join", "part", "create"} /\ r.stage = "done" /\ r.ok
  \/ r.op \in {"batch", "batchdel"}
Busies(r) == r.op = "last" \/ (r.op \in {"batch", "batchdel"} /\ r.heard)

(* Request n is the only one under way of the kind that P says.            *)
LastOf(n, P(_)) ==
  n \in DOMAIN flight /\ P(flight[n]) /\ \A m \in DOMAIN flight \ {n} : ~P(flight[m])

(* What the two pages load.                                                *)
Loaded == Listings \cup {"fetch"}

Loading(asked) == \E k \in DOMAIN asked : asked[k].op \in Listings

(* What an action of the board amounts to: it leaves the list as it is, or *)
(* loads it again for the filters then in force.                           *)
BoardPart(n, asked) ==
  /\ board' \in Board /\ Turn(n, asked)
  /\ n \in DOMAIN flight => flight[n].op \notin Loaded
  /\ Addressed(board) => Addressed(board')
  /\ \/ SameList(board', board) /\ ~Loading(asked)
     \/ /\ ~board'.fresh /\ Loading(asked)
        /\ \A k \in DOMAIN asked : asked[k].op \in Listings => Suits(asked[k], board')
  /\ board'.loading => board.loading \/ Loading(asked)
  /\ LastOf(n, TellsBoard) => Loading(asked)
  /\ board'.busy =>
       (board.busy /\ ~LastOf(n, Busies)) \/ \E k \in DOMAIN asked : Busies(asked[k])
  /\ \A k \in DOMAIN asked : asked[k] \in Wanted
  /\ Saving => Saving'

BoardOutcome(n, asked) ==
  BoardPart(n, asked) /\ \A k \in DOMAIN asked : OfBoard(asked[k])

(* A state of the board that an action may go on from, and one that it may *)
(* leave the board in without loading.                                     *)
Steady(b) ==
  /\ b \in Board /\ (b.busy => board.busy) /\ b.dialog.saving = board.dialog.saving
  /\ Addressed(board) => Addressed(b)
Calm(b) == Steady(b) /\ SameList(b, board) /\ (b.loading => board.loading)

LEMMA CreatingFinite ==
  ASSUME flight \in Seq(Underway)
  PROVE  IsFiniteSet(Creating) /\ Cardinality(Creating) \in Nat
<1>1. IsFiniteSet(1..Len(flight)) /\ DOMAIN flight = 1..Len(flight)
  BY FS_Interval
<1>2. IsFiniteSet(Creating)
  BY <1>1, FS_Subset DEF Creating
<1> QED
  BY <1>2, FS_CardinalityType

-----------------------------------------------------------------------------
(* What the board does without an answer.                                 *)
(* A change of the board alone.                                            *)
LEMMA BoardLocal ==
  ASSUME Typed, NEW b, Calm(b), Local(b)
  PROVE  \E asked \in Seq(Wanted) : BoardOutcome(0, asked)
<1>1. Turn(0, <<>>) /\ <<>> \in Seq(Wanted) /\ DOMAIN <<>> = {}
  BY StillTurn DEF Typed, Local
<1>2. board' = b /\ Creating' = Creating
  BY DEF Local, Creating
<1>3. 0 \notin DOMAIN flight
  <2>1. DOMAIN flight = 1..Len(flight) /\ Len(flight) \in Nat
    BY DEF Typed
  <2> QED
    BY <2>1
<1>4. ~Loading(<<>>)
  BY <1>1 DEF Loading
<1>5. BoardOutcome(0, <<>>)
  BY <1>1, <1>2, <1>3, <1>4 DEF BoardOutcome, BoardPart, Saving, Calm, Steady, LastOf
<1> QED
  BY <1>1, <1>5

(* Requests other than loads.                                              *)
LEMMA BoardSends ==
  ASSUME Typed, NEW b, NEW asked \in Seq(Wanted), Sends(b, asked),
         b \in Board, SameList(b, board), b.loading => board.loading,
         b.busy => board.busy \/ \E k \in DOMAIN asked : Busies(asked[k]),
         Addressed(board) => Addressed(b),
         \A k \in DOMAIN asked : OfBoard(asked[k]) /\ asked[k].op \notin Listings,
         \/ /\ b.dialog.saving = board.dialog.saving
            /\ \A k \in DOMAIN asked : asked[k].op # "create"
         \/ /\ b.dialog.saving = board.dialog.saving + 1
            /\ Len(asked) = 1 /\ asked[1].op = "create"
  PROVE  BoardOutcome(0, asked)
<1>1. Turn(0, asked) /\ board' = b
  BY SendsTurn DEF Typed, Sends
<1>2. Creating \ {0} = Creating /\ 0 \notin DOMAIN flight
  <2>1. DOMAIN flight = 1..Len(flight) /\ Len(flight) \in Nat
    BY DEF Typed
  <2> QED
    BY <2>1 DEF Creating
<1>3. Saving => Saving'
  BY <1>1, <1>2 DEF Saving, Turn
<1>4. \A k \in DOMAIN asked : asked[k] \in Wanted
  BY ElementOfSeq
<1>5. ~Loading(asked)
  BY DEF Loading
<1> QED
  BY <1>1, <1>2, <1>3, <1>4, <1>5 DEF BoardOutcome, BoardPart, LastOf

(* One load, at the user's wish or after an answer.                        *)
LEMMA BoardLoads ==
  ASSUME Typed, NEW b \in Board, NEW op \in Listings, NEW n, NEW base, Loads(b, base, op),
         \/ n = 0 /\ base = flight
         \/ n \in DOMAIN flight /\ base = Without(n) /\ flight[n].op \notin Loaded,
         b.busy => op = "last" \/ (board.busy /\ ~LastOf(n, Busies)),
         Addressed(board) => Addressed(b),
         b.dialog.saving = board.dialog.saving - Cardinality(Creating)
                             + Cardinality(Creating \ {n})
  PROVE  \E asked \in Seq(Wanted) : BoardOutcome(n, asked) /\ Loading(asked)
<1> DEFINE r == ListRequest(b, op)
           c == [b EXCEPT !.loading = TRUE, !.error = FALSE, !.fresh = FALSE]
<1>1. r \in Wanted /\ Suits(r, b) /\ r.op = op
  BY ListRequestWanted DEF ListRequest, Request
<1>2. /\ c \in Board /\ c.all = b.all /\ c.status = b.status /\ ~c.fresh
      /\ c.busy = b.busy /\ c.open = b.open /\ c.url = b.url /\ c.dialog = b.dialog
  BY DEF Board
<1> HIDE DEF r, c
<1>3. board' = c /\ Exchange(base, <<r>>)
  BY DEF Loads, r, c
<1>4. <<r>> \in Seq(Wanted) /\ DOMAIN <<r>> = {1} /\ Len(<<r>>) = 1 /\ <<r>>[1] = r
  BY <1>1, OneAsked
<1>5. Turn(n, <<r>>)
  <2>1. CASE n = 0 /\ base = flight
    BY <1>3, <1>4, <2>1, SendsTurn DEF Typed
  <2>2. CASE n \in DOMAIN flight /\ base = Without(n)
    BY <1>3, <1>4, <2>2, AnswerTurn DEF Typed
  <2> QED
    BY <2>1, <2>2
<1>6. r.op \in Listings /\ r.op # "create" /\ OfBoard(r)
  BY <1>1 DEF Listings, OfBoard, Op, Reads
<1>7. Saving => Saving'
  <2>1. Cardinality(Creating') = Cardinality(Creating \ {n})
    BY <1>4, <1>5, <1>6 DEF Turn
  <2>2. Cardinality(Creating) \in Nat /\ Cardinality(Creating \ {n}) \in Nat
    BY CreatingFinite, FS_RemoveElement, FS_CardinalityType DEF Typed
  <2> QED
    BY <1>2, <1>3, <2>1, <2>2 DEF Saving
<1>8. Suits(r, c)
  BY <1>1, <1>2 DEF Suits
<1>9. Addressed(board) => Addressed(board')
  BY <1>2, <1>3 DEF Addressed
<1>10. board'.busy => (board.busy /\ ~LastOf(n, Busies)) \/ Busies(r)
  BY <1>1, <1>2, <1>3 DEF Busies
<1>14. n \in DOMAIN flight => flight[n].op \notin Loaded
  <2>1. DOMAIN flight = 1..Len(flight) /\ Len(flight) \in Nat
    BY DEF Typed
  <2> QED
    BY <2>1
<1> DEFINE asked == <<r>>
<1>11. \A k \in DOMAIN asked : asked[k] = r
  BY <1>4
<1>12. 1 \in DOMAIN asked /\ asked \in Seq(Wanted) /\ Turn(n, asked) /\ asked[1] = r
  BY <1>4, <1>5
<1> HIDE DEF asked
<1>15. Loading(asked)
  BY <1>6, <1>12 DEF Loading
<1>13. BoardOutcome(n, asked)
  BY <1>1, <1>2, <1>3, <1>6, <1>7, <1>8, <1>9, <1>10, <1>11, <1>12, <1>14, <1>15 DEF BoardOutcome, BoardPart
<1> QED
  BY <1>12, <1>13, <1>15

LEMMA BoardLoadsNow ==
  ASSUME Typed, NEW b, NEW op \in Listings, Loads(b, flight, op), Steady(b)
  PROVE  \E asked \in Seq(Wanted) : BoardOutcome(0, asked) /\ Loading(asked)
<1>1. Creating \ {0} = Creating /\ 0 \notin DOMAIN flight
  <2>1. DOMAIN flight = 1..Len(flight) /\ Len(flight) \in Nat
    BY DEF Typed
  <2> QED
    BY <2>1 DEF Creating
<1>2. Cardinality(Creating) \in Nat /\ board.dialog.saving \in Int
  BY CreatingFinite DEF Typed, Board
<1>5. b.dialog.saving = board.dialog.saving
  BY DEF Steady
<1> DEFINE c == Cardinality(Creating)
           x == board.dialog.saving
<1>6. c \in Nat /\ x \in Int /\ Cardinality(Creating \ {0}) = c /\ b.dialog.saving = x
  BY <1>1, <1>2, <1>5
<1>7. \A i \in Int, j \in Nat : i = i - j + j
  OBVIOUS
<1> HIDE DEF c, x
<1>3. b.dialog.saving = x - c + Cardinality(Creating \ {0})
  BY <1>6, <1>7
<1>4. ~LastOf(0, Busies)
  BY <1>1 DEF LastOf
<1> QED
  BY <1>3, <1>4, BoardLoads DEF Steady, c, x

-----------------------------------------------------------------------------
(* There are requests for which that is so.                               *)
BoardSettles(n) == \E asked \in Seq(Wanted) : BoardOutcome(n, asked)

(* The toolbar.                                                            *)
LEMMA SetFilterOutcome ==
  ASSUME Typed, SetFilter
  PROVE  BoardSettles(0)
<1>1. CASE \E a \in {None, Me} \ {board.assignee} : Local([board EXCEPT !.assignee = a])
  <2>1. PICK a \in {None, Me} \ {board.assignee} : Local([board EXCEPT !.assignee = a])
    BY <1>1
  <2>2. Calm([board EXCEPT !.assignee = a])
    BY <2>1 DEF Typed, Board, Calm, Steady, SameList, Addressed, Status
  <2> QED
    BY <2>1, <2>2, BoardLocal DEF BoardSettles
<1>2. CASE Local([board EXCEPT !.hide = ~@])
  <2> DEFINE v == ~board.hide
  <2>1. v \in BOOLEAN
    BY <1>2 DEF Typed, Board, Status
  <2> HIDE DEF v
  <2>2. Calm([board EXCEPT !.hide = v])
    BY <1>2, <2>1 DEF Typed, Board, Calm, Steady, SameList, Addressed, Status
  <2> QED
    BY <1>2, <2>2, BoardLocal DEF BoardSettles, v
<1>3. CASE \E s \in {"any", "done"} \ {board.status} : Loads([board EXCEPT !.status = s], flight, "list")
  <2>1. PICK s \in {"any", "done"} \ {board.status} : Loads([board EXCEPT !.status = s], flight, "list")
    BY <1>3
  <2>2. Steady([board EXCEPT !.status = s])
    BY <2>1 DEF Typed, Board, Steady, Addressed, Status
  <2> QED
    BY <2>1, <2>2, BoardLoadsNow DEF BoardSettles, Listings
<1>4. CASE Loads([board EXCEPT !.all = ~@], flight, "list")
  <2> DEFINE v == ~board.all
  <2>1. v \in BOOLEAN
    BY <1>4 DEF Typed, Board, Status
  <2> HIDE DEF v
  <2>2. Steady([board EXCEPT !.all = v])
    BY <1>4, <2>1 DEF Typed, Board, Steady, Addressed, Status
  <2> QED
    BY <1>4, <2>2, BoardLoadsNow DEF BoardSettles, Listings, v
<1> QED
  BY <1>1, <1>2, <1>3, <1>4 DEF SetFilter


LEMMA ToolbarOutcome ==
  ASSUME Typed, Toolbar
  PROVE  BoardSettles(0)
<1>1. CASE \E v \in {"list", "board"} \ {board.view} : Local([board EXCEPT !.view = v])
  <2>1. PICK v \in {"list", "board"} \ {board.view} : Local([board EXCEPT !.view = v])
    BY <1>1
  <2>2. Calm([board EXCEPT !.view = v])
    BY <2>1 DEF Typed, Board, Calm, Steady, SameList, Addressed, Status
  <2> QED
    BY <2>1, <2>2, BoardLocal DEF BoardSettles
<1>2. CASE Loads(board, flight, "list")
  <2>1. Steady(board)
    BY <1>2 DEF Typed, Board, Steady, Addressed, Status
  <2> QED
    BY <1>2, <2>1, BoardLoadsNow DEF BoardSettles, Listings
<1>3. CASE Local([board EXCEPT !.sprintPanel = ~@])
  <2> DEFINE v == ~board.sprintPanel
  <2>1. v \in BOOLEAN
    BY <1>3 DEF Typed, Board, Status
  <2> HIDE DEF v
  <2>2. Calm([board EXCEPT !.sprintPanel = v])
    BY <1>3, <2>1 DEF Typed, Board, Calm, Steady, SameList, Addressed, Status
  <2> QED
    BY <1>3, <2>2, BoardLocal DEF BoardSettles, v
<1>4. CASE Local([board EXCEPT !.picking = ~@, !.picked = IF board.picking THEN {} ELSE @])
  <2> DEFINE v == ~board.picking
             p == IF board.picking THEN {} ELSE board.picked
  <2>1. v \in BOOLEAN /\ p \in SUBSET Task
    BY <1>4 DEF Typed, Board, Status
  <2> HIDE DEF v, p
  <2>2. Calm([board EXCEPT !.picking = v, !.picked = p])
    BY <1>4, <2>1 DEF Typed, Board, Calm, Steady, SameList, Addressed, Status
  <2> QED
    BY <1>4, <2>2, BoardLocal DEF BoardSettles, v, p
<1> QED
  BY <1>1, <1>2, <1>3, <1>4 DEF Toolbar


LEMMA OpenCreateOutcome ==
  ASSUME Typed, OpenCreate
  PROVE  BoardSettles(0)
<1>1. CASE Local(OpenDialog(board, "open"))
  <2> DEFINE d == [board.dialog EXCEPT !.open = TRUE, !.status = "open", !.title = @ /\ board.dialog.open]
  <2>1. d \in [open : BOOLEAN, title : BOOLEAN, status : Status, saving : Int] /\ d.saving = board.dialog.saving
    BY <1>1 DEF Typed, Board, Status, OpenDialog
  <2> HIDE DEF d
  <2>2. Calm([board EXCEPT !.dialog = d])
    BY <1>1, <2>1 DEF Typed, Board, Calm, Steady, SameList, Addressed, Status, OpenDialog
  <2>9. OpenDialog(board, "open") = [board EXCEPT !.dialog = d]
    BY DEF OpenDialog, d
  <2> QED
    BY <1>1, <2>2, <2>9, BoardLocal DEF BoardSettles
<1>2. CASE \E s \in Status : Local(OpenDialog(board, s))
  <2>1. PICK s \in Status : Local(OpenDialog(board, s))
    BY <1>2
  <2> DEFINE d == [board.dialog EXCEPT !.open = TRUE, !.status = s, !.title = @ /\ board.dialog.open]
  <2>2. d \in [open : BOOLEAN, title : BOOLEAN, status : Status, saving : Int] /\ d.saving = board.dialog.saving
    BY <2>1 DEF Typed, Board, Status, OpenDialog
  <2> HIDE DEF d
  <2>3. Calm([board EXCEPT !.dialog = d])
    BY <2>1, <2>2 DEF Typed, Board, Calm, Steady, SameList, Addressed, Status, OpenDialog
  <2>9. OpenDialog(board, s) = [board EXCEPT !.dialog = d]
    BY DEF OpenDialog, d
  <2> QED
    BY <2>1, <2>3, <2>9, BoardLocal DEF BoardSettles
<1> QED
  BY <1>1, <1>2 DEF OpenCreate, Columns, Status

(* The bar for the tasks picked, the cards and the dialog.                 *)
LEMMA BatchCancelOutcome ==
  ASSUME Typed, BatchCancel
  PROVE  BoardSettles(0)
<1>1. CASE Local([board EXCEPT !.picked = {}, !.picking = FALSE])
  <2> DEFINE p == {}
             v == FALSE
  <2>1. p \in SUBSET Task /\ v \in BOOLEAN
    BY <1>1 DEF Typed, Board, Status
  <2> HIDE DEF p, v
  <2>2. Calm([board EXCEPT !.picked = p, !.picking = v])
    BY <1>1, <2>1 DEF Typed, Board, Calm, Steady, SameList, Addressed, Status
  <2> QED
    BY <1>1, <2>2, BoardLocal DEF BoardSettles, p, v
<1> QED
  BY <1>1 DEF BatchCancel


LEMMA DropOutcome ==
  ASSUME Typed, Drop
  PROVE  BoardSettles(0)
<1>1. CASE Local([board EXCEPT !.drag = None])
  <2>1. Calm([board EXCEPT !.drag = None])
    BY <1>1 DEF Typed, Board, Calm, Steady, SameList, Addressed, Status
  <2> QED
    BY <1>1, <2>1, BoardLocal DEF BoardSettles
<1>2. CASE \E s \in Status :
             /\ board.drag # None
             /\ Sends([board EXCEPT !.drag = None], <<Request("move", board.drag, "status", s)>>)
  <2>1. PICK s \in Status :
          /\ board.drag # None
          /\ Sends([board EXCEPT !.drag = None], <<Request("move", board.drag, "status", s)>>)
    BY <1>2
  <2> DEFINE op == "move"
             on == board.drag
             field == "status"
             value == s
  <2>2. op \in Op /\ on \in Target /\ field \in Field /\ value \in Value
    BY <2>1 DEF Typed, Board, Op, Reads, Listings, Updates, Target, Field, Value, Status
  <2>3. op \in Updates => <<field, value>> \in Change
    BY <2>1 DEF Updates, Change, Typed, Board, Status
  <2>4. op = "create" => value \in Status
    BY <2>1 DEF Typed, Board
  <2> HIDE DEF op, on, field, value
  <2> DEFINE r == Request(op, on, field, value)
             b == [board EXCEPT !.drag = None]
  <2>5. r \in Wanted /\ r.op = op
    BY <2>2, <2>3, <2>4, RequestWanted
  <2>6. /\ b \in Board /\ SameList(b, board) /\ (b.loading => board.loading) /\ (b.busy => board.busy)
         /\ (Addressed(board) => Addressed(b))
         /\ b.dialog.saving = board.dialog.saving
    BY DEF Typed, Board, Calm, Steady, SameList, Addressed
  <2>7. Sends(b, <<r>>)
    BY <2>1 DEF op, on, field, value
  <2> HIDE DEF r, b
  <2>8. <<r>> \in Seq(Wanted) /\ DOMAIN <<r>> = {1} /\ Len(<<r>>) = 1 /\ <<r>>[1] = r
    BY <2>5, OneAsked
  <2>9. OfBoard(r) /\ r.op \notin Listings /\ r.op # "create"
    BY <2>5 DEF OfBoard, Op, Reads, Listings, Updates, op
  <2>10. BoardOutcome(0, <<r>>)
    BY <2>5, <2>6, <2>7, <2>8, <2>9, BoardSends DEF op
  <2> QED
    BY <2>8, <2>10 DEF BoardSettles
<1>3. CASE board.drag # None /\ Sends([board EXCEPT !.drag = None], <<Request("join", board.drag, "", None)>>)
  <2> DEFINE op == "join"
             on == board.drag
             field == ""
             value == None
  <2>1. op \in Op /\ on \in Target /\ field \in Field /\ value \in Value
    BY <1>3 DEF Typed, Board, Op, Reads, Listings, Updates, Target, Field, Value
  <2>2. op \in Updates => <<field, value>> \in Change
    BY <1>3 DEF Updates, Change, Typed, Board
  <2>3. op = "create" => value \in Status
    BY <1>3 DEF Typed, Board
  <2> HIDE DEF op, on, field, value
  <2> DEFINE r == Request(op, on, field, value)
             b == [board EXCEPT !.drag = None]
  <2>4. r \in Wanted /\ r.op = op
    BY <2>1, <2>2, <2>3, RequestWanted
  <2>5. /\ b \in Board /\ SameList(b, board) /\ (b.loading => board.loading) /\ (b.busy => board.busy)
         /\ (Addressed(board) => Addressed(b))
         /\ b.dialog.saving = board.dialog.saving
    BY DEF Typed, Board, Calm, Steady, SameList, Addressed
  <2>6. Sends(b, <<r>>)
    BY <1>3 DEF op, on, field, value
  <2> HIDE DEF r, b
  <2>7. <<r>> \in Seq(Wanted) /\ DOMAIN <<r>> = {1} /\ Len(<<r>>) = 1 /\ <<r>>[1] = r
    BY <2>4, OneAsked
  <2>8. OfBoard(r) /\ r.op \notin Listings /\ r.op # "create"
    BY <2>4 DEF OfBoard, Op, Reads, Listings, Updates, op
  <2>9. BoardOutcome(0, <<r>>)
    BY <2>4, <2>5, <2>6, <2>7, <2>8, BoardSends DEF op
  <2> QED
    BY <2>7, <2>9 DEF BoardSettles
<1> QED
  BY <1>1, <1>2, <1>3 DEF Drop, Columns, Status


LEMMA CreateDialogOutcome ==
  ASSUME Typed, CreateDialog
  PROVE  BoardSettles(0)
<1>1. CASE Local([board EXCEPT !.dialog.title = TRUE])
  <2> DEFINE d == [board.dialog EXCEPT !.title = TRUE]
  <2>1. d \in [open : BOOLEAN, title : BOOLEAN, status : Status, saving : Int] /\ d.saving = board.dialog.saving
    BY <1>1 DEF Typed, Board, Status
  <2> HIDE DEF d
  <2>2. Calm([board EXCEPT !.dialog = d])
    BY <1>1, <2>1 DEF Typed, Board, Calm, Steady, SameList, Addressed, Status
  <2> QED
    BY <1>1, <2>2, BoardLocal DEF BoardSettles, d
<1>2. CASE Sends(Submitted(board), <<Request("create", None, "", board.dialog.status)>>)
  <2> DEFINE op == "create"
             on == None
             field == ""
             value == board.dialog.status
  <2>1. op \in Op /\ on \in Target /\ field \in Field /\ value \in Value
    BY <1>2 DEF Typed, Board, Op, Reads, Listings, Updates, Target, Field, Value, Status
  <2>2. op \in Updates => <<field, value>> \in Change
    BY <1>2 DEF Updates, Change, Typed, Board, Status
  <2>3. op = "create" => value \in Status
    BY <1>2 DEF Typed, Board
  <2> HIDE DEF op, on, field, value
  <2> DEFINE r == Request(op, on, field, value)
             b == Submitted(board)
  <2>4. r \in Wanted /\ r.op = op
    BY <2>1, <2>2, <2>3, RequestWanted
  <2> DEFINE d == [board.dialog EXCEPT !.saving = @ + 1]
  <2>20. /\ d \in [open : BOOLEAN, title : BOOLEAN, status : Status, saving : Int]
         /\ d.saving = board.dialog.saving + 1 /\ b = [board EXCEPT !.dialog = d]
    BY DEF Typed, Board, Submitted
  <2> HIDE DEF d
  <2>21. b = [board EXCEPT !.dialog = d]
    BY DEF Submitted, d
  <2>5. /\ b \in Board /\ SameList(b, board) /\ (b.loading => board.loading) /\ (b.busy => board.busy)
         /\ (Addressed(board) => Addressed(b))
         /\ b.dialog.saving = board.dialog.saving + 1
    BY <2>20, <2>21 DEF Typed, Board, Calm, Steady, SameList, Addressed
  <2>6. Sends(b, <<r>>)
    BY <1>2 DEF op, on, field, value
  <2> HIDE DEF r, b
  <2>7. <<r>> \in Seq(Wanted) /\ DOMAIN <<r>> = {1} /\ Len(<<r>>) = 1 /\ <<r>>[1] = r
    BY <2>4, OneAsked
  <2>8. OfBoard(r) /\ r.op \notin Listings
    BY <2>4 DEF OfBoard, Op, Reads, Listings, Updates, op
  <2>9. BoardOutcome(0, <<r>>)
    BY <2>4, <2>5, <2>6, <2>7, <2>8, BoardSends DEF op
  <2> QED
    BY <2>7, <2>9 DEF BoardSettles
<1>3. CASE Local([board EXCEPT !.dialog.open = FALSE])
  <2> DEFINE d == [board.dialog EXCEPT !.open = FALSE]
  <2>1. d \in [open : BOOLEAN, title : BOOLEAN, status : Status, saving : Int] /\ d.saving = board.dialog.saving
    BY <1>3 DEF Typed, Board, Status
  <2> HIDE DEF d
  <2>2. Calm([board EXCEPT !.dialog = d])
    BY <1>3, <2>1 DEF Typed, Board, Calm, Steady, SameList, Addressed, Status
  <2> QED
    BY <1>3, <2>2, BoardLocal DEF BoardSettles, d
<1> QED
  BY <1>1, <1>2, <1>3 DEF CreateDialog


LEMMA SprintPanelOutcome ==
  ASSUME Typed, SprintPanel
  PROVE  BoardSettles(0)
<1>1. CASE Local([board EXCEPT !.sprint = ~@])
  <2> DEFINE v == ~board.sprint
  <2>1. v \in BOOLEAN
    BY <1>1 DEF Typed, Board, Status
  <2> HIDE DEF v
  <2>2. Calm([board EXCEPT !.sprint = v])
    BY <1>1, <2>1 DEF Typed, Board, Calm, Steady, SameList, Addressed, Status
  <2> QED
    BY <1>1, <2>2, BoardLocal DEF BoardSettles, v
<1>2. CASE Sends([board EXCEPT !.naming = TRUE], <<Request("sprint", None, "", None)>>)
  <2> DEFINE op == "sprint"
             on == None
             field == ""
             value == None
  <2>1. op \in Op /\ on \in Target /\ field \in Field /\ value \in Value
    BY <1>2 DEF Typed, Board, Op, Reads, Listings, Updates, Target, Field, Value
  <2>2. op \in Updates => <<field, value>> \in Change
    BY <1>2 DEF Updates, Change, Typed, Board
  <2>3. op = "create" => value \in Status
    BY <1>2 DEF Typed, Board
  <2> HIDE DEF op, on, field, value
  <2> DEFINE r == Request(op, on, field, value)
             b == [board EXCEPT !.naming = TRUE]
  <2>4. r \in Wanted /\ r.op = op
    BY <2>1, <2>2, <2>3, RequestWanted
  <2>5. /\ b \in Board /\ SameList(b, board) /\ (b.loading => board.loading) /\ (b.busy => board.busy)
         /\ (Addressed(board) => Addressed(b))
         /\ b.dialog.saving = board.dialog.saving
    BY DEF Typed, Board, Calm, Steady, SameList, Addressed
  <2>6. Sends(b, <<r>>)
    BY <1>2 DEF op, on, field, value
  <2> HIDE DEF r, b
  <2>7. <<r>> \in Seq(Wanted) /\ DOMAIN <<r>> = {1} /\ Len(<<r>>) = 1 /\ <<r>>[1] = r
    BY <2>4, OneAsked
  <2>8. OfBoard(r) /\ r.op \notin Listings /\ r.op # "create"
    BY <2>4 DEF OfBoard, Op, Reads, Listings, Updates, op
  <2>9. BoardOutcome(0, <<r>>)
    BY <2>4, <2>5, <2>6, <2>7, <2>8, BoardSends DEF op
  <2> QED
    BY <2>7, <2>9 DEF BoardSettles
<1>3. CASE \E t \in Task : Sends(board, <<Request("part", t, "", None)>>)
  <2>1. PICK t \in Task : Sends(board, <<Request("part", t, "", None)>>)
    BY <1>3
  <2> DEFINE op == "part"
             on == t
             field == ""
             value == None
  <2>2. op \in Op /\ on \in Target /\ field \in Field /\ value \in Value
    BY <2>1 DEF Typed, Board, Op, Reads, Listings, Updates, Target, Field, Value
  <2>3. op \in Updates => <<field, value>> \in Change
    BY <2>1 DEF Updates, Change, Typed, Board
  <2>4. op = "create" => value \in Status
    BY <2>1 DEF Typed, Board
  <2> HIDE DEF op, on, field, value
  <2> DEFINE r == Request(op, on, field, value)
             b == board
  <2>5. r \in Wanted /\ r.op = op
    BY <2>2, <2>3, <2>4, RequestWanted
  <2>6. /\ b \in Board /\ SameList(b, board) /\ (b.loading => board.loading) /\ (b.busy => board.busy)
         /\ (Addressed(board) => Addressed(b))
         /\ b.dialog.saving = board.dialog.saving
    BY DEF Typed, Board, Calm, Steady, SameList, Addressed
  <2>7. Sends(b, <<r>>)
    BY <2>1 DEF op, on, field, value
  <2> HIDE DEF r, b
  <2>8. <<r>> \in Seq(Wanted) /\ DOMAIN <<r>> = {1} /\ Len(<<r>>) = 1 /\ <<r>>[1] = r
    BY <2>5, OneAsked
  <2>9. OfBoard(r) /\ r.op \notin Listings /\ r.op # "create"
    BY <2>5 DEF OfBoard, Op, Reads, Listings, Updates, op
  <2>10. BoardOutcome(0, <<r>>)
    BY <2>5, <2>6, <2>7, <2>8, <2>9, BoardSends DEF op
  <2> QED
    BY <2>8, <2>10 DEF BoardSettles
<1>4. CASE \E t \in Task : t \in DOMAIN board.shown /\ Local(Selected(board, t))
  <2>1. PICK t \in Task : t \in DOMAIN board.shown /\ Local(Selected(board, t))
    BY <1>4
  <2>2. Calm(Selected(board, t))
    BY <2>1 DEF Typed, Board, Calm, Steady, SameList, Addressed, Status, Selected
  <2> QED
    BY <2>1, <2>2, BoardLocal DEF BoardSettles
<1>5. DOMAIN board.shown \subseteq Task
  BY DEF Typed, Board, Listed
<1>6. SprintTasks(board) \subseteq DOMAIN board.shown
  BY DEF SprintTasks
<1> QED
  BY <1>1, <1>2, <1>3, <1>4, <1>5, <1>6 DEF SprintPanel

(* The keyboard and the browser's history.                                 *)
LEMMA EscapeOutcome ==
  ASSUME Typed, Escape
  PROVE  BoardSettles(0)
<1>1. CASE Local([board EXCEPT !.picked = {}, !.picking = FALSE])
  <2> DEFINE p == {}
             v == FALSE
  <2>1. p \in SUBSET Task /\ v \in BOOLEAN
    BY <1>1 DEF Typed, Board, Status
  <2> HIDE DEF p, v
  <2>2. Calm([board EXCEPT !.picked = p, !.picking = v])
    BY <1>1, <2>1 DEF Typed, Board, Calm, Steady, SameList, Addressed, Status
  <2> QED
    BY <1>1, <2>2, BoardLocal DEF BoardSettles, p, v
<1>2. CASE Loads(Deselected(board), flight, "list")
  <2>1. Steady(Deselected(board))
    BY <1>2 DEF Typed, Board, Steady, Addressed, Status, Deselected
  <2> QED
    BY <1>2, <2>1, BoardLoadsNow DEF BoardSettles, Listings
<1> QED
  BY <1>1, <1>2 DEF Escape

-----------------------------------------------------------------------------
(* The cards.                                                             *)
LEMMA CardsShown ==
  ASSUME Typed
  PROVE  Cards \subseteq DOMAIN board.shown /\ DOMAIN board.shown \subseteq Task
<1>1. DOMAIN board.shown \subseteq Task
  BY DEF Typed, Board, Listed
<1>2. Filtered(board) \subseteq DOMAIN board.shown
  BY DEF Filtered
<1> QED
  BY <1>1, <1>2 DEF Cards, ListCards, KanbanCards


LEMMA CardClickOutcome ==
  ASSUME Typed, NEW t, CardClick(t)
  PROVE  BoardSettles(0)
<1>1. CASE t \in Task /\ Local([board EXCEPT !.picked = IF t \in @ THEN @ \ {t} ELSE @ \cup {t}])
  <2> DEFINE p == IF t \in board.picked THEN board.picked \ {t} ELSE board.picked \cup {t}
  <2>1. p \in SUBSET Task
    BY <1>1 DEF Typed, Board, Status
  <2> HIDE DEF p
  <2>2. Calm([board EXCEPT !.picked = p])
    BY <1>1, <2>1 DEF Typed, Board, Calm, Steady, SameList, Addressed, Status
  <2> QED
    BY <1>1, <2>2, BoardLocal DEF BoardSettles, p
<1>2. CASE t \in DOMAIN board.shown /\ t \in Task /\ Local(Selected(board, t))
  <2>1. Calm(Selected(board, t))
    BY <1>2 DEF Typed, Board, Calm, Steady, SameList, Addressed, Status, Selected
  <2> QED
    BY <1>2, <2>1, BoardLocal DEF BoardSettles
<1>3. t \in Cards => t \in DOMAIN board.shown /\ t \in Task
  BY CardsShown
<1> QED
  BY <1>1, <1>2, <1>3 DEF CardClick, Local


LEMMA CardMenuOutcome ==
  ASSUME Typed, NEW t, CardMenu(t)
  PROVE  BoardSettles(0)
<1>1. CASE \E s \in Status : t \in Task /\ Sends(board, <<Request("move", t, "status", s)>>)
  <2>1. PICK s \in Status : t \in Task /\ Sends(board, <<Request("move", t, "status", s)>>)
    BY <1>1
  <2> DEFINE op == "move"
             on == t
             field == "status"
             value == s
  <2>2. op \in Op /\ on \in Target /\ field \in Field /\ value \in Value
    BY <2>1 DEF Typed, Board, Op, Reads, Listings, Updates, Target, Field, Value, Status
  <2>3. op \in Updates => <<field, value>> \in Change
    BY <2>1 DEF Updates, Change, Typed, Board, Status
  <2>4. op = "create" => value \in Status
    BY <2>1 DEF Typed, Board
  <2> HIDE DEF op, on, field, value
  <2> DEFINE r == Request(op, on, field, value)
             b == board
  <2>5. r \in Wanted /\ r.op = op
    BY <2>2, <2>3, <2>4, RequestWanted
  <2>6. /\ b \in Board /\ SameList(b, board) /\ (b.loading => board.loading) /\ (b.busy => board.busy)
         /\ (Addressed(board) => Addressed(b))
         /\ b.dialog.saving = board.dialog.saving
    BY DEF Typed, Board, Calm, Steady, SameList, Addressed
  <2>7. Sends(b, <<r>>)
    BY <2>1 DEF op, on, field, value
  <2> HIDE DEF r, b
  <2>8. <<r>> \in Seq(Wanted) /\ DOMAIN <<r>> = {1} /\ Len(<<r>>) = 1 /\ <<r>>[1] = r
    BY <2>5, OneAsked
  <2>9. OfBoard(r) /\ r.op \notin Listings /\ r.op # "create"
    BY <2>5 DEF OfBoard, Op, Reads, Listings, Updates, op
  <2>10. BoardOutcome(0, <<r>>)
    BY <2>5, <2>6, <2>7, <2>8, <2>9, BoardSends DEF op
  <2> QED
    BY <2>8, <2>10 DEF BoardSettles
<1>2. CASE t \in Task /\ Sends(board, <<Request("erase", t, "", None)>>)
  <2> DEFINE op == "erase"
             on == t
             field == ""
             value == None
  <2>1. op \in Op /\ on \in Target /\ field \in Field /\ value \in Value
    BY <1>2 DEF Typed, Board, Op, Reads, Listings, Updates, Target, Field, Value
  <2>2. op \in Updates => <<field, value>> \in Change
    BY <1>2 DEF Updates, Change, Typed, Board
  <2>3. op = "create" => value \in Status
    BY <1>2 DEF Typed, Board
  <2> HIDE DEF op, on, field, value
  <2> DEFINE r == Request(op, on, field, value)
             b == board
  <2>4. r \in Wanted /\ r.op = op
    BY <2>1, <2>2, <2>3, RequestWanted
  <2>5. /\ b \in Board /\ SameList(b, board) /\ (b.loading => board.loading) /\ (b.busy => board.busy)
         /\ (Addressed(board) => Addressed(b))
         /\ b.dialog.saving = board.dialog.saving
    BY DEF Typed, Board, Calm, Steady, SameList, Addressed
  <2>6. Sends(b, <<r>>)
    BY <1>2 DEF op, on, field, value
  <2> HIDE DEF r, b
  <2>7. <<r>> \in Seq(Wanted) /\ DOMAIN <<r>> = {1} /\ Len(<<r>>) = 1 /\ <<r>>[1] = r
    BY <2>4, OneAsked
  <2>8. OfBoard(r) /\ r.op \notin Listings /\ r.op # "create"
    BY <2>4 DEF OfBoard, Op, Reads, Listings, Updates, op
  <2>9. BoardOutcome(0, <<r>>)
    BY <2>4, <2>5, <2>6, <2>7, <2>8, BoardSends DEF op
  <2> QED
    BY <2>7, <2>9 DEF BoardSettles
<1>3. t \in Cards => t \in Task
  BY CardsShown
<1> QED
  BY <1>1, <1>2, <1>3 DEF CardMenu, Status


LEMMA DragOutcome ==
  ASSUME Typed, NEW t \in Task, Drag(t)
  PROVE  BoardSettles(0)
<1>1. CASE Local([board EXCEPT !.drag = t])
  <2>1. Calm([board EXCEPT !.drag = t])
    BY <1>1 DEF Typed, Board, Calm, Steady, SameList, Addressed, Status
  <2> QED
    BY <1>1, <2>1, BoardLocal DEF BoardSettles
<1> QED
  BY <1>1 DEF Drag


LEMMA PopStateOutcome ==
  ASSUME Typed, PopState
  PROVE  BoardSettles(0)
<1>1. CASE \E u \in Task : u \in DOMAIN board.shown /\ Local([[board EXCEPT !.url = u] EXCEPT !.open = u])
  <2>1. PICK u \in Task : u \in DOMAIN board.shown /\ Local([[board EXCEPT !.url = u] EXCEPT !.open = u])
    BY <1>1
  <2>2. Calm([[board EXCEPT !.url = u] EXCEPT !.open = u])
    BY <2>1 DEF Typed, Board, Calm, Steady, SameList, Addressed, Status
  <2> QED
    BY <2>1, <2>2, BoardLocal DEF BoardSettles
<1>2. CASE \E u \in Task : Local([board EXCEPT !.url = u])
  <2>1. PICK u \in Task : Local([board EXCEPT !.url = u])
    BY <1>2
  <2>2. Calm([board EXCEPT !.url = u])
    BY <2>1 DEF Typed, Board, Calm, Steady, SameList, Addressed, Status
  <2> QED
    BY <2>1, <2>2, BoardLocal DEF BoardSettles
<1>3. CASE board.open = None /\ Local([board EXCEPT !.url = None])
  <2> DEFINE v == None
             b == [board EXCEPT !.url = v]
  <2>2. v \in Task \cup {None}
    OBVIOUS
  <2> HIDE DEF v
  <2>3. b \in Board /\ b.open = board.open /\ b.busy = board.busy /\ b.loading = board.loading
    BY <2>2 DEF Typed, Board
  <2>4. b.dialog.saving = board.dialog.saving /\ SameList(b, board)
    BY DEF Typed, Board, SameList
  <2>5. Calm(b)
    BY <1>3, <2>3, <2>4 DEF Calm, Steady, Addressed
  <2>1. Calm([board EXCEPT !.url = None])
    BY <2>5 DEF v
  <2> QED
    BY <1>3, <2>1, BoardLocal DEF BoardSettles
<1>4. CASE Loads([[board EXCEPT !.url = None] EXCEPT !.open = None], flight, "list")
  <2>1. Steady([[board EXCEPT !.url = None] EXCEPT !.open = None])
    BY <1>4 DEF Typed, Board, Steady, Addressed, Status
  <2> QED
    BY <1>4, <2>1, BoardLoadsNow DEF BoardSettles, Listings
<1>5. PICK u \in DOMAIN rows \cup {None} :
        LET b == [board EXCEPT !.url = u] IN
        IF u # None
        THEN Local(IF u \in DOMAIN board.shown THEN [b EXCEPT !.open = u] ELSE b)
        ELSE IF AtBoard THEN Local(b) ELSE Loads([b EXCEPT !.open = None], flight, "list")
  BY DEF PopState
<1>6. DOMAIN rows \subseteq Task
  BY DEF Typed, RowsTyped, Listed
<1>7. CASE u = None
  BY <1>3, <1>4, <1>5, <1>7 DEF AtBoard
<1>8. CASE u # None
  BY <1>1, <1>2, <1>5, <1>6, <1>8
<1> QED
  BY <1>7, <1>8

-----------------------------------------------------------------------------
(* The bar for the tasks picked, and the board's clicks together.         *)
LEMMA PickedInOrder ==
  ASSUME NEW S \in SUBSET Task
  PROVE  /\ Cardinality(S) \in Nat /\ (S # {} => Cardinality(S) > 0)
         /\ (CHOOSE f \in [1..Cardinality(S) -> S] : Range(f) = S) \in [1..Cardinality(S) -> S]
<1>1. IsFiniteSet(S)
  BY FS_Subset
<1>2. Cardinality(S) \in Nat /\ ExistsBijection(1..Cardinality(S), S)
  BY <1>1, FS_CardinalityType
<1>3. PICK f \in Bijection(1..Cardinality(S), S) : TRUE
  BY <1>2 DEF ExistsBijection
<1>4. f \in [1..Cardinality(S) -> S] /\ \A t \in S : \E i \in 1..Cardinality(S) : f[i] = t
  BY <1>3 DEF Bijection, Injection, Surjection
<1>5. Range(f) = S
  <2>1. DOMAIN f = 1..Cardinality(S) /\ \A i \in DOMAIN f : f[i] \in S
    BY <1>4
  <2> QED
    BY <1>4, <2>1 DEF Range
<1>6. S # {} => Cardinality(S) > 0
  <2>1. Cardinality(S) = 0 => S = {}
    BY <1>1, FS_EmptySet
  <2> QED
    BY <1>2, <2>1
<1> QED
  BY <1>2, <1>4, <1>5, <1>6

(* One request for each task picked.                                       *)
LEMMA BatchSends ==
  ASSUME Typed, NEW op \in {"batch", "batchdel"}, NEW value,
         op = "batch" => value \in Status, op = "batchdel" => value = None,
         NEW N \in Nat, N > 0, NEW all \in [1..N -> Task],
         Sends([board EXCEPT !.busy = TRUE], [i \in DOMAIN all |-> Request(op, all[i], "status", value)])
  PROVE  BoardSettles(0)
<1> DEFINE field == "status"
           asked == [i \in DOMAIN all |-> Request(op, all[i], field, value)]
           v == TRUE
           b == [board EXCEPT !.busy = v]
<1>1. op \in Op /\ field \in Field /\ value \in Value /\ v \in BOOLEAN
  BY DEF Op, Updates, Field, Value, Status
<1>2. op \in Updates => <<field, value>> \in Change
  BY DEF Updates, Change
<1>3. op = "create" => value \in Status
  OBVIOUS
<1>4. Sends(b, asked)
  OBVIOUS
<1>5. DOMAIN all = 1..N /\ \A i \in 1..N : all[i] \in Target
  BY DEF Target
<1> HIDE DEF field, v
<1>6. \A i \in 1..N : Request(op, all[i], field, value) \in Wanted /\ Request(op, all[i], field, value).op = op
  <2> TAKE i \in 1..N
  <2> DEFINE on == all[i]
  <2>1. on \in Target
    BY <1>5
  <2> HIDE DEF on
  <2>2. Request(op, on, field, value) \in Wanted /\ Request(op, on, field, value).op = op
    BY <1>1, <1>2, <1>3, <2>1, RequestWanted
  <2> QED
    BY <2>2 DEF on
<1>7. asked \in Seq(Wanted) /\ DOMAIN asked = 1..N /\ Len(asked) = N /\ \A i \in 1..N : asked[i].op = op
  <2>1. asked = [i \in 1..N |-> Request(op, all[i], field, value)]
    BY <1>5
  <2>2. asked \in [1..N -> Wanted] /\ \A i \in 1..N : asked[i].op = op
    BY <1>6, <2>1
  <2> HIDE DEF asked
  <2> QED
    BY <2>2
<1>11. asked[1].heard
  <2>1. 1 \in 1..N
    OBVIOUS
  <2> HIDE DEF asked
  <2>2. asked[1] \in Wanted
    BY <1>7, <2>1, ElementOfSeq
  <2> QED
    BY <2>2 DEF Wanted
<1>8. /\ b \in Board /\ SameList(b, board) /\ (b.loading => board.loading)
      /\ (Addressed(board) => Addressed(b)) /\ b.dialog.saving = board.dialog.saving
  BY <1>1 DEF Typed, Board, SameList, Addressed
<1> HIDE DEF asked, b
<1>9. \A k \in DOMAIN asked : OfBoard(asked[k]) /\ asked[k].op \notin Listings /\ asked[k].op # "create"
  BY <1>1, <1>7 DEF OfBoard, Listings
<1>12. 1 \in DOMAIN asked /\ Busies(asked[1])
  BY <1>7, <1>11 DEF Busies
<1>10. BoardOutcome(0, asked)
  BY <1>4, <1>7, <1>8, <1>9, <1>12, BoardSends
<1> QED
  BY <1>7, <1>10 DEF BoardSettles

LEMMA BatchOutcome ==
  ASSUME Typed, Batch
  PROVE  BoardSettles(0)
<1> DEFINE all == CHOOSE f \in [1..Cardinality(board.picked) -> board.picked] :
                    Range(f) = board.picked
           N == Cardinality(board.picked)
<1>1. board.picked \in SUBSET Task /\ board.picked # {}
  BY DEF Typed, Board, Batch
<1>2. N \in Nat /\ N > 0 /\ all \in [1..N -> board.picked]
  BY <1>1, PickedInOrder
<1>3. all \in [1..N -> Task]
  BY <1>1, <1>2
<1>4. \/ \E s \in Status :
           Sends([board EXCEPT !.busy = TRUE], [i \in DOMAIN all |-> Request("batch", all[i], "status", s)])
      \/ Sends([board EXCEPT !.busy = TRUE], [i \in DOMAIN all |-> Request("batchdel", all[i], "status", None)])
  BY DEF Batch, Status
<1> HIDE DEF all, N
<1>5. CASE \E s \in Status :
           Sends([board EXCEPT !.busy = TRUE], [i \in DOMAIN all |-> Request("batch", all[i], "status", s)])
  BY <1>2, <1>3, <1>5, BatchSends
<1>6. CASE Sends([board EXCEPT !.busy = TRUE], [i \in DOMAIN all |-> Request("batchdel", all[i], "status", None)])
  BY <1>2, <1>3, <1>6, BatchSends
<1> QED
  BY <1>4, <1>5, <1>6

(* What the user does with the board.                                      *)
LEMMA ClickOutcome ==
  ASSUME Typed, BoardClick
  PROVE  BoardSettles(0)
<1>1. CASE \E t \in Task : CardClick(t) \/ CardMenu(t) \/ Drag(t)
  BY <1>1, CardClickOutcome, CardMenuOutcome, DragOutcome
<1>2. CASE SetFilter \/ Toolbar \/ OpenCreate \/ Drop \/ Batch \/ BatchCancel \/ CreateDialog
             \/ SprintPanel \/ Escape \/ PopState
  BY <1>2, SetFilterOutcome, ToolbarOutcome, OpenCreateOutcome, DropOutcome, BatchOutcome,
     BatchCancelOutcome, CreateDialogOutcome, SprintPanelOutcome, EscapeOutcome, PopStateOutcome
<1> QED
  BY <1>1, <1>2 DEF BoardClick

LEMMA BackOutcome ==
  ASSUME Typed, Back
  PROVE  BoardSettles(0)
<1>1. Steady(Deselected(board))
  BY DEF Typed, Board, Steady, Addressed, Deselected
<1> QED
  BY <1>1, BoardLoadsNow DEF Back, BoardSettles, Listings

LEMMA CreateChildOutcome ==
  ASSUME Typed, CreateChild
  PROVE  BoardSettles(0)
<1> DEFINE c == Deselected(board)
           d == [c.dialog EXCEPT !.open = TRUE, !.status = "open", !.title = @ /\ board.dialog.open]
<1>1. Steady(c)
  BY DEF Typed, Board, Steady, Addressed, Deselected
<1>2. OpenDialog(c, "open") = [c EXCEPT !.dialog = d]
  BY DEF OpenDialog
<1>3. /\ d \in [open : BOOLEAN, title : BOOLEAN, status : Status, saving : Int]
      /\ d.saving = c.dialog.saving
  BY <1>1 DEF Typed, Steady, Board, Status
<1> HIDE DEF c, d
<1>4. Steady([c EXCEPT !.dialog = d])
  BY <1>1, <1>3 DEF Steady, Board, Addressed
<1> QED
  BY <1>2, <1>4, BoardLoadsNow DEF CreateChild, BoardSettles, Listings, c

-----------------------------------------------------------------------------
(* Answers to the board.                                                  *)
LEMMA NoneAsked ==
  /\ <<>> \in Seq(Wanted) /\ DOMAIN <<>> = {} /\ ~Loading(<<>>)
<1>1. <<>> \in Seq(Wanted) /\ DOMAIN <<>> = {}
  OBVIOUS
<1> QED
  BY <1>1 DEF Loading

(* The dialog's count goes with the requests under way.                    *)
LEMMA Counts ==
  ASSUME Typed, NEW n \in DOMAIN flight
  PROVE  /\ flight[n].op # "create" =>
              board.dialog.saving = board.dialog.saving - Cardinality(Creating)
                                      + Cardinality(Creating \ {n})
         /\ flight[n].op = "create" =>
              board.dialog.saving - 1 = board.dialog.saving - Cardinality(Creating)
                                          + Cardinality(Creating \ {n})
<1> DEFINE x == board.dialog.saving
           c == Cardinality(Creating)
           d == Cardinality(Creating \ {n})
<1>1. IsFiniteSet(Creating) /\ c \in Nat /\ x \in Int
  BY CreatingFinite DEF Typed, Board
<1>2. flight[n].op # "create" => Creating \ {n} = Creating
  BY DEF Creating
<1>3. flight[n].op = "create" => n \in Creating
  BY DEF Creating
<1>4. d = IF n \in Creating THEN c - 1 ELSE c
  BY <1>1, FS_RemoveElement
<1>5. \A i \in Int, j \in Nat : i = i - j + j /\ i - 1 = i - j + (j - 1)
  OBVIOUS
<1> HIDE DEF x, c, d
<1>6. CASE flight[n].op # "create"
  <2>1. d = c
    BY <1>2, <1>6 DEF c, d
  <2>2. x = x - c + d
    BY <1>1, <1>5, <2>1
  <2> QED
    BY <1>6, <2>2 DEF x, c, d
<1>7. CASE flight[n].op = "create"
  <2>1. x - 1 = x - c + d
    BY <1>1, <1>3, <1>4, <1>5, <1>7
  <2> QED
    BY <1>7, <2>1 DEF x, c, d
<1> QED
  BY <1>6, <1>7

(* An answer after which nothing is asked.                                 *)
LEMMA BoardHears ==
  ASSUME Typed, NEW n \in DOMAIN flight, NEW b \in Board,
         board' = b, Exchange(Without(n), <<>>),
         flight[n].op \notin Loaded, ~LastOf(n, TellsBoard),
         SameList(b, board), b.loading => board.loading,
         b.busy => board.busy /\ ~LastOf(n, Busies),
         Addressed(board) => Addressed(b),
         b.dialog.saving = board.dialog.saving - Cardinality(Creating)
                             + Cardinality(Creating \ {n})
  PROVE  BoardSettles(n)
<1>1. Turn(n, <<>>)
  BY NoneAsked, AnswerTurn DEF Typed
<1>2. Saving => Saving'
  <2>1. Cardinality(Creating') = Cardinality(Creating \ {n})
    BY <1>1, NoneAsked DEF Turn
  <2>2. Cardinality(Creating) \in Nat /\ Cardinality(Creating \ {n}) \in Nat
    BY CreatingFinite, FS_RemoveElement, FS_CardinalityType DEF Typed
  <2> QED
    BY <2>1, <2>2 DEF Saving
<1>3. BoardOutcome(n, <<>>)
  BY <1>1, <1>2, NoneAsked DEF BoardOutcome, BoardPart
<1> QED
  BY <1>3, NoneAsked DEF BoardSettles

(* A load after an answer.                                                 *)
LEMMA BoardLoadsThen ==
  ASSUME Typed, NEW n \in DOMAIN flight, NEW b \in Board, NEW op \in Listings,
         Loads(b, Without(n), op), flight[n].op \notin Loaded,
         b.busy => op = "last" \/ (board.busy /\ ~LastOf(n, Busies)),
         Addressed(board) => Addressed(b),
         b.dialog.saving = board.dialog.saving - Cardinality(Creating)
                             + Cardinality(Creating \ {n})
  PROVE  BoardSettles(n)
BY BoardLoads DEF BoardSettles

LEMMA BoardLoadsTwice ==
  ASSUME Typed, NEW n \in DOMAIN flight, NEW b, LoadsTwice(b, Without(n)), Steady(b),
         flight[n].op \notin Loaded \cup {"create"}, ~LastOf(n, Busies)
  PROVE  BoardSettles(n)
<1> DEFINE r == ListRequest(b, "list")
           c == [b EXCEPT !.loading = TRUE, !.error = FALSE, !.fresh = FALSE]
<1>0. b \in Board
  BY DEF Steady
<1>1. r \in Wanted /\ Suits(r, b) /\ r.op = "list"
  BY <1>0, ListRequestWanted DEF ListRequest, Request, Listings
<1>2. /\ c \in Board /\ c.all = b.all /\ c.status = b.status /\ ~c.fresh
      /\ c.busy = b.busy /\ c.open = b.open /\ c.url = b.url /\ c.dialog = b.dialog
  BY <1>0 DEF Board
<1>3. board' = c /\ Exchange(Without(n), <<r, r>>)
  BY DEF LoadsTwice
<1> HIDE DEF r, c
<1> DEFINE asked == <<r, r>>
<1>4. asked \in Seq(Wanted) /\ DOMAIN asked = {1, 2} /\ asked[1] = r /\ asked[2] = r
  BY <1>1, TwoAsked
<1>5. Turn(n, asked)
  BY <1>3, <1>4, AnswerTurn DEF Typed
<1> HIDE DEF asked
<1>6. r.op \in Listings /\ r.op # "create" /\ OfBoard(r)
  BY <1>1 DEF Listings, OfBoard, Op, Reads
<1>7. Saving => Saving'
  <2>1. Cardinality(Creating') = Cardinality(Creating \ {n})
    BY <1>4, <1>5, <1>6 DEF Turn
  <2>2. Creating \ {n} = Creating
    BY DEF Creating
  <2>3. b.dialog.saving = board.dialog.saving
    BY DEF Steady
  <2> QED
    BY <1>2, <1>3, <2>1, <2>2, <2>3 DEF Saving
<1>8. Suits(r, c) /\ Loading(asked)
  BY <1>1, <1>2, <1>4, <1>6 DEF Suits, Loading
<1>9. Addressed(board) => Addressed(board')
  BY <1>2, <1>3 DEF Addressed, Steady
<1>10. board'.busy => board.busy
  BY <1>2, <1>3 DEF Steady
<1>11. \A k \in DOMAIN asked : asked[k] = r
  BY <1>4
<1>13. BoardOutcome(n, asked)
  BY <1>1, <1>2, <1>3, <1>5, <1>6, <1>7, <1>8, <1>9, <1>10, <1>11 DEF BoardOutcome, BoardPart
<1> QED
  BY <1>4, <1>13 DEF BoardSettles

LEMMA ChangeAnswerOutcome ==
  ASSUME Typed, NEW n \in DOMAIN flight, ChangeAnswer(n)
  PROVE  BoardSettles(n)
<1> DEFINE r == flight[n]
<1>1. r.op \in {"move", "erase", "join", "part", "sprint"}
  BY DEF ChangeAnswer
<1>2. r.op \notin Loaded \cup {"create"} /\ ~Busies(r) /\ ~LastOf(n, Busies)
  BY <1>1 DEF Loaded, Listings, Busies, LastOf
<1>3. board.dialog.saving = board.dialog.saving - Cardinality(Creating) + Cardinality(Creating \ {n})
  BY <1>2, Counts
<1>4. board \in Board
  BY DEF Typed
<1>5. CASE ~r.ok
  <2> DEFINE v == TRUE
             w == IF r.op = "sprint" THEN FALSE ELSE board.naming
             b == [board EXCEPT !.error = v, !.naming = w]
  <2>1. v \in BOOLEAN /\ w \in BOOLEAN
    BY <1>4 DEF Board
  <2>2. board' = b /\ Exchange(Without(n), <<>>)
    BY <1>5 DEF ChangeAnswer
  <2>3. ~LastOf(n, TellsBoard)
    BY <1>1, <1>5 DEF LastOf, TellsBoard
  <2> HIDE DEF v, w
  <2>4. /\ b \in Board /\ SameList(b, board) /\ b.loading = board.loading /\ b.busy = board.busy
        /\ (Addressed(board) => Addressed(b)) /\ b.dialog = board.dialog
    BY <1>4, <2>1 DEF Board, SameList, Addressed
  <2> HIDE DEF b
  <2> QED
    BY <1>2, <1>3, <2>2, <2>3, <2>4, BoardHears
<1>6. CASE r.ok /\ r.op = "sprint"
  <2> DEFINE v == TRUE
             w == FALSE
             b == [board EXCEPT !.made = v, !.sprint = v, !.naming = w]
  <2>1. v \in BOOLEAN /\ w \in BOOLEAN
    OBVIOUS
  <2>2. board' = b /\ Exchange(Without(n), <<>>)
    BY <1>6 DEF ChangeAnswer
  <2>3. ~LastOf(n, TellsBoard)
    BY <1>6 DEF LastOf, TellsBoard
  <2> HIDE DEF v, w
  <2>4. /\ b \in Board /\ SameList(b, board) /\ b.loading = board.loading /\ b.busy = board.busy
        /\ (Addressed(board) => Addressed(b)) /\ b.dialog = board.dialog
    BY <1>4, <2>1 DEF Board, SameList, Addressed
  <2> HIDE DEF b
  <2> QED
    BY <1>2, <1>3, <2>2, <2>3, <2>4, BoardHears
<1>7. CASE r.ok /\ r.op # "sprint" /\ LoadsTwice(Deselected(board), Without(n))
  <2>1. Steady(Deselected(board))
    BY <1>4 DEF Board, Steady, Addressed, Deselected
  <2> QED
    BY <1>2, <1>7, <2>1, BoardLoadsTwice
<1>8. CASE r.ok /\ r.op # "sprint" /\ Loads(board, Without(n), "list")
  <2>1. "list" \in Listings
    BY DEF Listings
  <2> QED
    BY <1>2, <1>3, <1>4, <1>8, <2>1, BoardLoadsThen
<1> QED
  BY <1>5, <1>6, <1>7, <1>8 DEF ChangeAnswer

LEMMA CreateAnswerOutcome ==
  ASSUME Typed, NEW n \in DOMAIN flight, CreateAnswer(n)
  PROVE  BoardSettles(n)
<1> DEFINE r == flight[n]
           d == [board.dialog EXCEPT !.saving = @ - 1]
           e == [d EXCEPT !.open = FALSE]
           D == [open : BOOLEAN, title : BOOLEAN, status : Status, saving : Int]
<1>1. r.op = "create"
  BY DEF CreateAnswer
<1>2. r.op \notin Loaded /\ ~Busies(r) /\ ~LastOf(n, Busies)
  BY <1>1 DEF Loaded, Listings, Busies, LastOf
<1>3. board.dialog.saving - 1 = board.dialog.saving - Cardinality(Creating) + Cardinality(Creating \ {n})
  BY <1>1, Counts
<1>4. board \in Board /\ board.dialog \in D
  BY DEF Typed, Board
<1>5. d \in D /\ e \in D /\ d.saving = board.dialog.saving - 1 /\ e.saving = board.dialog.saving - 1
  <2> DEFINE s == board.dialog.saving - 1
             v == FALSE
  <2>1. s \in Int /\ v \in BOOLEAN
    BY <1>4
  <2> HIDE DEF s, v
  <2>2. /\ [board.dialog EXCEPT !.saving = s] \in D
        /\ [[board.dialog EXCEPT !.saving = s] EXCEPT !.open = v] \in D
        /\ [board.dialog EXCEPT !.saving = s].saving = s
        /\ [[board.dialog EXCEPT !.saving = s] EXCEPT !.open = v].saving = s
    BY <1>4, <2>1
  <2> QED
    BY <2>2 DEF s, v
<1>6. /\ [board EXCEPT !.dialog.saving = @ - 1] = [board EXCEPT !.dialog = d]
      /\ [[board EXCEPT !.dialog.saving = @ - 1] EXCEPT !.dialog.open = FALSE] = [board EXCEPT !.dialog = e]
      /\ [[board EXCEPT !.dialog.saving = @ - 1] EXCEPT !.error = TRUE] = [board EXCEPT !.dialog = d, !.error = TRUE]
  BY <1>4 DEF Board
<1>7. CASE r.ok
  <2> DEFINE b == [board EXCEPT !.dialog = e]
  <2>1. Loads(b, Without(n), "list")
    BY <1>6, <1>7 DEF CreateAnswer
  <2> HIDE DEF d, e
  <2>2. /\ b \in Board /\ b.busy = board.busy
        /\ (Addressed(board) => Addressed(b)) /\ b.dialog.saving = board.dialog.saving - 1
    BY <1>4, <1>5 DEF Board, Addressed
  <2> HIDE DEF b
  <2>3. "list" \in Listings
    BY DEF Listings
  <2> QED
    BY <1>2, <1>3, <2>1, <2>2, <2>3, BoardLoadsThen
<1>8. CASE ~r.ok
  <2> DEFINE v == TRUE
             b == [board EXCEPT !.dialog = d, !.error = v]
  <2>1. board' = b /\ Exchange(Without(n), <<>>)
    BY <1>6, <1>8 DEF CreateAnswer
  <2>4. v \in BOOLEAN
    OBVIOUS
  <2> HIDE DEF d, e, v
  <2>2. /\ b \in Board /\ b.busy = board.busy /\ b.loading = board.loading /\ SameList(b, board)
        /\ (Addressed(board) => Addressed(b)) /\ b.dialog.saving = board.dialog.saving - 1
    BY <1>4, <1>5, <2>4 DEF Board, Addressed, SameList
  <2> HIDE DEF b
  <2>3. ~LastOf(n, TellsBoard)
    BY <1>1, <1>8 DEF LastOf, TellsBoard
  <2> QED
    BY <1>2, <1>3, <2>1, <2>2, <2>3, BoardHears
<1> QED
  BY <1>7, <1>8

LEMMA BatchHeardOutcome ==
  ASSUME Typed, NEW n \in DOMAIN flight, BatchAnswer(n), flight[n].heard, flight[n].ok
  PROVE  BoardSettles(n)
<1> DEFINE r == flight[n]
           rest == {m \in DOMAIN flight \ {n} : flight[m].op = r.op /\ flight[m].heard}
<1>1. r.op \in {"batch", "batchdel"}
  BY DEF BatchAnswer
<1>2. r.op \notin Loaded /\ r.op # "create"
  BY <1>1 DEF Loaded, Listings
<1>3. board.dialog.saving = board.dialog.saving - Cardinality(Creating) + Cardinality(Creating \ {n})
  BY <1>2, Counts
<1>4. board \in Board
  BY DEF Typed
<1>5. CASE rest # {}
  <2>1. board' = board /\ Exchange(Without(n), <<>>)
    BY <1>5 DEF BatchAnswer
  <2>2. PICK m \in DOMAIN flight \ {n} : flight[m].op = r.op /\ flight[m].heard
    BY <1>5
  <2>3. ~LastOf(n, TellsBoard)
    BY <1>1, <2>2 DEF LastOf, TellsBoard
  <2>4. ~LastOf(n, Busies)
    BY <1>1, <2>2 DEF LastOf, Busies
  <2>5. SameList(board, board)
    BY DEF SameList
  <2> QED
    BY <1>2, <1>3, <1>4, <2>1, <2>3, <2>4, <2>5, BoardHears
<1>6. CASE rest = {}
  <2> DEFINE p == {}
             b == [board EXCEPT !.picked = p]
  <2>1. Loads(b, Without(n), "last")
    BY <1>6 DEF BatchAnswer
  <2>2. p \in SUBSET Task /\ "last" \in Listings
    BY DEF Listings
  <2> HIDE DEF p
  <2>3. b \in Board /\ b.dialog = board.dialog /\ (Addressed(board) => Addressed(b))
    BY <1>4, <2>2 DEF Board, Addressed
  <2> HIDE DEF b
  <2> QED
    BY <1>2, <1>3, <2>1, <2>2, <2>3, BoardLoadsThen
<1> QED
  BY <1>5, <1>6

LEMMA DeletedOutcome ==
  ASSUME Typed, NEW n \in DOMAIN flight, DeleteAnswer(n), flight[n].ok
  PROVE  BoardSettles(n)
<1>1. flight[n].op = "delete" /\ Loads(Deselected(board), Without(n), "list") /\ "list" \in Listings
  BY DEF DeleteAnswer, Listings
<1>2. Steady(Deselected(board))
  BY DEF Typed, Board, Steady, Addressed, Deselected
<1>3. flight[n].op \notin Loaded /\ flight[n].op # "create" /\ ~LastOf(n, Busies)
  BY <1>1 DEF Loaded, Listings, LastOf, Busies
<1>4. board.dialog.saving = board.dialog.saving - Cardinality(Creating) + Cardinality(Creating \ {n})
  BY <1>3, Counts
<1> QED
  BY <1>1, <1>2, <1>3, <1>4, BoardLoadsThen DEF Steady

-----------------------------------------------------------------------------
(* An answer to the detail after which it fetches the task.                *)
TellsDetail(r) ==
  /\ r.op \in {"update", "delete", "comment", "block", "unblock"}
  /\ r.heard /\ r.stage = "done" /\ r.ok

Fetched(asked) == \E k \in DOMAIN asked : asked[k].op = "fetch"

(* What an action amounts to for the detail: it keeps what it has, or      *)
(* fetches the task that it is given.                                      *)
DetailPart(n, asked) ==
  /\ detail' \in Detail /\ Known(detail')
  /\ \/ /\ detail'.id = detail.id /\ detail'.task = detail.task /\ detail'.taskId = detail.taskId
        /\ detail'.fresh = detail.fresh /\ ~Fetched(asked)
     \/ /\ detail'.id # None /\ ~detail'.fresh /\ Fetched(asked)
        /\ \A k \in DOMAIN asked : asked[k].op = "fetch" => asked[k].on = detail'.id
  /\ detail'.loading => detail.loading \/ Fetched(asked)
  /\ n \in DOMAIN flight /\ TellsDetail(flight[n])
       => Fetched(asked) \/ (flight[n].op = "delete" /\ board'.open = None)
  /\ \A k \in DOMAIN asked : OfDetail(asked[k]) => detail'.id # None
  /\ detail.id # None => detail'.id # None

(* Request n was answered, or none, and those of asked were made.          *)
Settled(n, asked) == asked \in Seq(Wanted) /\ BoardPart(n, asked) /\ DetailPart(n, asked)
Settles == \E n \in {0} \cup DOMAIN flight : \E asked \in Seq(Wanted) : Settled(n, asked)

LEMMA OutcomeSettled ==
  ASSUME Typed, NEW n, NEW asked \in Seq(Wanted), BoardOutcome(n, asked), UNCHANGED detail,
         n \in DOMAIN flight /\ TellsDetail(flight[n])
           => flight[n].op = "delete" /\ board'.open = None
  PROVE  Settled(n, asked)
<1>2. \A k \in DOMAIN asked : ~OfDetail(asked[k]) /\ asked[k].op # "fetch"
  BY DEF BoardOutcome, OfBoard, OfDetail
<1>3. ~Fetched(asked)
  BY <1>2 DEF Fetched
<1>4. DetailPart(n, asked)
  BY <1>2, <1>3 DEF DetailPart, Typed
<1> QED
  BY <1>4 DEF Settled, BoardOutcome

LEMMA BoardSettled ==
  ASSUME Typed, NEW n \in {0} \cup DOMAIN flight, BoardSettles(n), UNCHANGED detail,
         n \in DOMAIN flight /\ TellsDetail(flight[n])
           => flight[n].op = "delete" /\ board'.open = None
  PROVE  Settles
BY OutcomeSettled DEF Settles, BoardSettles

-----------------------------------------------------------------------------
(* The detail keeps what it has.                                           *)
Still(d) ==
  /\ d \in Detail /\ d.id = detail.id /\ d.task = detail.task /\ d.taskId = detail.taskId
  /\ d.fresh = detail.fresh /\ (d.loading => detail.loading)

(* Requests that are not the board's leave it alone.                       *)
LEMMA BoardAside ==
  ASSUME Typed, NEW n \in {0} \cup DOMAIN flight, NEW asked \in Seq(Wanted), Turn(n, asked), UNCHANGED board,
         \A k \in DOMAIN asked : OfDetail(asked[k]),
         n \in DOMAIN flight => OfDetail(flight[n]) /\ flight[n].op # "fetch"
  PROVE  BoardPart(n, asked)
<1>1. board' = board /\ board \in Board /\ SameList(board', board)
  BY DEF Typed, SameList
<1>2. ~Loading(asked)
  BY DEF Loading, OfDetail, Listings
<1>3. n \in DOMAIN flight => flight[n].op \notin Loaded
  <2>1. DOMAIN flight = 1..Len(flight) /\ Len(flight) \in Nat
    BY DEF Typed
  <2> QED
    BY <2>1 DEF OfDetail, Loaded, Listings
<1>4. ~LastOf(n, TellsBoard) /\ ~LastOf(n, Busies)
  <2>1. DOMAIN flight = 1..Len(flight) /\ Len(flight) \in Nat
    BY DEF Typed
  <2> QED
    BY <2>1 DEF OfDetail, LastOf, TellsBoard, Busies
<1>5. \A k \in DOMAIN asked : asked[k] \in Wanted /\ asked[k].op # "create"
  BY ElementOfSeq DEF OfDetail
<1>6. Creating \ {n} = Creating
  <2>1. n \in Creating => n \in DOMAIN flight /\ flight[n].op = "create"
    BY DEF Creating
  <2>2. DOMAIN flight = 1..Len(flight) /\ Len(flight) \in Nat
    BY DEF Typed
  <2>3. n \notin Creating
    BY <2>1, <2>2 DEF OfDetail
  <2> QED
    BY <2>3
<1>7. Saving => Saving'
  <2>1. Cardinality(Creating') = Cardinality(Creating)
    BY <1>5, <1>6 DEF Turn
  <2> QED
    BY <1>1, <2>1 DEF Saving
<1> QED
  BY <1>1, <1>2, <1>3, <1>4, <1>5, <1>7 DEF BoardPart

-----------------------------------------------------------------------------
(* What the detail does.                                                  *)
LEMMA NotZero ==
  ASSUME Typed
  PROVE  0 \notin DOMAIN flight
<1>1. DOMAIN flight = 1..Len(flight) /\ Len(flight) \in Nat
  BY DEF Typed
<1> QED
  BY <1>1

(* A change of the detail alone.                                           *)
LEMMA DetailLocal ==
  ASSUME Typed, NEW d, Still(d), detail' = d, UNCHANGED <<flight, unseen, board>>
  PROVE  Settles
<1>1. Turn(0, <<>>) /\ 0 \notin DOMAIN flight
  BY StillTurn, NotZero DEF Typed
<1>2. BoardPart(0, <<>>)
  BY <1>1, NoneAsked, BoardAside
<1>3. ~Fetched(<<>>)
  BY NoneAsked DEF Fetched
<1>4. DetailPart(0, <<>>)
  BY <1>1, <1>3, NoneAsked DEF DetailPart, Still, Known, Typed
<1> QED
  BY <1>2, <1>4, NoneAsked DEF Settles, Settled

(* A request of the detail other than a fetch.                             *)
LEMMA DetailSends ==
  ASSUME Typed, NEW d, Still(d), detail' = d, UNCHANGED board, detail.id # None,
         NEW r \in Wanted, OfDetail(r), r.op # "fetch", Exchange(flight, <<r>>)
  PROVE  Settles
<1> DEFINE asked == <<r>>
<1>1. asked \in Seq(Wanted) /\ DOMAIN asked = {1} /\ asked[1] = r
  BY OneAsked
<1>2. Turn(0, asked) /\ 0 \notin DOMAIN flight
  BY <1>1, SendsTurn, NotZero DEF Typed
<1> HIDE DEF asked
<1>3. BoardPart(0, asked)
  BY <1>1, <1>2, BoardAside
<1>4. ~Fetched(asked)
  BY <1>1 DEF Fetched
<1>5. DetailPart(0, asked)
  BY <1>1, <1>2, <1>4 DEF DetailPart, Still, Known, Typed
<1> QED
  BY <1>1, <1>3, <1>5 DEF Settles, Settled

(* An answer after which nothing is asked.                                 *)
LEMMA DetailHears ==
  ASSUME Typed, NEW d, Still(d), detail' = d, UNCHANGED board,
         NEW n \in DOMAIN flight, OfDetail(flight[n]), flight[n].op # "fetch",
         ~TellsDetail(flight[n]), Exchange(Without(n), <<>>)
  PROVE  Settles
<1>1. Turn(n, <<>>)
  BY NoneAsked, AnswerTurn DEF Typed
<1>2. BoardPart(n, <<>>)
  BY <1>1, NoneAsked, BoardAside
<1>3. ~Fetched(<<>>)
  BY NoneAsked DEF Fetched
<1>4. DetailPart(n, <<>>)
  BY <1>1, <1>3, NoneAsked DEF DetailPart, Still, Known, Typed
<1> QED
  BY <1>2, <1>4, NoneAsked DEF Settles, Settled

LEMMA FetchWanted ==
  ASSUME NEW d, d.id \in Task
  PROVE  /\ Fetch(d) \in Wanted /\ Fetch(d).op = "fetch" /\ Fetch(d).on = d.id
         /\ OfDetail(Fetch(d))
<1> DEFINE op == "fetch"
           on == d.id
           field == ""
           value == None
<1>1. op \in Op /\ on \in Target /\ field \in Field /\ value \in Value
  BY DEF Op, Reads, Target, Field, Value
<1>2. op \in Updates => <<field, value>> \in Change
  BY DEF Updates
<1>3. op = "create" => value \in Status
  OBVIOUS
<1>4. Fetch(d) = Request(op, on, field, value)
  BY DEF Fetch
<1>5. op = "fetch" /\ on = d.id
  OBVIOUS
<1> HIDE DEF op, on, field, value
<1>6. Fetch(d) \in Wanted /\ Fetch(d).op = op /\ Fetch(d).on = on
  BY <1>1, <1>2, <1>3, <1>4, RequestWanted
<1> QED
  BY <1>5, <1>6 DEF OfDetail

(* What a fetch makes of the detail.                                       *)
LEMMA FetchingDetail ==
  ASSUME NEW d \in Detail
  PROVE  /\ Fetching(d) \in Detail /\ ~Fetching(d).fresh /\ Fetching(d).loading
         /\ Fetching(d).id = d.id /\ Fetching(d).task = d.task /\ Fetching(d).taskId = d.taskId
<1> DEFINE e == IF d.editor = "title" THEN d.editor ELSE "none"
           E == {"none", "title", "description", "comment", "blocker", "field"}
           t == TRUE
           f == FALSE
<1>1. e \in E /\ t \in BOOLEAN /\ f \in BOOLEAN
  OBVIOUS
<1>2. Fetching(d) = [d EXCEPT !.loading = t, !.error = f, !.fresh = f, !.editor = e]
  BY DEF Fetching
<1> HIDE DEF e, t, f
<1>3. [d EXCEPT !.loading = t, !.error = f, !.fresh = f, !.editor = e] \in Detail
  BY <1>1 DEF Detail
<1>4. /\ Fetching(d).fresh = f /\ Fetching(d).loading = t
      /\ Fetching(d).id = d.id /\ Fetching(d).task = d.task /\ Fetching(d).taskId = d.taskId
  BY <1>2 DEF Detail
<1> QED
  BY <1>2, <1>3, <1>4 DEF f, t

(* A fetch, at once or after an answer.                                    *)
LEMMA DetailFetches ==
  ASSUME Typed, NEW d \in Detail, Known(d), d.id # None, detail' = Fetching(d), UNCHANGED board,
         \/ Exchange(flight, <<Fetch(d)>>)
         \/ Exchange(flight, <<Fetch(d), Fetch(d)>>)
         \/ \E n \in DOMAIN flight : /\ OfDetail(flight[n]) /\ flight[n].op # "fetch"
                                     /\ Exchange(Without(n), <<Fetch(d)>>)
  PROVE  Settles
<1>1. Fetch(d) \in Wanted /\ Fetch(d).op = "fetch" /\ Fetch(d).on = d.id /\ OfDetail(Fetch(d))
  BY FetchWanted DEF Detail
<1>2. /\ detail' \in Detail /\ Known(detail') /\ detail'.id = d.id /\ detail'.id # None
      /\ ~detail'.fresh
  BY FetchingDetail DEF Known
<1> DEFINE r == Fetch(d)
<1> HIDE DEF r
<1>3. ASSUME NEW n \in {0} \cup DOMAIN flight, NEW asked \in Seq(Wanted), Turn(n, asked),
             1 \in DOMAIN asked, \A k \in DOMAIN asked : asked[k] = r,
             n \in DOMAIN flight => OfDetail(flight[n]) /\ flight[n].op # "fetch"
      PROVE  Settles
  <2>1. \A k \in DOMAIN asked : OfDetail(asked[k]) /\ asked[k].op = "fetch" /\ asked[k].on = d.id
    BY <1>1, <1>3 DEF r
  <2>2. BoardPart(n, asked)
    BY <1>3, <2>1, BoardAside
  <2>3. Fetched(asked)
    BY <1>3, <2>1 DEF Fetched
  <2>4. DetailPart(n, asked)
    BY <1>2, <2>1, <2>3 DEF DetailPart
  <2> QED
    BY <2>2, <2>4 DEF Settles, Settled
<1>4. <<r>> \in Seq(Wanted) /\ DOMAIN <<r>> = {1} /\ <<r>>[1] = r
  BY <1>1, OneAsked DEF r
<1>5. <<r, r>> \in Seq(Wanted) /\ DOMAIN <<r, r>> = {1, 2} /\ <<r, r>>[1] = r /\ <<r, r>>[2] = r
  BY <1>1, TwoAsked DEF r
<1>6. CASE Exchange(flight, <<r>>)
  <2> DEFINE asked == <<r>>
  <2>1. Turn(0, asked) /\ asked \in Seq(Wanted) /\ 0 \notin DOMAIN flight
    BY <1>4, <1>6, SendsTurn, NotZero DEF Typed
  <2>2. 1 \in DOMAIN asked /\ \A k \in DOMAIN asked : asked[k] = r
    BY <1>4
  <2> HIDE DEF asked
  <2> QED
    BY <1>3, <2>1, <2>2
<1>7. CASE Exchange(flight, <<r, r>>)
  <2> DEFINE asked == <<r, r>>
  <2>1. Turn(0, asked) /\ asked \in Seq(Wanted) /\ 0 \notin DOMAIN flight
    BY <1>5, <1>7, SendsTurn, NotZero DEF Typed
  <2>2. 1 \in DOMAIN asked /\ \A k \in DOMAIN asked : asked[k] = r
    BY <1>5
  <2> HIDE DEF asked
  <2> QED
    BY <1>3, <2>1, <2>2
<1>8. ASSUME NEW n \in DOMAIN flight, OfDetail(flight[n]), flight[n].op # "fetch",
             Exchange(Without(n), <<r>>)
      PROVE  Settles
  <2> DEFINE asked == <<r>>
  <2>1. Turn(n, asked) /\ asked \in Seq(Wanted)
    BY <1>4, <1>8, AnswerTurn DEF Typed
  <2>2. 1 \in DOMAIN asked /\ \A k \in DOMAIN asked : asked[k] = r
    BY <1>4
  <2> HIDE DEF asked
  <2> QED
    BY <1>3, <1>8, <2>1, <2>2
<1> QED
  BY <1>6, <1>7, <1>8 DEF r

-----------------------------------------------------------------------------
(* The editors of the detail, and what it asks with them.                 *)
Editors == {"none", "title", "description", "comment", "blocker", "field"}

LEMMA WithEditor ==
  ASSUME Typed, NEW e \in Editors
  PROVE  Still([detail EXCEPT !.editor = e]) /\ Still(detail)
BY DEF Typed, Still, Detail, Editors

LEMMA EditSettles ==
  ASSUME Typed, NEW e \in Editors, Edit(e), UNCHANGED board
  PROVE  Settles
BY WithEditor, DetailLocal DEF Edit

LEMMA AsksSettle ==
  ASSUME Typed, Shown, UNCHANGED board, NEW d, Still(d),
         NEW op \in {"update", "delete", "comment", "block", "unblock", "picker"},
         NEW on \in Target, NEW field \in Field, NEW value \in Value,
         op = "update" => <<field, value>> \in Change,
         Asks(d, op, on, field, value)
  PROVE  Settles
<1> DEFINE r == Request(op, on, field, value)
<1>1. op \in Op /\ (op \in Updates => <<field, value>> \in Change) /\ (op = "create" => value \in Status)
  BY DEF Op, Reads, Updates
<1>2. r \in Wanted /\ r.op = op
  BY <1>1, RequestWanted
<1>3. detail' = d /\ Exchange(flight, <<r>>) /\ detail.id # None
  BY DEF Asks, Shown
<1> HIDE DEF r
<1>4. OfDetail(r) /\ r.op # "fetch"
  BY <1>2 DEF OfDetail
<1> QED
  BY <1>2, <1>3, <1>4, DetailSends

LEMMA TaskIdTyped ==
  ASSUME Typed
  PROVE  detail.taskId \in Target /\ None \in Target
BY DEF Typed, Detail, Target

LEMMA EditsSettle ==
  ASSUME Typed, Shown, UNCHANGED board, NEW d, Still(d), NEW field, NEW value, <<field, value>> \in Change,
         Asks(d, "update", detail.taskId, field, value)
  PROVE  Settles
<1>1. field \in Field /\ value \in Value
  BY DEF Change, Field, Value, Status
<1> QED
  BY <1>1, TaskIdTyped, AsksSettle

LEMMA EditsClosing ==
  ASSUME Typed, Shown, UNCHANGED board, NEW field, NEW value, <<field, value>> \in Change,
         Edits(field, value)
  PROVE  Settles
<1>1. Still([detail EXCEPT !.editor = "none"])
  BY WithEditor DEF Editors
<1> QED
  BY <1>1, EditsSettle DEF Edits

(* What the user does with the task shown.                                 *)
LEMMA DetailClickSettles ==
  ASSUME Typed, DetailClick, UNCHANGED board
  PROVE  Settles
<1>0. Shown /\ Still(detail)
  BY WithEditor DEF DetailClick, Editors
<1>1. /\ <<"other", None>> \in Change /\ <<"kept", None>> \in Change
      /\ \A s \in Status : <<"status", s>> \in Change
      /\ \A p \in {None, Me, Other} : <<"owner", p>> \in Change
      /\ \A p \in {"yes", "no"} : <<"proof", p>> \in Change
  BY DEF Change
<1>2. \A e \in Editors : Edit(e) => Settles
  BY EditSettles
<1>3. \A f, v : <<f, v>> \in Change /\ Edits(f, v) => Settles
  BY <1>0, EditsClosing
<1>4. CASE StatusMenu
  <2>1. PICK s \in Status : Asks(detail, "update", detail.taskId, "status", s)
    BY <1>4 DEF StatusMenu
  <2> QED
    BY <1>0, <1>1, <2>1, EditsSettle
<1>5. CASE DeleteTask
  <2>1. "" \in Field /\ None \in Value
    BY DEF Field, Value
  <2> QED
    BY <1>0, <1>5, <2>1, TaskIdTyped, AsksSettle DEF DeleteTask
<1>6. CASE EditTitle
  BY <1>1, <1>2, <1>3, <1>6 DEF EditTitle, Editors
<1>7. CASE EditDescription
  BY <1>1, <1>2, <1>3, <1>7 DEF EditDescription, Editors
<1>8. CASE WriteComment
  <2>1. CASE Edit("comment")
    BY <1>2, <2>1 DEF Editors
  <2>2. CASE Asks([detail EXCEPT !.editor = "none"], "comment", detail.taskId, "", None)
    <3>1. "" \in Field /\ None \in Value /\ Still([detail EXCEPT !.editor = "none"])
      BY WithEditor DEF Field, Value, Editors
    <3> QED
      BY <1>0, <2>2, <3>1, TaskIdTyped, AsksSettle
  <2> QED
    BY <1>8, <2>1, <2>2 DEF WriteComment
<1>9. CASE PickBlocker
  <2>1. CASE Edit("blocker")
    BY <1>2, <2>1 DEF Editors
  <2>2. CASE Asks([detail EXCEPT !.editor = "blocker"], "picker", None, "session", None)
    <3>1. "session" \in Field /\ None \in Value /\ Still([detail EXCEPT !.editor = "blocker"])
      BY WithEditor DEF Field, Value, Editors
    <3> QED
      BY <1>0, <2>2, <3>1, TaskIdTyped, AsksSettle
  <2>3. CASE \E b \in Task : Asks([detail EXCEPT !.editor = "none"], "block", detail.taskId, "", b)
    <3>1. PICK b \in Task : Asks([detail EXCEPT !.editor = "none"], "block", detail.taskId, "", b)
      BY <2>3
    <3>2. "" \in Field /\ b \in Value /\ Still([detail EXCEPT !.editor = "none"])
      BY WithEditor DEF Field, Value, Editors
    <3> QED
      BY <1>0, <3>1, <3>2, TaskIdTyped, AsksSettle
  <2>4. DOMAIN rows \subseteq Task
    BY DEF Typed, RowsTyped, Listed
  <2> QED
    BY <1>9, <2>1, <2>2, <2>3, <2>4 DEF PickBlocker
<1>10. CASE RemoveBlocker
  <2>1. PICK b \in detail.task.blockers : Asks(detail, "unblock", detail.taskId, "", b)
    BY <1>10 DEF RemoveBlocker
  <2>2. b \in Task
    <3>1. detail.task \in Row
      BY <1>0 DEF Typed, Detail, Shown
    <3> QED
      BY <2>1, <3>1 DEF Row
  <2>3. "" \in Field /\ b \in Value
    BY <2>2 DEF Field, Value
  <2> QED
    BY <1>0, <2>1, <2>3, TaskIdTyped, AsksSettle
<1>11. CASE Claim
  BY <1>1, <1>3, <1>11 DEF Claim
<1>12. CASE PanelField
  BY <1>2, <1>12 DEF PanelField, Editors
<1>13. CASE PickValue
  BY <1>1, <1>3, <1>13 DEF PickValue
<1>14. CASE PickAssignee
  BY <1>1, <1>3, <1>14 DEF PickAssignee
<1>15. CASE EditProof
  BY <1>1, <1>3, <1>15 DEF EditProof
<1>16. CASE PickModel
  BY <1>1, <1>3, <1>16 DEF PickModel
<1> QED
  BY <1>4, <1>5, <1>6, <1>7, <1>8, <1>9, <1>10, <1>11, <1>12, <1>13, <1>14, <1>15, <1>16
  DEF DetailClick

(* The answers.                                                            *)
LEMMA EditAnswerSettles ==
  ASSUME Typed, NEW n \in DOMAIN flight, EditAnswer(n), UNCHANGED board,
         OfDetail(flight[n]) /\ flight[n].heard => detail.id # None
  PROVE  Settles
<1> DEFINE r == flight[n]
<1>1. r.op \in {"update", "comment", "block", "unblock"}
  BY DEF EditAnswer
<1>2. OfDetail(r) /\ r.op # "fetch"
  BY <1>1 DEF OfDetail
<1>3. CASE Mine(r) /\ r.ok
  <2>1. detail' = Fetching(detail) /\ Exchange(Without(n), <<Fetch(detail)>>)
    BY <1>3 DEF EditAnswer, Fetches
  <2>2. detail \in Detail /\ Known(detail) /\ detail.id # None
    BY <1>3 DEF Typed, Mine
  <2> QED
    BY <1>2, <2>1, <2>2, DetailFetches
<1>4. CASE ~(Mine(r) /\ r.ok)
  <2> DEFINE v == TRUE
             d == IF Mine(r) THEN [detail EXCEPT !.error = v] ELSE detail
  <2>1. detail' = d /\ Exchange(Without(n), <<>>)
    BY <1>4 DEF EditAnswer
  <2>2. v \in BOOLEAN /\ ~TellsDetail(r)
    BY <1>2, <1>4 DEF TellsDetail, Mine
  <2> HIDE DEF v
  <2>3. Still([detail EXCEPT !.error = v]) /\ Still(detail)
    BY <2>2 DEF Typed, Still, Detail
  <2>4. Still(d)
    BY <2>3
  <2> HIDE DEF d
  <2> QED
    BY <1>2, <2>1, <2>2, <2>4, DetailHears
<1> QED
  BY <1>3, <1>4

LEMMA PickerAnswerSettles ==
  ASSUME Typed, NEW n \in DOMAIN flight, PickerAnswer(n), UNCHANGED board
  PROVE  Settles
<1> DEFINE r == flight[n]
           v == DOMAIN r.data # {}
           d == IF Mine(r) /\ r.ok THEN [detail EXCEPT !.all = v] ELSE detail
<1>1. r.op = "picker" /\ detail' = d /\ Exchange(Without(n), <<>>)
  BY DEF PickerAnswer
<1>2. v \in BOOLEAN
  OBVIOUS
<1> HIDE DEF v
<1>3. Still([detail EXCEPT !.all = v]) /\ Still(detail)
  BY <1>2 DEF Typed, Still, Detail
<1>4. Still(d)
  BY <1>3
<1>5. OfDetail(r) /\ r.op # "fetch" /\ ~TellsDetail(r)
  BY <1>1 DEF OfDetail, TellsDetail
<1> HIDE DEF d
<1> QED
  BY <1>1, <1>4, <1>5, DetailHears

(* A deletion that failed.                                                 *)
LEMMA NotDeletedSettles ==
  ASSUME Typed, NEW n \in DOMAIN flight, DeleteAnswer(n), ~flight[n].ok
  PROVE  Settles
<1> DEFINE r == flight[n]
           v == TRUE
           d == IF Mine(r) THEN [detail EXCEPT !.error = v] ELSE detail
<1>1. r.op = "delete" /\ detail' = d /\ Exchange(Without(n), <<>>) /\ UNCHANGED board
  BY DEF DeleteAnswer
<1>2. v \in BOOLEAN
  OBVIOUS
<1> HIDE DEF v
<1>3. Still([detail EXCEPT !.error = v]) /\ Still(detail)
  BY <1>2 DEF Typed, Still, Detail
<1>4. Still(d)
  BY <1>3
<1>5. OfDetail(r) /\ r.op # "fetch" /\ ~TellsDetail(r)
  BY <1>1 DEF OfDetail, TellsDetail
<1> HIDE DEF d
<1> QED
  BY <1>1, <1>4, <1>5, DetailHears

-----------------------------------------------------------------------------
(* A detail is rendered for what is open.                                  *)
LEMMA MountSettles ==
  ASSUME Typed, board.open # None, UNCHANGED board,
         Mount(board.open) \/ ShowOther(board.open)
  PROVE  Settles
<1> DEFINE t == board.open
<1>1. t \in Task \cup {None} /\ t # None
  BY DEF Typed, Board
<1> HIDE DEF t
<1>2. CASE Mount(t)
  <2> DEFINE d == [NoDetail EXCEPT !.id = t]
  <2>1. d \in Detail /\ d.id = t /\ d.task = None
    BY <1>1 DEF NoDetail, Detail
  <2>2. detail' = Fetching(d) /\ Exchange(flight, <<Fetch(d), Fetch(d)>>)
    BY <1>2 DEF Mount
  <2> HIDE DEF d
  <2> QED
    BY <1>1, <2>1, <2>2, DetailFetches DEF Known
<1>3. CASE ShowOther(t)
  <2> DEFINE d == [detail EXCEPT !.id = t]
  <2>1. d \in Detail /\ d.id = t /\ Known(d)
    BY <1>1 DEF Detail, Typed, Known
  <2>2. detail' = Fetching(d) /\ Exchange(flight, <<Fetch(d)>>)
    BY <1>3 DEF ShowOther, Fetches
  <2> HIDE DEF d
  <2> QED
    BY <1>1, <2>1, <2>2, DetailFetches
<1> QED
  BY <1>2, <1>3 DEF t

(* A notice makes both pages load.                                         *)
LEMMA NoticeSettles ==
  ASSUME Typed, DeliverNotice
  PROVE  \E asked \in Seq(Wanted) :
           /\ Settled(0, asked) /\ Loading(asked)
           /\ Fetched(asked) \/ detail'.id = None
<1>1. CASE detail.id = None
  <2>1. Loads(board, flight, "list") /\ UNCHANGED detail /\ "list" \in Listings
    BY <1>1 DEF DeliverNotice, Listings
  <2>2. Steady(board)
    BY DEF Steady, Typed
  <2>3. PICK asked \in Seq(Wanted) : BoardOutcome(0, asked) /\ Loading(asked)
    BY <2>1, <2>2, BoardLoadsNow
  <2>4. Settled(0, asked)
    BY <2>1, <2>3, NotZero, OutcomeSettled
  <2> QED
    BY <1>1, <2>1, <2>3, <2>4
<1>2. CASE detail.id # None
  <2> DEFINE r == ListRequest(board, "list")
             s == Fetch(detail)
             c == [board EXCEPT !.loading = TRUE, !.error = FALSE, !.fresh = FALSE]
  <2>1. board \in Board /\ detail \in Detail /\ Known(detail) /\ detail.id \in Task
    BY <1>2 DEF Typed, Detail
  <2>2. r \in Wanted /\ Suits(r, board) /\ r.op = "list"
    BY <2>1, ListRequestWanted DEF ListRequest, Request, Listings
  <2>3. s \in Wanted /\ s.op = "fetch" /\ s.on = detail.id
    BY <2>1, FetchWanted
  <2>4. /\ c \in Board /\ c.all = board.all /\ c.status = board.status /\ ~c.fresh
        /\ c.busy = board.busy /\ c.open = board.open /\ c.url = board.url
        /\ c.dialog = board.dialog
    BY <2>1 DEF Board
  <2>5. board' = c /\ detail' = Fetching(detail) /\ Exchange(flight, <<r, s>>)
    BY <1>2 DEF DeliverNotice
  <2>6. /\ detail' \in Detail /\ Known(detail') /\ detail'.id = detail.id /\ ~detail'.fresh
    BY <2>1, <2>5, FetchingDetail DEF Known
  <2> HIDE DEF r, s, c
  <2> DEFINE asked == <<r, s>>
  <2>7. asked \in Seq(Wanted) /\ DOMAIN asked = {1, 2} /\ asked[1] = r /\ asked[2] = s
    BY <2>2, <2>3, TwoAsked
  <2>8. Turn(0, asked) /\ 0 \notin DOMAIN flight
    BY <2>5, <2>7, SendsTurn, NotZero DEF Typed
  <2> HIDE DEF asked
  <2>9. Loading(asked) /\ Fetched(asked)
    BY <2>2, <2>3, <2>7 DEF Loading, Fetched, Listings
  <2>10. \A k \in DOMAIN asked : /\ asked[k] \in Wanted /\ asked[k].op # "create"
                                 /\ asked[k].op \in Listings => asked[k] = r
                                 /\ asked[k].op = "fetch" => asked[k] = s
    BY <2>2, <2>3, <2>7 DEF Listings
  <2>11. Saving => Saving'
    <3>1. Cardinality(Creating') = Cardinality(Creating \ {0})
      BY <2>8, <2>10 DEF Turn
    <3>2. Creating \ {0} = Creating
      BY <2>8 DEF Creating
    <3> QED
      BY <2>4, <2>5, <3>1, <3>2 DEF Saving
  <2>12. Suits(r, c) /\ (Addressed(board) => Addressed(board'))
    BY <2>2, <2>4, <2>5 DEF Suits, Addressed
  <2>13. BoardPart(0, asked)
    BY <2>4, <2>5, <2>8, <2>9, <2>10, <2>11, <2>12 DEF BoardPart, LastOf
  <2>14. DetailPart(0, asked)
    BY <2>1, <2>3, <2>6, <2>8, <2>9, <2>10 DEF DetailPart
  <2>15. Settled(0, asked)
    BY <2>7, <2>13, <2>14 DEF Settled
  <2> QED
    BY <2>7, <2>9, <2>15
<1> QED
  BY <1>1, <1>2

-----------------------------------------------------------------------------
(* The answer to a load of the board.                                      *)
ListShown(n) ==
  /\ Turn(n, <<>>) /\ UNCHANGED detail
  /\ n \in DOMAIN flight /\ flight[n].op \in Listings
  /\ board' \in Board /\ (Addressed(board) => Addressed(board'))
  /\ board'.all = board.all /\ board'.status = board.status /\ board'.dialog = board.dialog
  /\ IF flight[n].ok THEN board'.shown = flight[n].data /\ board'.fresh = flight[n].latest
     ELSE board'.shown = board.shown /\ board'.fresh = board.fresh
  /\ ~board'.loading /\ (board'.busy => board.busy /\ flight[n].op # "last")

LEMMA ListAnswerShows ==
  ASSUME Typed, NEW n \in DOMAIN flight, ListAnswer(n), UNCHANGED detail
  PROVE  ListShown(n)
<1> DEFINE r == flight[n]
           b == Shows(board, n)
           f == FALSE
           t == TRUE
<1>1. Turn(n, <<>>) /\ r.op \in Listings
  BY NoneAsked, AnswerTurn DEF Typed, ListAnswer
<1>2. board \in Board /\ f \in BOOLEAN /\ t \in BOOLEAN
  BY DEF Typed
<1>3. r \in Underway /\ r.latest \in BOOLEAN /\ (r.ok => r.data \in Listed)
  <2>1. r \in Underway
    BY ElementOfSeq DEF Typed
  <2> QED
    BY <1>1, <2>1 DEF Underway, Message, WellAnswered
<1> DEFINE l == r.latest
           x == r.data
<1>4. b = IF r.ok THEN [board EXCEPT !.shown = x, !.fresh = l, !.loading = f]
          ELSE [board EXCEPT !.error = t, !.loading = f]
  BY DEF Shows
<1> HIDE DEF f, t, l, x
<1>5. /\ b \in Board /\ b.url = board.url /\ b.open = board.open /\ b.all = board.all
      /\ b.status = board.status /\ b.dialog = board.dialog /\ b.busy = board.busy
      /\ b.loading = f
      /\ IF r.ok THEN b.shown = x /\ b.fresh = l ELSE b.shown = board.shown /\ b.fresh = board.fresh
  <2>1. CASE r.ok
    <3>1. l \in BOOLEAN /\ x \in Listed
      BY <1>3, <2>1 DEF l, x
    <3> DEFINE e == [board EXCEPT !.shown = x, !.fresh = l, !.loading = f]
    <3>2. b = e
      BY <1>4, <2>1
    <3> HIDE DEF b
    <3>3. /\ e \in Board /\ e.url = board.url /\ e.open = board.open /\ e.all = board.all
          /\ e.status = board.status /\ e.dialog = board.dialog /\ e.busy = board.busy
          /\ e.loading = f /\ e.shown = x /\ e.fresh = l
      BY <1>2, <3>1 DEF Board
    <3> HIDE DEF e
    <3> QED
      BY <2>1, <3>2, <3>3
  <2>2. CASE ~r.ok
    <3> DEFINE e == [board EXCEPT !.error = t, !.loading = f]
    <3>2. b = e
      BY <1>4, <2>2
    <3> HIDE DEF b
    <3>3. /\ e \in Board /\ e.url = board.url /\ e.open = board.open /\ e.all = board.all
          /\ e.status = board.status /\ e.dialog = board.dialog /\ e.busy = board.busy
          /\ e.loading = f /\ e.shown = board.shown /\ e.fresh = board.fresh
      BY <1>2 DEF Board
    <3> HIDE DEF e
    <3> QED
      BY <2>2, <3>2, <3>3
  <2> QED
    BY <2>1, <2>2
<1>6. /\ ~b.loading
      /\ IF r.ok THEN b.shown = r.data /\ b.fresh = r.latest ELSE b.shown = board.shown /\ b.fresh = board.fresh
  BY <1>5 DEF f, l, x
<1> DEFINE c == board'
<1>7. CASE r.op = "list"
  <2>1. board' = b
    BY <1>7 DEF ListAnswer
  <2> HIDE DEF b
  <2> QED
    BY <1>1, <1>5, <1>6, <1>7, <2>1 DEF ListShown, Addressed
<1>8. CASE r.op = "first"
  <2>1. board' = Restored(b)
    BY <1>8 DEF ListAnswer
  <2> HIDE DEF b
  <2>2. DOMAIN b.shown \subseteq Task
    BY <1>5 DEF Board, Listed
  <2> DEFINE u == b.url
             e == [b EXCEPT !.open = u]
  <2>3. CASE u \in DOMAIN b.shown
    <3>1. board' = e /\ u \in Task /\ u = b.url
      BY <2>1, <2>2, <2>3 DEF Restored
    <3> HIDE DEF u
    <3>2. /\ e \in Board /\ e.url = b.url /\ e.open = u /\ e.all = b.all /\ e.status = b.status
          /\ e.dialog = b.dialog /\ e.busy = b.busy /\ e.loading = b.loading
          /\ e.shown = b.shown /\ e.fresh = b.fresh
      BY <1>5, <3>1 DEF Board
    <3> HIDE DEF e
    <3>3. Addressed(board')
      BY <3>1, <3>2 DEF Addressed
    <3> QED
      BY <1>1, <1>5, <1>6, <1>8, <3>1, <3>2, <3>3 DEF ListShown
  <2>4. CASE u \notin DOMAIN b.shown
    <3>1. board' = b
      BY <2>1, <2>4 DEF Restored
    <3> QED
      BY <1>1, <1>5, <1>6, <1>8, <3>1 DEF ListShown, Addressed
  <2> QED
    BY <2>3, <2>4
<1>9. CASE r.op = "last"
  <2> DEFINE e == [b EXCEPT !.busy = f]
  <2>1. board' = e
    BY <1>9 DEF ListAnswer, f
  <2> HIDE DEF b
  <2>2. /\ e \in Board /\ e.url = b.url /\ e.open = b.open /\ e.all = b.all /\ e.status = b.status
        /\ e.dialog = b.dialog /\ e.busy = f /\ e.loading = b.loading
        /\ e.shown = b.shown /\ e.fresh = b.fresh
    BY <1>2, <1>5 DEF Board
  <2> HIDE DEF e
  <2>3. ~e.busy
    BY <2>2 DEF f
  <2> QED
    BY <1>1, <1>5, <1>6, <2>1, <2>2, <2>3 DEF ListShown, Addressed
<1> QED
  BY <1>1, <1>7, <1>8, <1>9 DEF Listings

(* The answer to a fetch.                                                  *)
FetchShown(n) ==
  /\ Turn(n, <<>>) /\ UNCHANGED board
  /\ n \in DOMAIN flight /\ flight[n].op = "fetch"
  /\ detail' \in Detail /\ Known(detail') /\ detail'.id = detail.id
  /\ ~flight[n].heard => detail' = detail
  /\ flight[n].heard =>
       /\ ~detail'.loading
       /\ IF flight[n].ok THEN /\ detail'.task = flight[n].data /\ detail'.taskId = flight[n].on
                               /\ detail'.fresh = flight[n].latest
          ELSE /\ detail'.task = detail.task /\ detail'.taskId = detail.taskId
               /\ detail'.fresh = detail.fresh

LEMMA FetchAnswerShows ==
  ASSUME Typed, NEW n \in DOMAIN flight, FetchAnswer(n), UNCHANGED board
  PROVE  FetchShown(n)
<1> DEFINE r == flight[n]
<1>1. Turn(n, <<>>) /\ r.op = "fetch" /\ (Mine(r) <=> r.heard)
  BY NoneAsked, AnswerTurn DEF Typed, FetchAnswer, Mine, OfDetail
<1>2. detail \in Detail /\ Known(detail)
  BY DEF Typed
<1>3. r \in Underway /\ r.latest \in BOOLEAN /\ (r.ok => r.data \in Row /\ r.on \in Task)
  <2>1. r \in Underway
    BY ElementOfSeq DEF Typed
  <2> QED
    BY <1>1, <2>1 DEF Underway, Message, WellAnswered
<1>4. CASE ~r.heard
  BY <1>1, <1>2, <1>4 DEF FetchAnswer, FetchShown
<1>5. CASE r.heard /\ r.ok
  <2> DEFINE x == r.data
             o == r.on
             l == r.latest
             f == FALSE
             d == [detail EXCEPT !.task = x, !.taskId = o, !.fresh = l, !.loading = f]
  <2>1. x \in Row /\ o \in Task /\ l \in BOOLEAN /\ f \in BOOLEAN
    BY <1>3, <1>5
  <2>2. detail' = d
    BY <1>1, <1>5 DEF FetchAnswer
  <2> HIDE DEF x, o, l, f
  <2>3. d \in Detail /\ d.id = detail.id /\ d.task = x /\ d.taskId = o /\ d.fresh = l /\ d.loading = f
    BY <1>2, <2>1 DEF Detail
  <2> HIDE DEF d
  <2>4. Known(d)
    BY <2>1, <2>3 DEF Known
  <2> QED
    BY <1>1, <1>5, <2>2, <2>3, <2>4 DEF FetchShown, x, o, l, f
<1>6. CASE r.heard /\ ~r.ok
  <2> DEFINE t == TRUE
             f == FALSE
             d == [detail EXCEPT !.error = t, !.loading = f]
  <2>1. t \in BOOLEAN /\ f \in BOOLEAN
    OBVIOUS
  <2>2. detail' = d
    BY <1>1, <1>6 DEF FetchAnswer
  <2> HIDE DEF t, f
  <2>3. /\ d \in Detail /\ d.id = detail.id /\ d.task = detail.task /\ d.taskId = detail.taskId
        /\ d.fresh = detail.fresh /\ d.loading = f
    BY <1>2, <2>1 DEF Detail
  <2> HIDE DEF d
  <2>4. Known(d)
    BY <1>2, <2>3 DEF Known
  <2> QED
    BY <1>1, <1>6, <2>2, <2>3, <2>4 DEF FetchShown, f
<1> QED
  BY <1>4, <1>5, <1>6

-----------------------------------------------------------------------------
(* Request n was answered, or none, and those of the kinds in hushed are   *)
(* heard no more.                                                          *)
Hushed(n, hushed) ==
  /\ flight' \in Seq(Underway)
  /\ \A i \in DOMAIN flight' : \E m \in DOMAIN flight \ {n} :
       /\ Weaker(flight'[i], flight[m])
       /\ flight'[i].heard <=> (flight[m].heard /\ flight[m].op \notin hushed)
  /\ \A m \in DOMAIN flight \ {n} : \E i \in DOMAIN flight' :
       /\ Weaker(flight'[i], flight[m])
       /\ flight'[i].heard <=> (flight[m].heard /\ flight[m].op \notin hushed)
  /\ OneLatest => OneLatest'
  /\ Cardinality(Creating') = Cardinality(Creating \ {n})

LEMMA Hush ==
  ASSUME flight \in Seq(Underway), NEW n, NEW base, NEW h, Left(base, n, h), NEW hushed,
         flight' = [i \in DOMAIN base |-> IF base[i].op \in hushed THEN [base[i] EXCEPT !.heard = FALSE]
                                          ELSE base[i]]
  PROVE  Hushed(n, hushed)
<1>1. /\ DOMAIN base = 1..Len(base) /\ Len(base) \in Nat
      /\ \A i \in 1..Len(base) : base[i] \in Underway
      /\ \A i \in 1..Len(base) : h[i] \in DOMAIN flight \ {n} /\ base[i] = flight[h[i]]
  BY ElementOfSeq DEF Left
<1> DEFINE muted(r) == IF r.op \in hushed THEN [r EXCEPT !.heard = FALSE] ELSE r
<1>2. \A r \in Underway : /\ Weaker(muted(r), r)
                          /\ muted(r).heard <=> (r.heard /\ r.op \notin hushed)
  <2> SUFFICES ASSUME NEW r \in Underway
               PROVE  Weaker(muted(r), r) /\ (muted(r).heard <=> (r.heard /\ r.op \notin hushed))
    OBVIOUS
  <2>1. CASE r.op \in hushed
    <3> DEFINE f == FALSE
               s == [r EXCEPT !.heard = f]
    <3>0. f \in BOOLEAN
      OBVIOUS
    <3> HIDE DEF f
    <3>1. /\ s \in Message /\ s.op = r.op /\ s.on = r.on /\ s.field = r.field /\ s.value = r.value
          /\ s.stage = r.stage /\ s.ok = r.ok /\ s.data = r.data /\ s.latest = r.latest
          /\ s.heard = f
      BY <3>0 DEF Underway, Message
    <3>2. muted(r) = s
      BY <2>1 DEF f
    <3> HIDE DEF s, muted
    <3>3. s \in Underway
      BY <3>1 DEF Underway, WellAsked, WellAnswered
    <3> QED
      BY <2>1, <3>1, <3>2, <3>3 DEF Weaker, f
  <2>2. CASE r.op \notin hushed
    <3>1. muted(r) = r
      BY <2>2
    <3>2. r.heard \in BOOLEAN
      BY DEF Underway, Message
    <3> HIDE DEF muted
    <3> QED
      BY <2>2, <3>1, <3>2 DEF Weaker
  <2> QED
    BY <2>1, <2>2
<1>3. flight' = [i \in DOMAIN base |-> muted(base[i])]
  OBVIOUS
<1> HIDE DEF muted
<1>4. /\ DOMAIN flight' = 1..Len(base)
      /\ \A i \in 1..Len(base) :
           /\ flight'[i] \in Underway /\ Weaker(flight'[i], flight[h[i]])
           /\ flight'[i].heard <=> (flight[h[i]].heard /\ flight[h[i]].op \notin hushed)
           /\ flight'[i].op = base[i].op
  <2>1. DOMAIN flight' = 1..Len(base) /\ \A i \in 1..Len(base) : flight'[i] = muted(base[i])
    BY <1>1, <1>3
  <2> SUFFICES ASSUME NEW i \in 1..Len(base)
               PROVE  /\ flight'[i] \in Underway /\ Weaker(flight'[i], flight[h[i]])
                      /\ flight'[i].heard <=> (flight[h[i]].heard /\ flight[h[i]].op \notin hushed)
                      /\ flight'[i].op = base[i].op
    BY <2>1
  <2> DEFINE r == base[i]
             s == flight'[i]
  <2>2. r \in Underway /\ r = flight[h[i]] /\ s = muted(r)
    BY <1>1, <2>1
  <2> HIDE DEF r, s
  <2>3. Weaker(s, r) /\ (s.heard <=> (r.heard /\ r.op \notin hushed))
    BY <1>2, <2>2
  <2>4. s \in Underway /\ s.op = r.op
    BY <2>3 DEF Weaker
  <2>5. r.op = base[i].op
    BY DEF r
  <2>6. s = flight'[i] /\ r = flight[h[i]]
    BY <2>2 DEF s
  <2>7. Weaker(flight'[i], flight[h[i]])
    BY <2>3, <2>6
  <2>8. flight'[i].heard <=> (flight[h[i]].heard /\ flight[h[i]].op \notin hushed)
    BY <2>3, <2>6
  <2>9. flight'[i] \in Underway /\ flight'[i].op = base[i].op
    BY <2>4, <2>5, <2>6
  <2> QED
    BY <2>7, <2>8, <2>9
<1>5. flight' \in Seq(Underway)
  <2>1. Len(base) \in Nat /\ DOMAIN flight' = 1..Len(base) /\ \A i \in 1..Len(base) : flight'[i] \in Underway
    BY <1>1, <1>4
  <2>2. flight' \in [1..Len(base) -> Underway]
    BY <1>1, <1>3, <2>1
  <2> QED
    BY <2>1, <2>2
<1>6. OneLatest => OneLatest'
  <2> SUFFICES ASSUME OneLatest, NEW i \in DOMAIN flight', NEW j \in DOMAIN flight',
                      flight'[i].latest, flight'[j].latest,
                      Loader(flight'[i]) = Loader(flight'[j]), Loader(flight'[i]) # "none"
               PROVE  i = j
    BY DEF OneLatest
  <2>1. /\ flight[h[i]].latest /\ flight[h[j]].latest
        /\ Loader(flight[h[i]]) = Loader(flight'[i]) /\ Loader(flight[h[j]]) = Loader(flight'[j])
    <3>1. i \in 1..Len(base) /\ j \in 1..Len(base)
      BY <1>4
    <3>2. Weaker(flight'[i], flight[h[i]]) /\ Weaker(flight'[j], flight[h[j]])
      BY <1>4, <3>1
    <3> QED
      BY <3>2 DEF Weaker, Loader
  <2>2. h[i] = h[j]
    BY <1>1, <1>4, <2>1 DEF OneLatest
  <2> QED
    BY <1>1, <1>4, <2>2 DEF Left
<1>7. Cardinality(Creating') = Cardinality(Creating \ {n})
  <2> DEFINE old == {i \in 1..Len(base) : base[i].op = "create"}
             C == Creating \ {n}
             g == [i \in old |-> h[i]]
  <2>1. Creating' = old
    BY <1>4 DEF Creating
  <2>2. IsFiniteSet(old)
    <3>0. Len(base) \in Int /\ 1 \in Int
      BY <1>1
    <3>1. IsFiniteSet(1..Len(base))
      BY <3>0, FS_Interval
    <3> QED
      BY <3>1, FS_Subset
  <2>3. g \in [old -> C]
    BY <1>1 DEF Creating
  <2>4. \A i, j \in old : g[i] = g[j] => i = j
    BY <1>1 DEF Left
  <2>5. \A m \in C : \E i \in old : g[i] = m
    <3> SUFFICES ASSUME NEW m \in C PROVE \E i \in old : g[i] = m
      OBVIOUS
    <3>1. PICK i \in 1..Len(base) : h[i] = m
      BY <1>1 DEF Left, Creating
    <3>2. i \in old
      BY <1>1, <3>1 DEF Creating
    <3> QED
      BY <3>1, <3>2
  <2> HIDE DEF g, C, old
  <2>6. g \in Bijection(old, C)
    BY <2>3, <2>4, <2>5 DEF Bijection, Injection, Surjection, IsInjective
  <2>7. Cardinality(old) = Cardinality(C)
    BY <2>2, <2>6, FS_Bijection DEF ExistsBijection
  <2> QED
    BY <2>1, <2>7 DEF C
<1>8. \A m \in DOMAIN flight \ {n} : \E i \in 1..Len(base) : h[i] = m
  BY <1>1 DEF Left
<1>9. \A i \in 1..Len(base) : h[i] \in DOMAIN flight \ {n}
  BY <1>1
<1>10. \A i \in DOMAIN flight' : \E m \in DOMAIN flight \ {n} :
         /\ Weaker(flight'[i], flight[m])
         /\ flight'[i].heard <=> (flight[m].heard /\ flight[m].op \notin hushed)
  BY <1>4, <1>9
<1>11. \A m \in DOMAIN flight \ {n} : \E i \in DOMAIN flight' :
         /\ Weaker(flight'[i], flight[m])
         /\ flight'[i].heard <=> (flight[m].heard /\ flight[m].op \notin hushed)
  <2> SUFFICES ASSUME NEW m \in DOMAIN flight \ {n}
               PROVE  \E i \in DOMAIN flight' :
                        /\ Weaker(flight'[i], flight[m])
                        /\ flight'[i].heard <=> (flight[m].heard /\ flight[m].op \notin hushed)
    OBVIOUS
  <2>1. PICK i \in 1..Len(base) : h[i] = m
    BY <1>8
  <2>2. /\ i \in DOMAIN flight' /\ Weaker(flight'[i], flight[m])
        /\ flight'[i].heard <=> (flight[m].heard /\ flight[m].op \notin hushed)
    BY <1>4, <2>1
  <2> QED
    BY <2>2
<1> QED
  BY <1>5, <1>6, <1>7, <1>10, <1>11 DEF Hushed

DetailOps == {"fetch", "update", "delete", "comment", "block", "unblock", "picker"}

LEMMA UnmountHushes ==
  ASSUME Typed, Unmount
  PROVE  Hushed(0, DetailOps)
<1>1. flight' = [i \in DOMAIN flight |-> IF flight[i].op \in DetailOps THEN [flight[i] EXCEPT !.heard = FALSE]
                                         ELSE flight[i]]
  BY DEF Unmount, OfDetail, DetailOps
<1> QED
  BY <1>1, NothingLeft, Hush DEF Typed

(* The answers of a batch that are not, or are no more, waited for.        *)
BatchEnds(n) ==
  /\ n \in DOMAIN flight /\ flight[n].op \in {"batch", "batchdel"}
  /\ \E hushed \in {{}, {flight[n].op}} :
       /\ Hushed(n, hushed)
       /\ board'.busy => board.busy /\ hushed = {} /\ ~flight[n].heard
  /\ unseen' = [unseen EXCEPT !["board"] = TRUE]
  /\ board' \in Board /\ SameList(board', board) /\ (board'.loading => board.loading)
  /\ (Addressed(board) => Addressed(board')) /\ board'.dialog = board.dialog
  /\ board'.open = board.open /\ UNCHANGED detail

LEMMA BatchLeaves ==
  ASSUME Typed, NEW n \in DOMAIN flight, BatchAnswer(n), ~(flight[n].heard /\ flight[n].ok),
         UNCHANGED detail
  PROVE  BatchEnds(n)
<1> DEFINE r == flight[n]
           h == [i \in DOMAIN Without(n) |-> IF i < n THEN i ELSE i + 1]
<1>1. Left(Without(n), n, h) /\ flight \in Seq(Underway)
  BY WithoutLeaves DEF Typed
<1> HIDE DEF h
<1>2. r.op \in {"batch", "batchdel"} /\ unseen' = [unseen EXCEPT !["board"] = TRUE]
  BY DEF BatchAnswer
<1>3. board \in Board
  BY DEF Typed
<1>4. CASE ~r.heard
  <2>1. flight' = Without(n) /\ board' = board
    BY <1>4 DEF BatchAnswer
  <2>2. flight' = [i \in DOMAIN Without(n) |-> IF Without(n)[i].op \in {} THEN [Without(n)[i] EXCEPT !.heard = FALSE]
                                               ELSE Without(n)[i]]
    <3>1. Without(n) \in Seq(Underway)
      BY <1>1 DEF Left
    <3> QED
      BY <2>1, <3>1
  <2>3. Hushed(n, {})
    BY <1>1, <2>2, Hush
  <2> QED
    BY <1>2, <1>3, <1>4, <2>1, <2>3 DEF BatchEnds, SameList
<1>5. CASE r.heard /\ ~r.ok
  <2> DEFINE v == TRUE
             f == FALSE
             b == [board EXCEPT !.error = v, !.busy = f]
  <2>1. /\ board' = b
        /\ flight' = [m \in DOMAIN Without(n) |->
                        IF Without(n)[m].op = r.op THEN [Without(n)[m] EXCEPT !.heard = FALSE]
                        ELSE Without(n)[m]]
    BY <1>5 DEF BatchAnswer
  <2>2. flight' = [i \in DOMAIN Without(n) |->
                     IF Without(n)[i].op \in {r.op} THEN [Without(n)[i] EXCEPT !.heard = FALSE]
                     ELSE Without(n)[i]]
    BY <2>1
  <2>3. Hushed(n, {r.op})
    BY <1>1, <2>2, Hush
  <2>4. v \in BOOLEAN /\ f \in BOOLEAN
    OBVIOUS
  <2> HIDE DEF v, f
  <2>5. /\ b \in Board /\ SameList(b, board) /\ b.loading = board.loading /\ b.busy = f
        /\ (Addressed(board) => Addressed(b)) /\ b.dialog = board.dialog /\ b.open = board.open
    BY <1>3, <2>4 DEF Board, SameList, Addressed
  <2> HIDE DEF b
  <2>6. ~b.busy
    BY <2>5 DEF f
  <2> QED
    BY <1>2, <2>1, <2>3, <2>5, <2>6 DEF BatchEnds
<1> QED
  BY <1>4, <1>5

-----------------------------------------------------------------------------
(* The pages that are told of changes.                                    *)
Screens == {"board", "detail"}

Told(w, r) == IF w = "board" THEN TellsBoard(r) ELSE TellsDetail(r)

(* No notice is under way to page w, and no change was left unannounced.   *)
Silent(w) == ~notice /\ ~unseen[w]

(* Nothing happened that page w need be told of.                           *)
Kept(w) == Silent(w)' => Silent(w) /\ rows' = rows

WorldTyped ==
  /\ RowsTyped /\ joining \subseteq born /\ notice \in BOOLEAN
  /\ unseen \in [{"board", "detail"} -> BOOLEAN]

(* The server took request n on and made s of it.                          *)
Served(n, s) ==
  /\ n \in DOMAIN flight /\ s \in Underway /\ Same(s, flight[n])
  /\ flight' = [flight EXCEPT ![n] = s] /\ WorldTyped'
  /\ \A w \in Screens : Kept(w) \/ Told(w, s)
  /\ \A w \in Screens : Told(w, flight[n]) => Told(w, s)
  /\ Loader(s) = "board" /\ s.ok => rows' = rows /\ s.data = Listing(s.field = "all", s.value)
  /\ Loader(s) = "detail" /\ s.ok => rows' = rows /\ s.on \in DOMAIN rows /\ s.data = rows[s.on]

-----------------------------------------------------------------------------
LEMMA EditedTyped ==
  ASSUME NEW row \in Row, NEW r, <<r.field, r.value>> \in Change
  PROVE  Edited(row, r) \in Row
<1>1. CASE r.field = "status"
  <2>1. r.value \in Status
    BY <1>1 DEF Change
  <2> DEFINE v == r.value
  <2>2. Edited(row, r) = [row EXCEPT !.status = v] /\ v \in Status
    BY <1>1, <2>1 DEF Edited
  <2> HIDE DEF v
  <2> QED
    BY <2>2 DEF Row
<1>2. CASE r.field = "proof"
  <2> DEFINE v == r.value = "yes"
  <2>1. Edited(row, r) = [row EXCEPT !.proof = v] /\ v \in BOOLEAN
    BY <1>2 DEF Edited
  <2> HIDE DEF v
  <2> QED
    BY <2>1 DEF Row
<1>3. CASE r.field = "owner"
  <2>1. r.value \in {None, Me, Other}
    BY <1>3 DEF Change
  <2> DEFINE v == r.value
  <2>2. Edited(row, r) = [row EXCEPT !.owner = v] /\ v \in {None, Me, Other}
    BY <1>3, <2>1 DEF Edited
  <2> HIDE DEF v
  <2> QED
    BY <2>2 DEF Row
<1>4. CASE r.field = "other"
  <2> DEFINE v == row.rev + 1
  <2>1. Edited(row, r) = [row EXCEPT !.rev = v]
    BY <1>4 DEF Edited
  <2>2. v \in Nat
    BY DEF Row
  <2> HIDE DEF v
  <2> QED
    BY <2>1, <2>2 DEF Row
<1>5. CASE r.field = "kept"
  BY <1>5 DEF Edited
<1> QED
  BY <1>1, <1>2, <1>3, <1>4, <1>5 DEF Change

LEMMA UpdatedTyped ==
  ASSUME NEW row \in Row, NEW r, <<r.field, r.value>> \in Change, NEW new \in Updated(row, r)
  PROVE  new \in Row
<1> DEFINE e == Edited(row, r)
           v == e.closedAt \/ Closing(e)
<1>1. e \in Row
  BY EditedTyped
<1>2. new = [e EXCEPT !.closedAt = v]
  BY DEF Updated
<1>3. v \in BOOLEAN
  BY <1>1 DEF Row
<1> HIDE DEF e, v
<1> QED
  BY <1>1, <1>2, <1>3 DEF Row

(* One row is changed, added, or taken away with what refers to it.        *)
LEMMA RowTyped ==
  ASSUME RowsTyped, NEW t \in DOMAIN rows
  PROVE  rows[t] \in Row /\ t \in Task
BY DEF RowsTyped, Listed

LEMMA OneChanged ==
  ASSUME RowsTyped, NEW t \in DOMAIN rows, NEW row \in Row, rows' = [rows EXCEPT ![t] = row], born' = born
  PROVE  RowsTyped' /\ DOMAIN rows' = DOMAIN rows
<1>1. PICK D \in SUBSET Task : rows \in [D -> Row]
  BY DEF RowsTyped, Listed
<1>2. rows' \in [D -> Row] /\ DOMAIN rows' = DOMAIN rows
  BY <1>1
<1> QED
  BY <1>2 DEF RowsTyped, Listed

LEMMA OneAdded ==
  ASSUME RowsTyped, NEW t \in Task, NEW row \in Row, rows' = Added(t, row), born' = born \cup {t}
  PROVE  RowsTyped'
<1>1. PICK D \in SUBSET Task : rows \in [D -> Row]
  BY DEF RowsTyped, Listed
<1>2. rows' \in [D \cup {t} -> Row] /\ D \cup {t} \in SUBSET Task
  BY <1>1 DEF Added
<1> QED
  BY <1>1, <1>2 DEF RowsTyped, Listed

LEMMA OneErased ==
  ASSUME RowsTyped, NEW t, Erase(t), born' = born
  PROVE  RowsTyped'
<1>1. PICK D \in SUBSET Task : rows \in [D -> Row]
  BY DEF RowsTyped, Listed
<1>2. \A u \in D : [rows[u] EXCEPT !.blockers = @ \ {t}] \in Row
  <2> SUFFICES ASSUME NEW u \in D PROVE [rows[u] EXCEPT !.blockers = @ \ {t}] \in Row
    OBVIOUS
  <2> DEFINE row == rows[u]
             x == row.blockers \ {t}
  <2>1. row \in Row /\ x \in SUBSET Task
    BY <1>1 DEF Row
  <2>2. [rows[u] EXCEPT !.blockers = @ \ {t}] = [row EXCEPT !.blockers = x]
    OBVIOUS
  <2> HIDE DEF row, x
  <2>3. [row EXCEPT !.blockers = x] \in Row
    BY <2>1 DEF Row
  <2> QED
    BY <2>2, <2>3 DEF row
<1>3. rows' = [u \in D \ {t} |-> [rows[u] EXCEPT !.blockers = @ \ {t}]]
  BY <1>1 DEF Erase
<1>4. rows' \in [D \ {t} -> Row] /\ D \ {t} \in SUBSET Task
  BY <1>2, <1>3
<1> QED
  BY <1>1, <1>4 DEF RowsTyped, Listed

LEMMA FreshTyped ==
  ASSUME NEW status \in Status
  PROVE  Fresh(status) \in Row /\ [Fresh(status) EXCEPT !.member = FALSE] \in Row
<1>1. Fresh(status) \in Row
  BY DEF Fresh, Row
<1> QED
  BY <1>1 DEF Row

-----------------------------------------------------------------------------
(* The end of a request that does not read.                                *)
LEMMA EndedPlain ==
  ASSUME Typed, NEW n \in DOMAIN flight, flight[n].op \notin Reads, NEW ok \in BOOLEAN
  PROVE  /\ Ended(flight[n], ok, None) \in Underway /\ Same(Ended(flight[n], ok, None), flight[n])
         /\ Ended(flight[n], ok, None).stage = "done" /\ Ended(flight[n], ok, None).ok = ok
<1> DEFINE r == flight[n]
<1>1. r \in Message /\ WellAsked(r)
  BY ElementOfSeq DEF Typed, Underway
<1>2. r.op \notin Listings \cup {"picker"} /\ r.op # "fetch"
  BY DEF Reads
<1> HIDE DEF r
<1>3. /\ Ended(r, ok, None) \in Underway
      /\ Ended(r, ok, None).op = r.op /\ Ended(r, ok, None).on = r.on
      /\ Ended(r, ok, None).field = r.field /\ Ended(r, ok, None).value = r.value
      /\ Ended(r, ok, None).heard = r.heard /\ Ended(r, ok, None).latest = r.latest
      /\ Ended(r, ok, None).stage = "done" /\ Ended(r, ok, None).ok = ok
  BY <1>1, <1>2, EndedTyped
<1> QED
  BY <1>3 DEF Same, r

(* A request that does not read and changes no row.                        *)
LEMMA ServedPlain ==
  ASSUME Typed, NEW n \in DOMAIN flight, flight[n].op \notin Reads, flight[n].stage # "done",
         NEW s \in Underway, Same(s, flight[n]), flight' = [flight EXCEPT ![n] = s],
         UNCHANGED <<serverVars, unseen>>
  PROVE  Served(n, s)
<1>1. Loader(s) = "none"
  BY DEF Same, Loader, Reads
<1>2. WorldTyped'
  BY DEF WorldTyped, Typed, RowsTyped, serverVars
<1>3. \A w \in Screens : Kept(w)
  BY DEF Kept, Silent, serverVars
<1>4. \A w \in Screens : Told(w, flight[n]) => Told(w, s)
  BY DEF Told, TellsBoard, TellsDetail, Same
<1> QED
  BY <1>1, <1>2, <1>3, <1>4 DEF Served

LEMMA RefuseServes ==
  ASSUME Typed, NEW n \in DOMAIN flight, flight[n].op \notin Reads, flight[n].stage # "done", Refuse(n)
  PROVE  \E s : Served(n, s)
<1> DEFINE s == Ended(flight[n], FALSE, None)
<1>1. s \in Underway /\ Same(s, flight[n])
  BY EndedPlain
<1>2. flight' = [flight EXCEPT ![n] = s] /\ UNCHANGED <<serverVars, unseen>>
  BY DEF Refuse
<1> HIDE DEF s
<1> QED
  BY <1>1, <1>2, ServedPlain

(* Who reloads after its own request is told of it by the answer.          *)
LEMMA AnnounceTells ==
  ASSUME Typed, NEW n \in DOMAIN flight, NEW touched, Announce(Asker(flight[n]), touched),
         flight[n].op \in Updates \cup {"delete", "erase", "batchdel", "comment", "block", "unblock",
                                        "join", "part"},
         NEW s, Same(s, flight[n]), s.stage = "done", s.ok
  PROVE  /\ \A w \in Screens : Kept(w) \/ Told(w, s)
         /\ notice' \in BOOLEAN /\ unseen' \in [{"board", "detail"} -> BOOLEAN]
<1>1. notice \in BOOLEAN /\ unseen \in [Screens -> BOOLEAN]
  BY DEF Typed, Screens
<1>2. CASE notice' = TRUE /\ UNCHANGED unseen
  BY <1>1, <1>2 DEF Kept, Silent, Screens
<1>3. CASE /\ notice' = notice
           /\ unseen' = [w \in DOMAIN unseen |-> unseen[w] \/ w \notin Asker(flight[n])]
  <2>1. unseen' \in [Screens -> BOOLEAN] /\ notice' \in BOOLEAN
    BY <1>1, <1>3
  <2>2. \A w \in Screens : w \notin Asker(flight[n]) => Kept(w)
    BY <1>1, <1>3 DEF Kept, Silent
  <2>3. ASSUME NEW w \in Screens, w \in Asker(flight[n]) PROVE Told(w, s)
    <3>1. CASE flight[n].op \in {"update", "delete", "comment", "block", "unblock"}
      BY <2>3, <3>1 DEF Asker, Told, TellsDetail, Same
    <3>2. CASE flight[n].op \notin {"update", "delete", "comment", "block", "unblock"}
      BY <2>3, <3>2 DEF Asker, Told, TellsBoard, Same, Updates
    <3> QED
      BY <3>1, <3>2
  <2> QED
    BY <2>1, <2>2, <2>3 DEF Screens
<1> QED
  BY <1>2, <1>3 DEF Announce

(* A change of the database that is done.                                  *)
LEMMA ServedChange ==
  ASSUME Typed, NEW n \in DOMAIN flight,
         flight[n].op \in Updates \cup {"delete", "erase", "batchdel", "comment", "block", "unblock",
                                        "join", "part"},
         flight[n].stage # "done", NEW touched, Announce(Asker(flight[n]), touched),
         RowsTyped', joining' \subseteq born',
         flight' = [flight EXCEPT ![n] = Ended(@, TRUE, None)]
  PROVE  \E s : Served(n, s)
<1> DEFINE s == Ended(flight[n], TRUE, None)
<1>1. flight[n].op \notin Reads
  BY DEF Reads, Listings, Updates
<1>2. s \in Underway /\ Same(s, flight[n]) /\ s.stage = "done" /\ s.ok
  BY <1>1, EndedPlain
<1>3. flight' = [flight EXCEPT ![n] = s]
  OBVIOUS
<1> HIDE DEF s
<1>4. /\ \A w \in Screens : Kept(w) \/ Told(w, s)
      /\ notice' \in BOOLEAN /\ unseen' \in [{"board", "detail"} -> BOOLEAN]
  BY <1>2, AnnounceTells
<1>5. \A w \in Screens : Told(w, flight[n]) => Told(w, s)
  BY <1>2 DEF Told, TellsBoard, TellsDetail, Same
<1>6. Loader(s) = "none"
  BY <1>1, <1>2 DEF Same, Loader, Reads
<1>7. WorldTyped'
  BY <1>4 DEF WorldTyped
<1> QED
  BY <1>2, <1>3, <1>4, <1>5, <1>6, <1>7 DEF Served

LEMMA SaveServes ==
  ASSUME Typed, NEW n \in DOMAIN flight,
         flight[n].op \in Updates \cup {"comment", "block", "unblock", "join", "part"},
         flight[n].stage # "done", flight[n].on \in DOMAIN rows, NEW row \in Row, Save(n, row)
  PROVE  \E s : Served(n, s)
<1>1. RowsTyped' /\ joining' \subseteq born'
  BY OneChanged DEF Save, Typed
<1> QED
  BY <1>1, ServedChange DEF Save

-----------------------------------------------------------------------------
(* The server's steps.                                                    *)
LEMMA RequestTyped ==
  ASSUME Typed, NEW n \in DOMAIN flight
  PROVE  flight[n] \in Message /\ flight[n] \in Underway /\ WellAsked(flight[n]) /\ WellAnswered(flight[n])
BY ElementOfSeq DEF Typed, Underway

LEMMA ReadRowServes ==
  ASSUME Typed, NEW n \in DOMAIN flight, ReadRow(n)
  PROVE  \E s : Served(n, s)
<1> DEFINE r == flight[n]
<1>1. r.stage = "asked" /\ r.op \in Updates /\ r.op \notin Reads /\ r.stage # "done"
  BY DEF ReadRow, Updates, Reads, Listings
<1>2. r \in Message /\ WellAsked(r)
  BY RequestTyped
<1>3. CASE Refuse(n)
  BY <1>1, <1>3, RefuseServes
<1>4. CASE /\ r.on \in DOMAIN rows
           /\ flight' = [flight EXCEPT ![n].stage = "read", ![n].data = rows[r.on]]
           /\ UNCHANGED <<serverVars, unseen>>
  <2> DEFINE g == "read"
             x == rows[r.on]
             s == [r EXCEPT !.stage = g, !.data = x]
  <2>1. g \in {"asked", "read", "done", "lost"} /\ x \in Row
    BY <1>4, RowTyped DEF Typed
  <2>2. flight' = [flight EXCEPT ![n] = s]
    BY <1>4
  <2> HIDE DEF r, x
  <2>3. s.stage = "read"
    BY <1>2 DEF Message
  <2> HIDE DEF g
  <2>4. s \in Message /\ Same(s, r) /\ s.data = x
    BY <1>2, <2>1 DEF Message, Same
  <2> HIDE DEF s
  <2>5. s \in Underway
    BY <1>1, <1>2, <2>1, <2>3, <2>4 DEF Underway, WellAsked, WellAnswered, Same, Reads
  <2>6. Served(n, s)
    BY <1>1, <1>4, <2>2, <2>4, <2>5, ServedPlain DEF r
  <2> QED
    BY <2>6
<1> QED
  BY <1>3, <1>4 DEF ReadRow

LEMMA WriteRowServes ==
  ASSUME Typed, NEW n \in DOMAIN flight, WriteRow(n)
  PROVE  \E s : Served(n, s)
<1> DEFINE r == flight[n]
<1>1. r.stage = "read" /\ r.op \in Updates /\ r.op \notin Reads /\ r.stage # "done"
  BY DEF WriteRow, Updates, Reads, Listings
<1>2. r.data \in Row /\ <<r.field, r.value>> \in Change
  BY <1>1, RequestTyped DEF WellAsked, WellAnswered
<1>3. CASE Refuse(n)
  BY <1>1, <1>3, RefuseServes
<1>4. CASE ~(Updated(r.data, r) = {} \/ r.on \notin DOMAIN rows)
  <2>1. PICK new \in Updated(r.data, r) :
          Save(n, [new EXCEPT !.member = rows[r.on].member, !.talk = rows[r.on].talk,
                              !.blockers = rows[r.on].blockers])
    BY <1>4 DEF WriteRow
  <2>2. new \in Row /\ rows[r.on] \in Row
    BY <1>2, <1>4, UpdatedTyped, RowTyped DEF Typed
  <2> DEFINE m == rows[r.on].member
             k == rows[r.on].talk
             b == rows[r.on].blockers
             row == [new EXCEPT !.member = m, !.talk = k, !.blockers = b]
  <2>3. m \in BOOLEAN /\ k \in Nat /\ b \in SUBSET Task
    BY <2>2 DEF Row
  <2>4. Save(n, row)
    BY <2>1
  <2> HIDE DEF m, k, b
  <2>5. row \in Row
    BY <2>2, <2>3 DEF Row
  <2> HIDE DEF row
  <2> QED
    BY <1>1, <1>4, <2>4, <2>5, SaveServes
<1> QED
  BY <1>3, <1>4 DEF WriteRow

LEMMA ServeDeleteServes ==
  ASSUME Typed, NEW n \in DOMAIN flight, ServeDelete(n)
  PROVE  \E s : Served(n, s)
<1> DEFINE r == flight[n]
<1>1. r.stage # "done" /\ r.op \in {"delete", "erase", "batchdel"} /\ r.op \notin Reads
  BY DEF ServeDelete, Reads, Listings
<1>2. CASE Refuse(n)
  BY <1>1, <1>2, RefuseServes
<1>3. CASE /\ r.on \in DOMAIN rows /\ Erase(r.on)
           /\ Announce(Asker(r), {r.on} \cup Waiting(r.on))
           /\ flight' = [flight EXCEPT ![n] = Ended(@, TRUE, None)]
           /\ joining' = joining \ {r.on} /\ UNCHANGED born
  <2>1. RowsTyped' /\ joining' \subseteq born'
    BY <1>3, OneErased DEF Typed
  <2> QED
    BY <1>1, <1>3, <2>1, ServedChange
<1> QED
  BY <1>2, <1>3 DEF ServeDelete

LEMMA ServeCreateServes ==
  ASSUME Typed, NEW n \in DOMAIN flight, ServeCreate(n)
  PROVE  \E s : Served(n, s)
<1> DEFINE r == flight[n]
           s == Ended(r, TRUE, None)
<1>1. r.stage = "asked" /\ r.op = "create" /\ r.op \notin Reads
  BY DEF ServeCreate, Reads, Listings
<1>2. r.value \in Status
  BY <1>1, RequestTyped DEF WellAsked
<1>3. PICK t \in Task \ born :
        /\ born' = born \cup {t}
        /\ rows' = Added(t, Fresh(IF mode = "session" THEN "open" ELSE r.value))
        /\ IF mode = "session" THEN notice' = TRUE /\ UNCHANGED unseen
           ELSE notice' = notice /\ unseen' = [unseen EXCEPT !["detail"] = TRUE]
        /\ flight' = [flight EXCEPT ![n] = Ended(@, TRUE, None)]
        /\ UNCHANGED joining
  BY DEF ServeCreate
<1>4. Fresh(IF mode = "session" THEN "open" ELSE r.value) \in Row
  BY <1>2, FreshTyped DEF Status
<1>5. WorldTyped'
  <2>1. RowsTyped'
    BY <1>3, <1>4, OneAdded DEF Typed
  <2> QED
    BY <1>3, <2>1 DEF WorldTyped, Typed
<1>6. s \in Underway /\ Same(s, r) /\ s.stage = "done" /\ s.ok
  BY <1>1, EndedPlain
<1>7. flight' = [flight EXCEPT ![n] = s]
  BY <1>3
<1> HIDE DEF s
<1>8. \A w \in Screens : Kept(w) \/ Told(w, s)
  <2>1. unseen \in [Screens -> BOOLEAN]
    BY DEF Typed, Screens
  <2>2. Told("board", s)
    BY <1>1, <1>6 DEF Told, TellsBoard, Same
  <2>3. Kept("detail")
    BY <1>3, <2>1 DEF Kept, Silent, Screens
  <2> QED
    BY <2>2, <2>3 DEF Screens
<1>9. \A w \in Screens : Told(w, r) => Told(w, s)
  BY <1>1, <1>6 DEF Told, TellsBoard, TellsDetail, Same
<1>10. Loader(s) = "none"
  BY <1>1, <1>6 DEF Same, Loader, Listings
<1>11. Served(n, s)
  BY <1>5, <1>6, <1>7, <1>8, <1>9, <1>10 DEF Served
<1> QED
  BY <1>11

LEMMA CheckCycleServes ==
  ASSUME Typed, NEW n \in DOMAIN flight, CheckCycle(n)
  PROVE  \E s : Served(n, s)
<1> DEFINE r == flight[n]
<1>1. r.stage = "asked" /\ r.op = "block" /\ r.op \notin Reads /\ r.op \notin Updates
  BY DEF CheckCycle, Updates, Reads, Listings
<1>2. r \in Message /\ WellAsked(r)
  BY RequestTyped
<1>3. CASE Refuse(n)
  BY <1>1, <1>3, RefuseServes
<1>4. CASE flight' = [flight EXCEPT ![n].stage = "read"] /\ UNCHANGED <<serverVars, unseen>>
  <2> DEFINE g == "read"
             s == [r EXCEPT !.stage = g]
  <2>1. g \in {"asked", "read", "done", "lost"}
    OBVIOUS
  <2>2. flight' = [flight EXCEPT ![n] = s]
    BY <1>4
  <2> HIDE DEF r, g
  <2>4. s \in Message /\ Same(s, r)
    BY <1>2, <2>1 DEF Message, Same
  <2> HIDE DEF s
  <2>5. s \in Underway
    <3>1. s.op = "block"
      BY <1>1, <2>4 DEF Same
    <3> QED
      BY <2>4, <3>1 DEF Underway, WellAsked, WellAnswered, Reads, Listings, Updates
  <2>6. Served(n, s)
    BY <1>1, <1>4, <2>2, <2>4, <2>5, ServedPlain DEF r
  <2> QED
    BY <2>6
<1> QED
  BY <1>3, <1>4 DEF CheckCycle

LEMMA ServeChangeServes ==
  ASSUME Typed, NEW n \in DOMAIN flight, ServeChange(n)
  PROVE  \E s : Served(n, s)
<1> DEFINE r == flight[n]
           t == r.on
<1>1. r.op \in {"comment", "block", "unblock", "join", "part"} /\ r.stage # "done" /\ r.op \notin Reads
  BY DEF ServeChange, Reads, Listings
<1>2. CASE Refuse(n)
  BY <1>1, <1>2, RefuseServes
<1>3. CASE t \in DOMAIN rows /\ ~(r.op = "block" /\ r.value \notin DOMAIN rows \ rows[t].blockers) /\ ~Refuse(n)
  <2> DEFINE row == rows[t]
             k == row.talk + 1
             b == row.blockers \cup {r.value}
             c == row.blockers \ {r.value}
             v == TRUE
             f == FALSE
  <2>1. row \in Row
    BY <1>3, RowTyped DEF Typed
  <2>2. row.talk \in Nat /\ row.blockers \in SUBSET Task
    BY <2>1 DEF Row
  <2>3. k \in Nat /\ c \in SUBSET Task /\ v \in BOOLEAN /\ f \in BOOLEAN
    BY <2>2
  <2>4. r.op = "block" => b \in SUBSET Task
    <3>1. DOMAIN rows \subseteq Task
      BY DEF Typed, RowsTyped
    <3> QED
      BY <1>3, <2>2, <3>1
  <2>5. Save(n, CASE r.op = "comment" -> [row EXCEPT !.talk = k]
                  [] r.op = "block"   -> [row EXCEPT !.blockers = b]
                  [] r.op = "unblock" -> [row EXCEPT !.blockers = c]
                  [] r.op = "join"    -> [row EXCEPT !.member = v]
                  [] r.op = "part"    -> [row EXCEPT !.member = f])
    BY <1>3 DEF ServeChange
  <2> HIDE DEF row, k, b, c, v, f
  <2>6. /\ [row EXCEPT !.talk = k] \in Row /\ [row EXCEPT !.blockers = c] \in Row
        /\ [row EXCEPT !.member = v] \in Row /\ [row EXCEPT !.member = f] \in Row
        /\ r.op = "block" => [row EXCEPT !.blockers = b] \in Row
    BY <2>1, <2>3, <2>4 DEF Row
  <2>7. \E new \in Row : Save(n, new)
    <3>1. CASE r.op = "comment"
      BY <2>5, <2>6, <3>1
    <3>2. CASE r.op = "block"
      BY <2>5, <2>6, <3>2
    <3>3. CASE r.op = "unblock"
      BY <2>5, <2>6, <3>3
    <3>4. CASE r.op = "join"
      BY <2>5, <2>6, <3>4
    <3>5. CASE r.op = "part"
      BY <2>5, <2>6, <3>5
    <3> QED
      BY <1>1, <3>1, <3>2, <3>3, <3>4, <3>5
  <2> QED
    BY <1>1, <1>3, <2>7, SaveServes
<1> QED
  BY <1>2, <1>3 DEF ServeChange

LEMMA ServeSprintServes ==
  ASSUME Typed, NEW n \in DOMAIN flight, ServeSprint(n)
  PROVE  \E s : Served(n, s)
<1> DEFINE s == Ended(flight[n], TRUE, None)
<1>1. flight[n].op \notin Reads /\ flight[n].stage # "done"
  BY DEF ServeSprint, Reads, Listings
<1>2. s \in Underway /\ Same(s, flight[n])
  BY <1>1, EndedPlain
<1>3. flight' = [flight EXCEPT ![n] = s] /\ UNCHANGED <<serverVars, unseen>>
  BY DEF ServeSprint
<1> HIDE DEF s
<1> QED
  BY <1>1, <1>2, <1>3, ServedPlain

(* A request that reads and changes no row.                                *)
LEMMA ServedRead ==
  ASSUME Typed, NEW n \in DOMAIN flight, flight[n].op \in Reads,
         NEW s \in Underway, Same(s, flight[n]), flight' = [flight EXCEPT ![n] = s],
         UNCHANGED <<serverVars, unseen>>,
         Loader(s) = "board" /\ s.ok => s.data = Listing(s.field = "all", s.value),
         Loader(s) = "detail" /\ s.ok => s.on \in DOMAIN rows /\ s.data = rows[s.on]
  PROVE  Served(n, s)
<1>1. WorldTyped' /\ rows' = rows
  BY DEF WorldTyped, Typed, RowsTyped, serverVars
<1>2. \A w \in Screens : Kept(w)
  BY DEF Kept, Silent, serverVars
<1>3. \A w \in Screens : ~Told(w, flight[n])
  BY DEF Told, TellsBoard, TellsDetail, Reads, Listings
<1> QED
  BY <1>1, <1>2, <1>3 DEF Served

LEMMA SentData ==
  ASSUME NEW r
  PROVE  /\ r.op \in Listings => Sent(r) = Ended(r, TRUE, Listing(r.field = "all", r.value))
         /\ r.op = "fetch" => Sent(r) = IF r.on \in DOMAIN rows THEN Ended(r, TRUE, rows[r.on])
                                        ELSE Ended(r, FALSE, None)
BY DEF Sent, Listings

(* What a load has got when it is sent.                                    *)
LEMMA SentAnswers ==
  ASSUME NEW r \in Message
  PROVE  /\ r.op \in Listings =>
              Sent(r).ok /\ Sent(r).data = Listing(r.field = "all", r.value)
         /\ r.op = "fetch" /\ Sent(r).ok => r.on \in DOMAIN rows /\ Sent(r).data = rows[r.on]
<1>1. CASE r.op \in Listings
  <2> DEFINE d == Listing(r.field = "all", r.value)
  <2>1. Sent(r) = Ended(r, TRUE, d)
    BY <1>1, SentData
  <2>2. r.op # "fetch"
    BY <1>1 DEF Listings
  <2> HIDE DEF d
  <2>3. Sent(r).ok /\ Sent(r).data = d
    BY <2>1 DEF Ended, Message
  <2> QED
    BY <1>1, <2>2, <2>3 DEF d
<1>2. CASE r.op = "fetch"
  <2>1. r.op \notin Listings
    BY <1>2 DEF Listings
  <2>2. CASE r.on \in DOMAIN rows
    <3> DEFINE d == rows[r.on]
    <3>1. Sent(r) = Ended(r, TRUE, d)
      BY <1>2, <2>2, SentData
    <3> HIDE DEF d
    <3>2. Sent(r).data = d
      BY <3>1 DEF Ended, Message
    <3> QED
      BY <2>1, <2>2, <3>2 DEF d
  <2>3. CASE r.on \notin DOMAIN rows
    <3>1. Sent(r) = Ended(r, FALSE, None)
      BY <1>2, <2>3, SentData
    <3>2. Sent(r).ok = FALSE
      BY <3>1 DEF Ended, Message
    <3> QED
      BY <2>1, <3>2
  <2> QED
    BY <2>2, <2>3
<1> QED
  BY <1>1, <1>2

LEMMA ServeAgainServes ==
  ASSUME Typed, NEW n \in DOMAIN flight, ServeAgain(n)
  PROVE  \E s : Served(n, s)
<1> DEFINE r == flight[n]
           s == Sent(r)
<1>1. r.op \in Reads /\ flight' = [flight EXCEPT ![n] = s] /\ UNCHANGED <<serverVars, unseen>>
  BY DEF ServeAgain
<1>2. r \in Message /\ WellAsked(r)
  BY RequestTyped
<1>3. s \in Underway /\ Same(s, r)
  BY <1>1, <1>2, SentTyped DEF Typed
<1>4. /\ r.op \in Listings => s.ok /\ s.data = Listing(r.field = "all", r.value)
      /\ r.op = "fetch" /\ s.ok => r.on \in DOMAIN rows /\ s.data = rows[r.on]
  BY <1>2, SentAnswers
<1> HIDE DEF s
<1>5. /\ Loader(s) = "board" => r.op \in Listings
      /\ Loader(s) = "detail" => r.op = "fetch"
      /\ s.field = r.field /\ s.value = r.value /\ s.on = r.on
  BY <1>3 DEF Same, Loader
<1>6. /\ Loader(s) = "board" /\ s.ok => s.data = Listing(s.field = "all", s.value)
      /\ Loader(s) = "detail" /\ s.ok => s.on \in DOMAIN rows /\ s.data = rows[s.on]
  BY <1>4, <1>5
<1>7. Served(n, s)
  BY <1>1, <1>3, <1>6, ServedRead
<1> QED
  BY <1>7

LEMMA ServeServes ==
  ASSUME Typed, Serve
  PROVE  \E n, s : Served(n, s)
BY ReadRowServes, WriteRowServes, ServeDeleteServes, ServeCreateServes, CheckCycleServes,
   ServeChangeServes, ServeSprintServes, ServeAgainServes DEF Serve

(* A request that is lost.                                                 *)
LEMMA FailServes ==
  ASSUME Typed, NEW n \in DOMAIN flight, Fail(n)
  PROVE  \E s : Served(n, s)
<1> DEFINE r == flight[n]
           g == "lost"
           f == FALSE
           x == None
           s == [r EXCEPT !.stage = g, !.ok = f, !.data = x]
<1>1. r \in Message /\ WellAsked(r)
  BY RequestTyped
<1>2. flight' = [flight EXCEPT ![n] = s] /\ UNCHANGED <<serverVars, unseen>>
  BY DEF Fail
<1>3. r.op \notin Reads => r.stage # "done"
  BY DEF Fail
<1>4. /\ g \in {"asked", "read", "done", "lost"} /\ f \in BOOLEAN
      /\ x \in {None} \cup Listed \cup Row
  OBVIOUS
<1>7. g = "lost" /\ f = FALSE
  OBVIOUS
<1> HIDE DEF r, g, f, x
<1>5. s \in Message /\ Same(s, r) /\ s.stage = g /\ s.ok = f
  BY <1>1, <1>4 DEF Message, Same
<1> HIDE DEF s
<1>6. s \in Underway
  BY <1>1, <1>5, <1>7 DEF Underway, WellAsked, WellAnswered, Same
<1>8. CASE r.op \notin Reads
  BY <1>2, <1>3, <1>5, <1>6, <1>8, ServedPlain DEF r
<1>9. CASE r.op \in Reads
  BY <1>2, <1>5, <1>6, <1>7, <1>9, ServedRead DEF r
<1> QED
  BY <1>8, <1>9

-----------------------------------------------------------------------------
(* What others do: the rows change, and the clients are told or not.       *)
Happens == WorldTyped' /\ (\A w \in Screens : Kept(w)) /\ UNCHANGED flight

LEMMA AnnounceKeeps ==
  ASSUME Typed, NEW touched, Announce({}, touched)
  PROVE  /\ \A w \in Screens : Kept(w)
         /\ notice' \in BOOLEAN /\ unseen' \in [{"board", "detail"} -> BOOLEAN]
<1>1. notice \in BOOLEAN /\ unseen \in [Screens -> BOOLEAN]
  BY DEF Typed, Screens
<1>2. CASE notice' = TRUE /\ UNCHANGED unseen
  BY <1>1, <1>2 DEF Kept, Silent, Screens
<1>3. CASE /\ notice' = notice
           /\ unseen' = [w \in DOMAIN unseen |-> unseen[w] \/ w \notin {}]
  BY <1>1, <1>3 DEF Kept, Silent, Screens
<1> QED
  BY <1>2, <1>3 DEF Announce

LEMMA NoneHears ==
  ASSUME Typed
  PROVE  /\ unseen' = [w \in DOMAIN unseen |-> TRUE]
              => (\A w \in Screens : Kept(w)) /\ unseen' \in [{"board", "detail"} -> BOOLEAN]
         /\ notice' = TRUE => \A w \in Screens : Kept(w)
<1>1. unseen \in [Screens -> BOOLEAN]
  BY DEF Typed, Screens
<1> QED
  BY <1>1 DEF Kept, Silent, Screens

LEMMA ForeignUpdateHappens ==
  ASSUME Typed, NEW t, ForeignUpdate(t)
  PROVE  Happens
<1>1. t \in DOMAIN rows /\ rows[t] \in Row
  BY RowTyped DEF ForeignUpdate, Typed
<1>2. PICK r \in {Request("update", t, "status", "in_progress"), Request("update", t, "proof", "no")} :
        \E new \in Updated(rows[t], r) : rows' = [rows EXCEPT ![t] = new]
  BY DEF ForeignUpdate
<1>3. <<r.field, r.value>> \in Change
  BY <1>2 DEF Request, Change, Status
<1>4. PICK new \in Updated(rows[t], r) : rows' = [rows EXCEPT ![t] = new]
  BY <1>2
<1>5. new \in Row
  BY <1>1, <1>3, UpdatedTyped
<1>6. RowsTyped' /\ joining' \subseteq born'
  BY <1>1, <1>4, <1>5, OneChanged DEF ForeignUpdate, Typed
<1>7. Announce({}, {t}) /\ UNCHANGED flight
  BY DEF ForeignUpdate, Foreign
<1> QED
  BY <1>6, <1>7, AnnounceKeeps DEF Happens, WorldTyped

LEMMA ForeignDeleteHappens ==
  ASSUME Typed, NEW t, ForeignDelete(t)
  PROVE  Happens
<1>1. RowsTyped' /\ joining' \subseteq born'
  BY OneErased DEF ForeignDelete, Typed
<1>2. Announce({}, {t} \cup Waiting(t)) /\ UNCHANGED flight
  BY DEF ForeignDelete, Foreign
<1> QED
  BY <1>1, <1>2, AnnounceKeeps DEF Happens, WorldTyped

LEMMA ForeignCreateHappens ==
  ASSUME Typed, NEW t \in Task, ForeignCreate(t)
  PROVE  Happens
<1>1. [Fresh("open") EXCEPT !.member = FALSE] \in Row
  BY FreshTyped DEF Status
<1>2. RowsTyped'
  BY <1>1, OneAdded DEF ForeignCreate, Typed
<1>3. joining' \subseteq born'
  BY DEF ForeignCreate, Typed
<1>4. notice' = TRUE /\ UNCHANGED <<unseen, flight>>
  BY DEF ForeignCreate, Foreign
<1> QED
  BY <1>2, <1>3, <1>4, NoneHears DEF Happens, WorldTyped, Typed

LEMMA ForeignJoinHappens ==
  ASSUME Typed, NEW t, ForeignJoin(t)
  PROVE  Happens
<1>1. PICK D \in SUBSET Task : rows \in [D -> Row]
  BY DEF Typed, RowsTyped, Listed
<1>2. rows' = [rows EXCEPT ![t].member = TRUE] /\ UNCHANGED <<born, notice, flight>>
      /\ joining' = joining \ {t} /\ unseen' = [w \in DOMAIN unseen |-> TRUE]
  BY DEF ForeignJoin
<1>3. rows' \in [D -> Row]
  <2>1. CASE t \in D
    <3> DEFINE v == TRUE
               row == [rows[t] EXCEPT !.member = v]
    <3>1. v \in BOOLEAN /\ rows[t] \in Row
      BY <1>1, <2>1
    <3>2. rows' = [rows EXCEPT ![t] = row]
      BY <1>2
    <3> HIDE DEF v
    <3>3. row \in Row
      BY <3>1 DEF Row
    <3> HIDE DEF row
    <3> QED
      BY <1>1, <3>2, <3>3
  <2>2. CASE t \notin D
    BY <1>1, <1>2, <2>2
  <2> QED
    BY <2>1, <2>2
<1>4. RowsTyped'
  BY <1>1, <1>2, <1>3 DEF RowsTyped, Listed, Typed
<1> QED
  BY <1>2, <1>4, NoneHears DEF Happens, WorldTyped, Typed

LEMMA LoseNoticeHappens ==
  ASSUME Typed, LoseNotice
  PROVE  Happens
<1>1. UNCHANGED <<rows, born, joining, flight>> /\ notice' = FALSE
      /\ unseen' = [w \in DOMAIN unseen |-> TRUE]
  BY DEF LoseNotice
<1> QED
  BY <1>1, NoneHears DEF Happens, WorldTyped, Typed, RowsTyped

LEMMA OthersHappen ==
  ASSUME Typed, Others
  PROVE  Happens /\ UNCHANGED mode
BY ForeignUpdateHappens, ForeignDeleteHappens, ForeignCreateHappens, ForeignJoinHappens,
   LoseNoticeHappens
DEF Others, ForeignUpdate, ForeignDelete, ForeignCreate, ForeignJoin, LoseNotice, Foreign

-----------------------------------------------------------------------------
(* Only a detail that is there is answered.                                *)
Attended ==
  \A n \in DOMAIN flight : OfDetail(flight[n]) /\ flight[n].heard => detail.id # None

LEMMA NavigateSettles ==
  ASSUME Typed, Addressed(board), Rendered, NavigateTask
  PROVE  Settles
<1>1. PICK t \in (detail.task.blockers \cup {Parent[detail.taskId]}) \ {None} : Local(Selected(board, t))
  BY DEF NavigateTask
<1>2. Shown /\ UNCHANGED detail
  BY DEF NavigateTask
<1>3. t \in Task
  <2>1. detail.task \in Row /\ detail.taskId \in Task
    BY <1>2 DEF Shown, Typed, Detail, Known
  <2>2. detail.task.blockers \subseteq Task /\ Parent[detail.taskId] \in Task \cup {None}
    BY <2>1 DEF Row
  <2> QED
    BY <1>1, <2>2
<1>4. board \in Board /\ board.open # None /\ board.url # None
  BY <1>2 DEF Typed, Shown, Rendered, Addressed
<1> DEFINE u == IF t \in DOMAIN board.shown THEN t ELSE board.url
           b == [board EXCEPT !.open = t, !.url = u]
<1>5. u \in Task \cup {None} /\ u # None
  BY <1>3, <1>4 DEF Board
<1>6. Local(b)
  BY <1>1 DEF Selected
<1> HIDE DEF u
<1>7. /\ b \in Board /\ b.busy = board.busy /\ b.loading = board.loading /\ b.dialog = board.dialog
      /\ SameList(b, board) /\ b.url = u
  BY <1>3, <1>4, <1>5 DEF Board, SameList
<1> HIDE DEF b
<1>8. Calm(b)
  BY <1>5, <1>7 DEF Calm, Steady, Addressed
<1>9. BoardSettles(0)
  BY <1>6, <1>8, BoardLocal DEF BoardSettles
<1> QED
  BY <1>2, <1>9, BoardSettled, NotZero
=============================================================================

----------------------------- MODULE HomeProofs -----------------------------
(* Theorems about Home, for any set of matches and of dates, any page size,  *)
(* and any number of refreshes and of deletions at once.                     *)
EXTENDS Home, FiniteSetTheorems, TLAPS

\* What the server might return for the page the bar names.
Named == PagesOf(home.page)

Pending(r) == refresh[r].list \in {"sent", "answered"}

\* A deletion done by the server that no request for the list has made good yet.
Unmade == \E d \in Deletions : deletion[d].answered

\* Only the newest request for the list counts: while the store is clean it asks for the
\* page the bar names, what it is answered is that page, and with it over the store has
\* the page, whatever earlier requests are still on their way.
Settled ==
    /\ newest # None => Pending(newest)
    /\ home.shown /\ clean /\ Unserved => refresh[newest].page = home.page
    /\ home.shown /\ clean /\ ~Unmade =>
          /\ newest = None => list \in Named
          /\ newest # None /\ refresh[newest].list = "answered" => refresh[newest].found \in Named

\* The spinner's cause is a refresh of which neither request has failed: one whose list
\* has failed ends with its number, and stops no spinner.
Whole(r) == refresh[r].mine /\ refresh[r].num # "none" /\ refresh[r].list # "none"

WholeRefresh == home.refreshing /\ ~failed => \E r \in Refreshes : Whole(r)

IInv == TypeOK /\ Settled /\ WholeRefresh


-----------------------------------------------------------------------------
(* Types.                                                                  *)

LEMMA PagesExist == MaxPage \in Nat /\ 1 \in 1..MaxPage
<1>1. PICK c : c = Cardinality(Matches)
  OBVIOUS
<1>2. c \in Nat /\ c # 0
  BY <1>1, MatchesAssumption, FS_CardinalityType, FS_EmptySet
<1>3. MaxPage = (c + Limit - 1) \div Limit
  BY <1>1 DEF MaxPage, TotalPages
<1>4. PICK d : d = c - 1
  OBVIOUS
<1>5. d \in Nat /\ c + Limit - 1 = d + Limit
  BY <1>2, <1>4, LimitAssumption
<1>6. (d + Limit) \div Limit \in Nat /\ (d + Limit) \div Limit >= 1
  BY <1>5, LimitAssumption
<1> QED
  BY <1>3, <1>5, <1>6

LEMMA CountsTyped ==
    /\ \A S \in SUBSET Matches : Cardinality(S) \in 0..Cardinality(Matches)
    /\ 0 \in 0..Cardinality(Matches)
<1>1. ASSUME NEW S \in SUBSET Matches
      PROVE  Cardinality(S) \in 0..Cardinality(Matches)
  <2>1. IsFiniteSet(S) /\ Cardinality(S) <= Cardinality(Matches)
    BY MatchesAssumption, FS_Subset
  <2>2. Cardinality(S) \in Nat /\ Cardinality(Matches) \in Nat
    BY <2>1, MatchesAssumption, FS_CardinalityType
  <2> QED
    BY <2>1, <2>2
<1> QED
  BY <1>1, MatchesAssumption, FS_CardinalityType

LEMMA AwayTyped == Away \in Homes
BY PagesExist DEF Away, Homes

LEMMA IdleTyped == IdleRefresh \in RefreshRecords /\ IdleDeletion \in DeletionRecords
BY PagesExist, CountsTyped DEF IdleRefresh, RefreshRecords, IdleDeletion, DeletionRecords, Halves

LEMMA FetchTyped ==
    ASSUME TypeOK, NEW h \in Homes, NEW page \in 1..MaxPage, Fetch(h, page)
    PROVE  /\ home' = [h EXCEPT !.refreshing = TRUE] /\ home' \in Homes
           /\ refresh' \in [Refreshes -> RefreshRecords]
           /\ newest' \in Refreshes \union {None}
           /\ clean' \in BOOLEAN /\ failed' \in BOOLEAN
<1>1. PICK r \in Refreshes : refresh' = [refresh EXCEPT ![r] = Both(page)] /\ newest' = r
  BY DEF Fetch
<1>2. Both(page) \in RefreshRecords
  BY IdleTyped DEF Both, RefreshRecords, Halves
<1> QED
  BY <1>1, <1>2 DEF Fetch, TypeOK, Homes

LEMMA PutTyped ==
    ASSUME TypeOK, NEW r \in Refreshes, NEW q \in RefreshRecords, Put(r, q)
    PROVE  /\ refresh' \in [Refreshes -> RefreshRecords]
           /\ home' \in Homes
           /\ failed' \in BOOLEAN
<1>1. Kept(q) \in RefreshRecords
  BY IdleTyped DEF Kept
<1>2. home' \in Homes
  BY DEF Put, TypeOK, Homes
<1> QED
  BY <1>1, <1>2 DEF Put, TypeOK, Homes

LEMMA InitStep == Init => IInv
<1> SUFFICES ASSUME Init PROVE IInv
  OBVIOUS
<1>1. listed \subseteq Matches /\ deleted \subseteq Matches /\ listed \intersect deleted = {}
  BY DEF Init
<1>2. changes \in 0..Changes /\ num \in 0..Cardinality(Matches)
  BY LimitAssumption, CountsTyped DEF Init
<1>3. TypeOK
  BY <1>1, <1>2, AwayTyped, IdleTyped DEF Init, TypeOK
<1>4. ~home.refreshing /\ ~clean /\ newest = None
  BY DEF Init, Away
<1> QED
  BY <1>3, <1>4 DEF IInv, Settled, WholeRefresh

LEMMA ElsewhereTyped ==
    ASSUME TypeOK, Elsewhere
    PROVE  TypeOK'
<1>1. changes' \in 0..Changes
  BY LimitAssumption DEF TypeOK, Elsewhere
<1>2. listed' \subseteq Matches /\ deleted' \subseteq Matches /\ listed' \intersect deleted' = {}
  BY DEF TypeOK, Elsewhere
<1>3. date' \in [Matches -> Days]
  BY DEF TypeOK, Elsewhere
<1>4. clean' \in BOOLEAN
  BY DEF TypeOK, Elsewhere, Unserved
<1> QED
  BY <1>1, <1>2, <1>3, <1>4 DEF TypeOK, Elsewhere, store

LEMMA ServeTyped ==
    ASSUME TypeOK, NEW r \in Refreshes, Serve(r)
    PROVE  TypeOK'
<1>1. refresh' \in [Refreshes -> RefreshRecords]
  <2>1. CASE ServeNum(r)
    <3>1. NumMatches \in 0..Cardinality(Matches)
      BY CountsTyped DEF TypeOK, NumMatches
    <3> QED
      BY <2>1, <3>1 DEF ServeNum, TypeOK, RefreshRecords, Halves
  <2>2. CASE ServeList(r)
    <3>1. PICK found \in PagesOf(refresh[r].page) :
             refresh' = [refresh EXCEPT ![r].list = "answered", ![r].found = found, ![r].page = 1]
      BY <2>2 DEF ServeList
    <3>2. found \subseteq Matches /\ refresh[r] \in RefreshRecords
      BY DEF PagesOf, TypeOK
    <3>3. [refresh[r] EXCEPT !.list = "answered", !.found = found, !.page = 1] \in RefreshRecords
      BY <3>2, PagesExist DEF RefreshRecords, Halves
    <3> QED
      BY <3>1, <3>3 DEF TypeOK
  <2> QED
    BY <2>1, <2>2 DEF Serve
<1> QED
  BY <1>1 DEF Serve, ServeNum, ServeList, TypeOK, server, store, history

LEMMA VisitTyped ==
    ASSUME TypeOK, Enter \/ Leave \/ Refresh \/ SignOut \/ \E page \in 1..MaxPage : Turn(page)
    PROVE  TypeOK'
<1>1. [Away EXCEPT !.shown = TRUE] \in Homes
  BY AwayTyped DEF Homes
<1>2. CASE Enter
  BY <1>1, <1>2, PagesExist, FetchTyped DEF Enter, TypeOK, server, store
<1>3. CASE Refresh
  <2>1. home \in Homes /\ home.page \in 1..MaxPage
    BY DEF TypeOK, Homes
  <2> QED
    BY <1>3, <2>1, FetchTyped DEF Refresh, TypeOK, server, store
<1>4. ASSUME NEW page \in 1..MaxPage, Turn(page)
      PROVE  TypeOK'
  <2>1. [home EXCEPT !.page = page] \in Homes
    BY DEF TypeOK, Homes
  <2> QED
    BY <1>4, <2>1, FetchTyped DEF Turn, TypeOK, server, store
<1>5. CASE SignOut
  <2>1. CASE home.shown
    BY <1>5, <2>1 DEF SignOut, TypeOK, server
  <2>2. CASE ~home.shown
    BY <1>1, <1>5, <2>2, PagesExist, FetchTyped DEF SignOut, TypeOK, server
  <2> QED
    BY <2>1, <2>2
<1>6. CASE Leave
  <2>1. refresh' \in [Refreshes -> RefreshRecords] /\ deletion' \in [Deletions -> DeletionRecords]
    BY <1>6 DEF Leave, TypeOK, RefreshRecords, DeletionRecords
  <2> QED
    BY <1>6, <2>1, AwayTyped DEF Leave, TypeOK, server, store
<1> QED
  BY <1>2, <1>3, <1>4, <1>5, <1>6

LEMMA AnswerTyped ==
    ASSUME TypeOK, NEW r \in Refreshes, Receive(r) \/ FailNum(r) \/ FailList(r)
    PROVE  TypeOK'
<1>1. refresh[r] \in RefreshRecords
  BY DEF TypeOK
<1>2. CASE ReceiveNum(r)
  <2>1. [refresh[r] EXCEPT !.num = "done", !.total = 0] \in RefreshRecords
    BY <1>1, CountsTyped DEF RefreshRecords, Halves
  <2>2. num' \in 0..Cardinality(Matches)
    BY <1>1, <1>2 DEF ReceiveNum, RefreshRecords
  <2> QED
    BY <1>2, <2>1, <2>2, PutTyped DEF ReceiveNum, TypeOK, server
<1>3. CASE ReceiveList(r)
  <2>1. [refresh[r] EXCEPT !.list = "done", !.found = {}] \in RefreshRecords
    BY <1>1 DEF RefreshRecords, Halves
  <2>2. list' \subseteq Matches
    BY <1>1, <1>3 DEF ReceiveList, RefreshRecords
  <2> QED
    BY <1>3, <2>1, <2>2, PutTyped DEF ReceiveList, TypeOK, server
<1>4. CASE FailNum(r)
  <2>1. [refresh[r] EXCEPT !.num = "none", !.total = 0] \in RefreshRecords
    BY <1>1, CountsTyped DEF RefreshRecords, Halves
  <2>2. failed' \in BOOLEAN
    BY <1>4 DEF FailNum, TypeOK, Homes, RefreshRecords
  <2> QED
    BY <1>4, <2>1, <2>2, IdleTyped DEF FailNum, Kept, TypeOK, server, store
<1>5. CASE FailList(r)
  <2>1. [refresh[r] EXCEPT !.list = "none", !.found = {}] \in RefreshRecords
    BY <1>1 DEF RefreshRecords, Halves
  <2>2. failed' \in BOOLEAN
    BY <1>5 DEF FailList, TypeOK, Homes, RefreshRecords
  <2> QED
    BY <1>5, <2>1, <2>2, IdleTyped DEF FailList, Kept, TypeOK, server, store
<1> QED
  BY <1>2, <1>3, <1>4, <1>5 DEF Receive

LEMMA DeletionTyped ==
    ASSUME TypeOK, NEW d \in Deletions,
           \/ Confirm(d) \/ ServeDeletion(d) \/ FailDeletion(d)
           \/ \E r \in Refreshes : ReceiveDeletion(d, r)
    PROVE  TypeOK'
<1>1. deletion[d] \in DeletionRecords
  BY DEF TypeOK
<1>2. CASE Confirm(d)
  <2>1. [match |-> home.modal, page |-> home.page, answered |-> FALSE, mine |-> TRUE]
           \in DeletionRecords
    BY DEF TypeOK, Homes, DeletionRecords
  <2> QED
    BY <1>2, <2>1 DEF Confirm, TypeOK, server, store, history
<1>3. CASE ServeDeletion(d)
  <2>1. [deletion[d] EXCEPT !.answered = TRUE] \in DeletionRecords
    BY <1>1 DEF DeletionRecords
  <2>2. listed' \subseteq Matches /\ deleted' \subseteq Matches /\ listed' \intersect deleted' = {}
    BY <1>3 DEF ServeDeletion, TypeOK
  <2> QED
    BY <1>3, <2>1, <2>2 DEF ServeDeletion, TypeOK, store, history
<1>4. CASE FailDeletion(d)
  <2>1. clean' \in BOOLEAN
    BY <1>4 DEF FailDeletion, Unserved, TypeOK
  <2> QED
    BY <1>4, <2>1, IdleTyped DEF FailDeletion, TypeOK, server, store
<1>5. ASSUME NEW r \in Refreshes, ReceiveDeletion(d, r)
      PROVE  TypeOK'
  <2>1. deletion[d].page \in 1..MaxPage
    BY <1>1 DEF DeletionRecords
  <2>2. [IdleRefresh EXCEPT !.list = "sent", !.page = deletion[d].page] \in RefreshRecords
    BY <2>1, IdleTyped DEF RefreshRecords, Halves
  <2>3. home' \in Homes /\ clean' \in BOOLEAN
    BY <1>5 DEF ReceiveDeletion, TypeOK, Homes
  <2> QED
    BY <1>5, <2>2, <2>3, IdleTyped DEF ReceiveDeletion, TypeOK, server, store
<1> QED
  BY <1>2, <1>3, <1>4, <1>5

LEMMA ModalTyped ==
    ASSUME TypeOK, Cancel \/ \E m \in Matches : OpenModal(m)
    PROVE  TypeOK'
BY DEF Cancel, OpenModal, TypeOK, Homes, server, store, history

LEMMA TypeStep ==
    ASSUME TypeOK, [Next]_vars
    PROVE  TypeOK'
<1>1. CASE UNCHANGED vars
  BY <1>1 DEF vars, server, store, history, TypeOK
<1> QED
  BY <1>1, ElsewhereTyped, ServeTyped, VisitTyped, AnswerTyped, DeletionTyped,
     ModalTyped DEF Next

-----------------------------------------------------------------------------
(* The store and the page the bar names.                                   *)

LEMMA NamedKept ==
    ASSUME UNCHANGED <<listed, date>>, home'.page = home.page
    PROVE  Named' = Named
BY DEF Named, PagesOf, Heads

\* The newest request is the one just made, for the page the bar will name.
LEMMA FetchSettles ==
    ASSUME TypeOK, NEW h \in Homes, NEW page \in 1..MaxPage, h.page = page, Fetch(h, page)
    PROVE  Settled'
<1>1. PICK r \in Refreshes : refresh' = [refresh EXCEPT ![r] = Both(page)] /\ newest' = r
  BY DEF Fetch
<1>2. refresh'[r].list = "sent" /\ refresh'[r].page = page
  BY <1>1 DEF Both, IdleRefresh, TypeOK
<1>3. home'.page = page /\ newest' # None
  BY <1>1, NoneAssumption DEF Fetch, Homes
<1> QED
  BY <1>1, <1>2, <1>3 DEF Settled, Pending

\* A step that leaves the newest request, the store and the server's list alone.  With
\* an earlier request still on its way the store may change.
LEMMA SettledKept ==
    ASSUME Settled, UNCHANGED <<listed, date, newest>>, clean' => clean,
           home'.shown => home.shown, home'.page = home.page, clean' /\ Unmade => Unmade',
           newest = None /\ clean' => list' = list,
           newest # None => /\ refresh'[newest].list = refresh[newest].list
                            /\ refresh'[newest].page = refresh[newest].page
                            /\ refresh'[newest].found = refresh[newest].found
    PROVE  Settled'
<1>1. Named' = Named
  BY NamedKept
<1>2. newest' # None => Pending(newest)'
  BY DEF Settled, Pending
<1>3. ASSUME home'.shown, clean', Unserved'
      PROVE  refresh'[newest'].page = home'.page
  BY <1>3 DEF Settled, Unserved
<1>4. ASSUME home'.shown, clean', ~Unmade'
      PROVE  /\ newest' = None => list' \in Named'
             /\ newest' # None /\ refresh'[newest'].list = "answered" =>
                   refresh'[newest'].found \in Named'
  <2>1. home.shown /\ clean /\ ~Unmade
    BY <1>4
  <2> QED
    BY <1>1, <1>4, <2>1 DEF Settled
<1> QED
  BY <1>2, <1>3, <1>4 DEF Settled

LEMMA ServeSettles ==
    ASSUME TypeOK, Settled, NEW r \in Refreshes, Serve(r)
    PROVE  Settled'
<1>1. UNCHANGED <<listed, date, list, clean, newest, home, deletion>>
  BY DEF Serve, ServeNum, ServeList, server, store, history
<1>2. \A s \in Refreshes : s # r => refresh'[s] = refresh[s]
  BY DEF TypeOK, Serve, ServeNum, ServeList
<1>3. Unmade' = Unmade
  BY <1>1 DEF Unmade
<1>4. newest # None => newest \in Refreshes
  BY DEF TypeOK
<1>5. CASE ServeNum(r) \/ newest # r
  <2>1. newest # None => /\ refresh'[newest].list = refresh[newest].list
                         /\ refresh'[newest].page = refresh[newest].page
                         /\ refresh'[newest].found = refresh[newest].found
    BY <1>2, <1>4, <1>5 DEF ServeNum, TypeOK, RefreshRecords
  <2> QED
    BY <1>1, <1>3, <2>1, SettledKept
<1>6. CASE ServeList(r) /\ newest = r
  <2>1. PICK found \in PagesOf(refresh[r].page) :
           refresh' = [refresh EXCEPT ![r].list = "answered", ![r].found = found, ![r].page = 1]
    BY <1>6 DEF ServeList
  <2>2. refresh[r].list = "sent" /\ refresh'[r].list = "answered" /\ refresh'[r].found = found
    BY <1>6, <2>1 DEF ServeList, TypeOK, RefreshRecords
  <2>3. newest' = r /\ newest # None
    BY <1>1, <1>6, NoneAssumption
  <2>4. home.shown /\ clean => found \in Named'
    <3>1. home.shown /\ clean => refresh[r].page = home.page
      BY <1>6, <2>2, <2>3 DEF Settled, Unserved
    <3> QED
      BY <1>1, <2>1, <3>1, NamedKept DEF Named
  <2> QED
    BY <1>1, <2>2, <2>3, <2>4 DEF Settled, Pending, Unserved
<1> QED
  BY <1>5, <1>6 DEF Serve

LEMMA KeptRefresh ==
    ASSUME NEW q \in RefreshRecords
    PROVE  /\ Kept(q).list \in {"sent", "answered"} <=> q.list \in {"sent", "answered"}
           /\ q.list \in {"sent", "answered"} => Kept(q) = q
BY DEF Kept, Over, IdleRefresh

LEMMA PutFacts ==
    ASSUME TypeOK, NEW r \in Refreshes, NEW q \in RefreshRecords, Put(r, q)
    PROVE  /\ home'.page = home.page /\ home'.shown = home.shown
           /\ refresh'[r] = Kept(q)
           /\ \A s \in Refreshes : s # r => refresh'[s] = refresh[s]
BY DEF Put, TypeOK, Homes

LEMMA ReceiveNumSettles ==
    ASSUME TypeOK, Settled, NEW r \in Refreshes, ReceiveNum(r)
    PROVE  Settled'
<1>1. PICK q : q = [refresh[r] EXCEPT !.num = "done", !.total = 0]
  OBVIOUS
<1>2. refresh[r] \in RefreshRecords
  BY DEF TypeOK
<1>3. q \in RefreshRecords
  BY <1>1, <1>2, CountsTyped DEF RefreshRecords, Halves
<1>4. q.list = refresh[r].list /\ q.page = refresh[r].page /\ q.found = refresh[r].found
  BY <1>1, <1>2 DEF RefreshRecords
<1>5. Put(r, q) /\ UNCHANGED <<listed, date, list, clean, newest, deletion>>
  BY <1>1 DEF ReceiveNum, server
<1>6. newest # None => newest \in Refreshes /\ Pending(newest)
  BY DEF TypeOK, Settled
<1>7. newest = r => refresh'[r] = q
  BY <1>3, <1>4, <1>5, <1>6, NoneAssumption, KeptRefresh, PutFacts DEF Pending
<1>8. newest # None => /\ refresh'[newest].list = refresh[newest].list
                       /\ refresh'[newest].page = refresh[newest].page
                       /\ refresh'[newest].found = refresh[newest].found
  BY <1>3, <1>4, <1>5, <1>6, <1>7, PutFacts
<1>9. Unmade' = Unmade
  BY <1>5 DEF Unmade
<1> QED
  BY <1>3, <1>5, <1>8, <1>9, PutFacts, SettledKept

\* The newest answer is the page; an earlier one finds the newest still on its way, or
\* the store is clean no more.
LEMMA ReceiveListSettles ==
    ASSUME TypeOK, Settled, NEW r \in Refreshes, ReceiveList(r)
    PROVE  Settled'
<1>1. PICK q : q = [refresh[r] EXCEPT !.list = "done", !.found = {}]
  OBVIOUS
<1>2. q \in RefreshRecords
  BY <1>1 DEF TypeOK, RefreshRecords, Halves
<1>3. /\ Put(r, q) /\ UNCHANGED <<listed, date, deletion>> /\ list' = refresh[r].found
      /\ refresh[r].list = "answered" /\ clean' = (clean /\ newest # None)
      /\ newest' = IF newest = r THEN None ELSE newest
  BY <1>1 DEF ReceiveList, server
<1>4. home'.page = home.page /\ home'.shown = home.shown
      /\ \A s \in Refreshes : s # r => refresh'[s] = refresh[s]
  BY <1>2, <1>3, PutFacts
<1>5. Unmade' = Unmade
  BY <1>3 DEF Unmade
<1>6. CASE newest = r
  <2>1. newest' = None /\ newest # None
    BY <1>3, <1>6, NoneAssumption
  <2>2. home.shown /\ clean /\ ~Unmade => list' \in Named
    BY <1>3, <1>6, <2>1 DEF Settled
  <2>3. Named' = Named
    BY <1>3, <1>4, NamedKept
  <2> QED
    BY <1>3, <1>4, <1>5, <2>1, <2>2, <2>3 DEF Settled, Unserved
<1>7. CASE newest # r
  <2>1. newest # None => newest \in Refreshes /\ refresh'[newest] = refresh[newest]
    BY <1>4, <1>7 DEF TypeOK
  <2>2. newest' = newest
    BY <1>3, <1>7
  <2> QED
    BY <1>3, <1>4, <1>5, <2>1, <2>2, SettledKept
<1> QED
  BY <1>6, <1>7

LEMMA FailSettles ==
    ASSUME TypeOK, Settled, NEW r \in Refreshes, FailNum(r) \/ FailList(r)
    PROVE  Settled'
<1>1. UNCHANGED <<listed, date, list, home, deletion>>
  BY DEF FailNum, FailList, server, store
<1>2. Unmade' = Unmade
  BY <1>1 DEF Unmade
<1>3. newest # None => newest \in Refreshes /\ Pending(newest)
  BY DEF TypeOK, Settled
<1>4. \A s \in Refreshes : s # r => refresh'[s] = refresh[s]
  BY DEF FailNum, FailList, TypeOK
<1>5. CASE FailList(r) /\ newest = r
  BY <1>5 DEF FailList, Settled, Unserved
<1>6. CASE newest # r
  <2>1. newest' = newest /\ clean' = clean
    BY <1>6 DEF FailNum, FailList, TypeOK
  <2> QED
    BY <1>1, <1>2, <1>3, <1>4, <1>6, <2>1, SettledKept
<1>7. CASE FailNum(r) /\ newest = r
  <2>1. PICK q : q = [refresh[r] EXCEPT !.num = "none", !.total = 0]
    OBVIOUS
  <2>2. q \in RefreshRecords /\ q.list = refresh[r].list /\ q.page = refresh[r].page
        /\ q.found = refresh[r].found
    BY <2>1, CountsTyped DEF TypeOK, RefreshRecords, Halves
  <2>3. refresh'[r] = Kept(q)
    BY <1>7, <2>1 DEF FailNum, TypeOK
  <2>4. refresh'[r] = q
    BY <1>3, <1>7, <2>2, <2>3, NoneAssumption, KeptRefresh DEF Pending
  <2>5. newest' = newest /\ clean' = clean
    BY <1>7 DEF FailNum
  <2> QED
    BY <1>1, <1>2, <1>7, <2>2, <2>4, <2>5, SettledKept
<1> QED
  BY <1>5, <1>6, <1>7

\* A deletion the server has done is unmade until the list is asked for again; one that is
\* never heard of puts the store out of step, unless the newest request comes after it.
LEMMA DeletionSettles ==
    ASSUME TypeOK, Settled, NEW d \in Deletions,
           Confirm(d) \/ ServeDeletion(d) \/ FailDeletion(d)
    PROVE  Settled'
<1>1. UNCHANGED <<date, list, home, refresh, newest>> /\ deletion[d] \in DeletionRecords
  BY DEF Confirm, ServeDeletion, FailDeletion, server, store, history, TypeOK
<1>2. \A e \in Deletions : e # d => deletion'[e] = deletion[e]
  BY DEF Confirm, ServeDeletion, FailDeletion, TypeOK
<1>3. CASE Confirm(d)
  <2>1. ~deletion[d].answered /\ UNCHANGED <<listed, clean>>
    BY <1>3 DEF Confirm, IdleDeletion, server, history
  <2>2. Unmade => Unmade'
    BY <1>2, <2>1 DEF Unmade
  <2> QED
    BY <1>1, <2>1, <2>2, SettledKept
<1>4. CASE ServeDeletion(d)
  <2>1. deletion'[d].answered /\ clean' = clean
    BY <1>1, <1>4 DEF ServeDeletion, TypeOK, DeletionRecords, history
  <2>2. Unmade'
    BY <2>1 DEF Unmade
  <2> QED
    BY <1>1, <2>1, <2>2 DEF Settled, Pending, Unserved
<1>5. CASE FailDeletion(d)
  <2>1. listed' = listed /\ clean' = (clean /\ (deletion[d].answered => Unserved))
    BY <1>5 DEF FailDeletion, server
  <2>2. CASE deletion[d].answered
    <3>1. clean' => newest # None /\ refresh[newest].list = "sent"
      BY <2>1, <2>2 DEF Unserved
    <3> QED
      BY <1>1, <2>1, <3>1 DEF Settled, Pending, Unserved
  <2>3. CASE ~deletion[d].answered
    <3>1. Unmade => Unmade'
      BY <1>2, <2>3 DEF Unmade
    <3> QED
      BY <1>1, <2>1, <3>1, SettledKept
  <2> QED
    BY <2>2, <2>3
<1> QED
  BY <1>3, <1>4, <1>5

\* The list asked for after a deletion is the page the bar names, or the store is clean
\* no more.
LEMMA ReceiveDeletionSettles ==
    ASSUME TypeOK, NEW d \in Deletions, NEW r \in Refreshes, ReceiveDeletion(d, r)
    PROVE  Settled'
<1>1. newest' = r /\ newest' # None
  BY NoneAssumption DEF ReceiveDeletion
<1>2. refresh'[r].list = "sent" /\ refresh'[r].page = deletion[d].page
  BY DEF ReceiveDeletion, TypeOK, IdleRefresh
<1>3. home'.page = home.page /\ clean' = (deletion[d].page = home.page)
  BY DEF ReceiveDeletion, TypeOK, Homes
<1> QED
  BY <1>1, <1>2, <1>3 DEF Settled, Pending

LEMMA SettledStep ==
    ASSUME TypeOK, Settled, [Next]_vars
    PROVE  Settled'
<1>1. CASE UNCHANGED vars \/ Cancel \/ \E m \in Matches : OpenModal(m)
  <2>1. /\ UNCHANGED <<listed, date, list, clean, newest, refresh, deletion>>
        /\ home'.shown = home.shown /\ home'.page = home.page
    BY <1>1 DEF vars, Cancel, OpenModal, TypeOK, Homes, server, store, history
  <2>2. Unmade' = Unmade
    BY <2>1 DEF Unmade
  <2> QED
    BY <2>1, <2>2, SettledKept
<1>2. ASSUME Enter \/ Refresh \/ (SignOut /\ ~home.shown) \/ \E page \in 1..MaxPage : Turn(page)
      PROVE  Settled'
  <2>1. PICK h \in Homes, page \in 1..MaxPage : h.page = page /\ Fetch(h, page)
    <3>1. CASE Enter \/ (SignOut /\ ~home.shown)
      <4>1. [Away EXCEPT !.shown = TRUE] \in Homes /\ [Away EXCEPT !.shown = TRUE].page = 1
        BY AwayTyped DEF Homes, Away
      <4> QED
        BY <3>1, <4>1, PagesExist DEF Enter, SignOut
    <3>2. CASE Refresh
      BY <3>2 DEF Refresh, TypeOK, Homes
    <3>3. ASSUME NEW page \in 1..MaxPage, Turn(page)
          PROVE  [home EXCEPT !.page = page] \in Homes /\ [home EXCEPT !.page = page].page = page
                 /\ Fetch([home EXCEPT !.page = page], page)
      BY <3>3 DEF Turn, TypeOK, Homes
    <3> QED
      BY <1>2, <3>1, <3>2, <3>3
  <2> QED
    BY <2>1, FetchSettles
<1>3. CASE SignOut /\ home.shown
  <2>1. UNCHANGED <<listed, date, home, refresh, newest, deletion>>
        /\ clean' = (clean /\ newest # None)
    BY <1>3 DEF SignOut, server
  <2>2. Unmade' = Unmade
    BY <2>1 DEF Unmade
  <2> QED
    BY <2>1, <2>2, SettledKept
<1>4. CASE Leave
  <2>1. ~home'.shown /\ newest' = newest
    BY <1>4 DEF Leave, Away
  <2>2. newest' # None => Pending(newest)'
    BY <1>4 DEF Leave, TypeOK, RefreshRecords, Settled, Pending
  <2> QED
    BY <2>1, <2>2 DEF Settled
<1>5. CASE Elsewhere
  <2>1. UNCHANGED <<home, refresh, newest>> /\ clean' = (clean /\ Unserved)
    BY <1>5 DEF Elsewhere
  <2> QED
    BY <2>1 DEF Settled, Pending, Unserved
<1> QED
  BY <1>1, <1>2, <1>3, <1>4, <1>5, ServeSettles, ReceiveNumSettles, ReceiveListSettles,
     FailSettles, DeletionSettles, ReceiveDeletionSettles DEF Next, Receive

-----------------------------------------------------------------------------
(* The spinner.                                                            *)

LEMMA FetchWhole ==
    ASSUME TypeOK, NEW h \in Homes, NEW page \in 1..MaxPage, Fetch(h, page)
    PROVE  WholeRefresh'
<1>1. PICK r \in Refreshes : refresh' = [refresh EXCEPT ![r] = Both(page)]
  BY DEF Fetch
<1>2. refresh'[r].mine /\ refresh'[r].num = "sent" /\ refresh'[r].list = "sent"
  BY <1>1 DEF Both, IdleRefresh, TypeOK
<1> QED
  BY <1>2 DEF WholeRefresh, Whole

\* A refresh that is whole stays so.
LEMMA WholeKept ==
    ASSUME WholeRefresh, home'.refreshing /\ ~failed' => home.refreshing /\ ~failed,
           \A r \in Refreshes : Whole(r) /\ home'.refreshing /\ ~failed' => Whole(r)'
    PROVE  WholeRefresh'
BY DEF WholeRefresh

\* An answer leaves the refresh whole until both are there; then the spinner stops.
LEMMA PutWhole ==
    ASSUME TypeOK, WholeRefresh, NEW r \in Refreshes, NEW q \in RefreshRecords, Put(r, q),
           q.mine = refresh[r].mine,
           \/ q.num = "done" /\ refresh[r].num = "answered" /\ q.list = refresh[r].list
           \/ q.list = "done" /\ refresh[r].list = "answered" /\ q.num = refresh[r].num
    PROVE  WholeRefresh'
<1>1. \A s \in Refreshes : s # r => refresh'[s] = refresh[s]
  BY PutFacts
<1>2. home'.refreshing => home.refreshing /\ home' = home
  BY DEF Put, TypeOK, Homes
<1>3. home'.refreshing /\ ~failed' => home.refreshing /\ ~failed
  BY <1>2 DEF Put
<1>4. ASSUME Whole(r), home'.refreshing
      PROVE  Whole(r)'
  <2>1. ~(q.mine /\ q.num = "done" /\ q.list = "done")
    BY <1>4 DEF Put, TypeOK, Homes
  <2>2. q.mine /\ q.num # "none" /\ q.list # "none" /\ ~Over(q)
    BY <1>4, <2>1 DEF Whole, Over, RefreshRecords, Halves
  <2>3. refresh'[r] = q
    BY <2>2, PutFacts DEF Kept
  <2> QED
    BY <2>2, <2>3 DEF Whole
<1> QED
  BY <1>1, <1>3, <1>4, WholeKept DEF Whole

LEMMA WholeStep ==
    ASSUME TypeOK, WholeRefresh, [Next]_vars
    PROVE  WholeRefresh'
<1>1. ASSUME UNCHANGED <<home, failed, refresh>>
      PROVE  WholeRefresh'
  BY <1>1, WholeKept DEF Whole
<1>2. ASSUME \/ UNCHANGED vars \/ Elsewhere
             \/ \E d \in Deletions : Confirm(d) \/ ServeDeletion(d) \/ FailDeletion(d)
      PROVE  WholeRefresh'
  BY <1>1, <1>2 DEF vars, history, Elsewhere, Confirm, ServeDeletion, FailDeletion
<1>3. ASSUME Cancel \/ \E m \in Matches : OpenModal(m)
      PROVE  WholeRefresh'
  <2>1. UNCHANGED <<failed, refresh>> /\ home'.refreshing = home.refreshing
    BY <1>3 DEF Cancel, OpenModal, TypeOK, Homes, history
  <2> QED
    BY <2>1, WholeKept DEF Whole
<1>4. ASSUME Enter \/ Refresh \/ SignOut \/ \E page \in 1..MaxPage : Turn(page)
      PROVE  WholeRefresh'
  <2>1. [Away EXCEPT !.shown = TRUE] \in Homes
    BY AwayTyped DEF Homes
  <2>2. home \in Homes /\ home.page \in 1..MaxPage
    BY DEF TypeOK, Homes
  <2>3. \A page \in 1..MaxPage : [home EXCEPT !.page = page] \in Homes
    BY <2>2 DEF Homes
  <2> QED
    BY <1>1, <1>4, <2>1, <2>2, <2>3, FetchWhole, PagesExist DEF Enter, Refresh, SignOut, Turn
<1>5. ASSUME Leave
      PROVE  WholeRefresh'
  BY <1>5 DEF Leave, Away, WholeRefresh
<1>6. ASSUME NEW r \in Refreshes, Serve(r)
      PROVE  WholeRefresh'
  <2>1. \A s \in Refreshes : s # r => refresh'[s] = refresh[s]
    BY <1>6 DEF TypeOK, Serve, ServeNum, ServeList
  <2>2. Whole(r) => Whole(r)'
    <3>1. CASE ServeNum(r)
      BY <3>1 DEF TypeOK, RefreshRecords, ServeNum, Whole
    <3>2. CASE ServeList(r)
      <4>1. PICK found \in PagesOf(refresh[r].page) :
               refresh' = [refresh EXCEPT ![r].list = "answered", ![r].found = found, ![r].page = 1]
        BY <3>2 DEF ServeList
      <4> QED
        BY <4>1 DEF TypeOK, RefreshRecords, Whole
    <3> QED
      BY <1>6, <3>1, <3>2 DEF Serve
  <2>3. UNCHANGED <<home, failed>>
    BY <1>6 DEF Serve, ServeNum, ServeList, history
  <2> QED
    BY <2>1, <2>2, <2>3, WholeKept DEF Whole
<1>7. ASSUME NEW r \in Refreshes, ReceiveNum(r)
      PROVE  WholeRefresh'
  <2>1. PICK q : q = [refresh[r] EXCEPT !.num = "done", !.total = 0]
    OBVIOUS
  <2>2. q \in RefreshRecords /\ q.num = "done" /\ q.list = refresh[r].list
        /\ q.mine = refresh[r].mine
    BY <2>1, CountsTyped DEF TypeOK, RefreshRecords, Halves
  <2> QED
    BY <1>7, <2>1, <2>2, PutWhole DEF ReceiveNum
<1>8. ASSUME NEW r \in Refreshes, ReceiveList(r)
      PROVE  WholeRefresh'
  <2>1. PICK q : q = [refresh[r] EXCEPT !.list = "done", !.found = {}]
    OBVIOUS
  <2>2. q \in RefreshRecords /\ q.list = "done" /\ q.num = refresh[r].num
        /\ q.mine = refresh[r].mine
    BY <2>1 DEF TypeOK, RefreshRecords, Halves
  <2> QED
    BY <1>8, <2>1, <2>2, PutWhole DEF ReceiveList
<1>9. ASSUME NEW r \in Refreshes, FailNum(r) \/ FailList(r)
      PROVE  WholeRefresh'
  <2>1. home' = home /\ failed' = (home.refreshing /\ (failed \/ refresh[r].mine))
    BY <1>9 DEF FailNum, FailList
  <2>2. \A s \in Refreshes : s # r => refresh'[s] = refresh[s]
    BY <1>9 DEF FailNum, FailList, TypeOK
  <2>3. home'.refreshing /\ ~failed' => home.refreshing /\ ~failed /\ ~Whole(r)
    BY <2>1 DEF Whole
  <2> QED
    BY <2>2, <2>3, WholeKept DEF Whole
<1>10. ASSUME NEW r \in Refreshes, NEW d \in Deletions, ReceiveDeletion(d, r)
       PROVE  WholeRefresh'
  <2>1. \A s \in Refreshes : s # r => refresh'[s] = refresh[s]
    BY <1>10 DEF ReceiveDeletion, TypeOK
  <2>2. ~Whole(r)
    BY <1>10 DEF ReceiveDeletion, IdleRefresh, Whole
  <2>3. home'.refreshing = home.refreshing /\ failed' = failed
    BY <1>10 DEF ReceiveDeletion, TypeOK, Homes
  <2> QED
    BY <2>1, <2>2, <2>3, WholeKept DEF Whole
<1> QED
  BY <1>2, <1>3, <1>4, <1>5, <1>6, <1>7, <1>8, <1>9, <1>10 DEF Next, Receive

-----------------------------------------------------------------------------

LEMMA IInvNext == IInv /\ [Next]_vars => IInv'
BY TypeStep, SettledStep, WholeStep DEF IInv

LEMMA Invariance == Spec => []IInv
BY InitStep, IInvNext, PTL DEF Spec

\* The page, the bar and the modal never leave the matches and pages there are, whatever
\* answers the store takes.
THEOREM HomeTypeCorrect == Spec => []TypeOK
<1>1. IInv => TypeOK
  BY DEF IInv
<1> QED
  BY <1>1, Invariance, PTL

\* However many refreshes and deletions overlap, and whatever dates the matches have: with
\* the newest request for the list answered, the store holds a page the server might
\* return for the one the bar names, unless one of the causes named at Fetch has put it
\* out of step since that request was made (Home.tsx, the effect and the deletion's
\* handler; stores/matches.ts, fetchMatches).
THEOREM StoreHoldsThePage == Spec => []ListIsThePage
<1>1. IInv => ListIsThePage
  <2> SUFFICES ASSUME IInv, home.shown, clean, Still
               PROVE  list \in PagesOf(home.page)
    BY DEF ListIsThePage
  <2>1. newest = None /\ ~Unmade
    BY DEF Still, Unmade
  <2> QED
    BY <2>1 DEF IInv, Settled, Named
<1> QED
  BY <1>1, Invariance, PTL


\* The spinner turns only for a refresh that goes on or one that has failed, in whatever
\* order the answers of however many refreshes come (fetch, Promise.all).
THEOREM SpinnerHasARefresh == Spec => []SpinnerHasCause
<1>1. IInv => SpinnerHasCause
  BY DEF IInv, WholeRefresh, Whole, SpinnerHasCause
<1> QED
  BY <1>1, Invariance, PTL

=============================================================================

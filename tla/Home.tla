-------------------------------- MODULE Home --------------------------------
(***************************************************************************)
(* The home page of the web client: a page of the list of matches, the bar *)
(* that turns pages, the modal that deletes a match, and the store of      *)
(* matches that outlives the page.  A refresh is two requests, one for the *)
(* number of matches and one for a page of the list, whose answers are put *)
(* into the store as they come, from whatever page they were asked.        *)
(*                                                                         *)
(* The server is reduced to which matches it lists, which it has marked    *)
(* deleted and the dates it sorts them by (module Library has the rest),   *)
(* and changes under the client's hands.                                   *)
(***************************************************************************)
EXTENDS Naturals, FiniteSets

CONSTANTS
    Matches,
    Days,           \* dates of matches
    Limit,          \* matches on a page
    Refreshes,      \* bound: refreshes under way at once
    Deletions,      \* bound: deletions under way at once
    Changes,        \* bound: changes made elsewhere
    None

ASSUME MatchesAssumption == IsFiniteSet(Matches) /\ Matches # {} /\ Days \subseteq Nat
ASSUME LimitAssumption == Limit \in Nat \ {0} /\ Changes \in Nat
ASSUME NoneAssumption == None \notin Matches \union Refreshes

VARIABLES
    listed,     \* rows of table matches, not deleted
    deleted,    \* rows marked deleted
    date,       \* what the rows are sorted by
    changes,    \* changes made elsewhere so far
    list,       \* matches of the store
    num,        \* numMatches of the store
    home,       \* the mounted home page
    refresh,    \* requests for the number and for the list
    deletion,   \* the requests of the modal's button
    newest,     \* history: the request for the list made last, until it is over
    clean,      \* history: nothing has put list out of step, see Fetch
    failed      \* history: a request failed since the spinner was started

server == <<listed, deleted, date, changes>>
store == <<list, num>>
history == <<newest, clean, failed>>
vars == <<server, store, home, refresh, deletion, history>>

TotalPages(n) == (n + Limit - 1) \div Limit

MaxPage == TotalPages(Cardinality(Matches))

Away == [shown |-> FALSE, page |-> 1, refreshing |-> FALSE, modal |-> None]

Homes == [shown: BOOLEAN, page: 1..MaxPage, refreshing: BOOLEAN,
          modal: Matches \union {None}]

\* What became of each of the two requests, and what they answered.  mine: the page
\* that asked is still mounted.
Halves == {"none", "sent", "answered", "done"}

IdleRefresh == [num |-> "none", list |-> "none", total |-> 0, found |-> {}, page |-> 1,
                mine |-> FALSE]

RefreshRecords ==
    [num: Halves, list: Halves, total: 0..Cardinality(Matches), found: SUBSET Matches,
     page: 1..MaxPage, mine: BOOLEAN]

IdleDeletion == [match |-> None, page |-> 1, answered |-> FALSE, mine |-> FALSE]

DeletionRecords ==
    [match: Matches \union {None}, page: 1..MaxPage, answered: BOOLEAN, mine: BOOLEAN]

TypeOK ==
    /\ listed \subseteq Matches
    /\ deleted \subseteq Matches
    /\ listed \intersect deleted = {}
    /\ date \in [Matches -> Days]
    /\ changes \in 0..Changes
    /\ list \subseteq Matches
    /\ num \in 0..Cardinality(Matches)
    /\ home \in Homes
    /\ refresh \in [Refreshes -> RefreshRecords]
    /\ deletion \in [Deletions -> DeletionRecords]
    /\ newest \in Refreshes \union {None}
    /\ clean \in BOOLEAN
    /\ failed \in BOOLEAN

-----------------------------------------------------------------------------
(* The server.                                                             *)

\* The first n rows of the list, newest first.  A date is a whole day when it comes
\* from a demo's name, and rows of one date the database returns in any order, which
\* may be another at the next query.
Heads(n) ==
    {S \in SUBSET listed :
        /\ Cardinality(S) = IF n < Cardinality(listed) THEN n ELSE Cardinality(listed)
        /\ \A m \in S, o \in listed \ S : date[o] <= date[m]}

\* What getMatches may answer: at most LIMIT rows, from OFFSET.
PagesOf(page) ==
    {P \in SUBSET listed :
        \E S \in Heads((page - 1) * Limit) :
            P \intersect S = {} /\ P \union S \in Heads(page * Limit)}

\* NumMatches counts the rows, the deleted ones too.
NumMatches == Cardinality(listed \union deleted)

\* The server has yet to look up the list that was asked for last.
Unserved == newest # None /\ refresh[newest].list = "sent"

\* A rescan, or another client: a new match, a deletion, a restore, a full deletion, and
\* another date, which this page's form may give it too.
Elsewhere ==
    /\ changes < Changes
    /\ changes' = changes + 1
    /\ \/ /\ \E m \in Matches \ (listed \union deleted) : listed' = listed \union {m}
          /\ UNCHANGED <<deleted, date>>
       \/ /\ \E m \in listed : listed' = listed \ {m} /\ deleted' = deleted \union {m}
          /\ UNCHANGED date
       \/ /\ \E m \in deleted : listed' = listed \union {m} /\ deleted' = deleted \ {m}
          /\ UNCHANGED date
       \/ /\ \E m \in deleted : deleted' = deleted \ {m}
          /\ UNCHANGED <<listed, date>>
       \/ /\ \E m \in listed, day \in Days : date' = [date EXCEPT ![m] = day]
          /\ UNCHANGED <<listed, deleted>>
    /\ clean' = (clean /\ Unserved)
    /\ UNCHANGED <<store, home, refresh, deletion, newest, failed>>

ServeNum(r) ==
    /\ refresh[r].num = "sent"
    /\ refresh' = [refresh EXCEPT ![r].num = "answered", ![r].total = NumMatches]
    /\ UNCHANGED <<server, store, home, deletion, history>>

ServeList(r) ==
    /\ refresh[r].list = "sent"
    /\ \E found \in PagesOf(refresh[r].page) :
          refresh' = [refresh EXCEPT ![r].list = "answered", ![r].found = found, ![r].page = 1]
    /\ UNCHANGED <<server, store, home, deletion, history>>

\* Deviation: the row is marked, and listed still.
ServeDeletionLists(d) ==
    LET m == deletion[d].match
    IN  /\ m # None
        /\ ~deletion[d].answered
        /\ deleted' = IF m \in listed THEN deleted \union {m} ELSE deleted
        /\ deletion' = [deletion EXCEPT ![d].answered = TRUE]
        /\ UNCHANGED <<listed, date, changes, store, home, refresh, history>>

\* Deleting what is deleted or gone is no error.
ServeDeletion(d) ==
    LET m == deletion[d].match
    IN  /\ m # None
        /\ ~deletion[d].answered
        /\ listed' = listed \ {m}
        /\ deleted' = IF m \in listed THEN deleted \union {m} ELSE deleted
        /\ deletion' = [deletion EXCEPT ![d].answered = TRUE]
        /\ UNCHANGED <<date, changes, store, home, refresh, history>>

-----------------------------------------------------------------------------
(* Refreshing.                                                             *)

Both(page) == [IdleRefresh EXCEPT !.num = "sent", !.list = "sent", !.page = page, !.mine = TRUE]

\* fetch of the home page, whatever other requests are under way.  The history: the list
\* has now been asked for as it should be, and the store will have it, unless something
\* puts it out of step again: a change on the server that the answer came too early for,
\* the answer lost, the list emptied, the answer of an earlier request come after it, or
\* a page asked for that is shown no more.  A deletion by this page is made good by the
\* request that follows it.
Fetch(h, page) ==
    \E r \in Refreshes :
        /\ refresh[r] = IdleRefresh
        /\ home' = [h EXCEPT !.refreshing = TRUE]
        /\ refresh' = [refresh EXCEPT ![r] = Both(page)]
        /\ newest' = r
        /\ clean' = TRUE
        /\ failed' = FALSE

Over(q) == {q.num, q.list} \intersect {"sent", "answered"} = {}

Kept(q) == IF Over(q) THEN IdleRefresh ELSE q

\* A link to the home page, or a load of it: the effect fetches page one.
Enter ==
    /\ ~home.shown
    /\ Fetch([Away EXCEPT !.shown = TRUE], 1)
    /\ UNCHANGED <<server, store, deletion>>

Leave ==
    /\ home.shown
    /\ home' = Away
    /\ refresh' = [r \in Refreshes |-> [refresh[r] EXCEPT !.mine = FALSE]]
    /\ deletion' = [d \in Deletions |-> [deletion[d] EXCEPT !.mine = FALSE]]
    /\ failed' = FALSE
    /\ UNCHANGED <<server, store, newest, clean>>

Pages == TotalPages(num)

\* The bar is there only with a match below it.
BarShown == home.shown /\ home.modal = None /\ list # {}

\* Deviation: the page turns and the one it leaves is fetched.
TurnStale(page) ==
    /\ BarShown
    /\ \/ home.page > 1 /\ page \in {1, home.page - 1}
       \/ home.page < Pages /\ page \in {home.page + 1, Pages}
    /\ Fetch([home EXCEPT !.page = page], home.page)
    /\ UNCHANGED <<server, store, deletion>>

\* First, previous, next and last page.  The page that is left is asked no more, and
\* the effect fetches the new one.
Turn(page) ==
    /\ BarShown
    /\ \/ home.page > 1 /\ page \in {1, home.page - 1}
       \/ home.page < Pages /\ page \in {home.page + 1, Pages}
    /\ Fetch([home EXCEPT !.page = page], page)
    /\ UNCHANGED <<server, store, deletion>>

\* The button is disabled while it spins.
Refresh ==
    /\ BarShown
    /\ ~home.refreshing
    /\ Fetch(home, home.page)
    /\ UNCHANGED <<server, store, deletion>>

\* Deviation: the spinner stops only when the list comes second.
PutInOrder(r, q) ==
    /\ refresh' = [refresh EXCEPT ![r] = Kept(q)]
    /\ home' = IF q.mine /\ refresh[r].num = "done" /\ q.list = "done"
               THEN [home EXCEPT !.refreshing = FALSE]
               ELSE home
    /\ failed' = (failed /\ home'.refreshing)

\* Promise.all: the spinner of the page that asked stops with the second answer.
Put(r, q) ==
    /\ refresh' = [refresh EXCEPT ![r] = Kept(q)]
    /\ home' = IF q.mine /\ q.num = "done" /\ q.list = "done"
               THEN [home EXCEPT !.refreshing = FALSE]
               ELSE home
    /\ failed' = (failed /\ home'.refreshing)

ReceiveNum(r) ==
    /\ refresh[r].num = "answered"
    /\ num' = refresh[r].total
    /\ Put(r, [refresh[r] EXCEPT !.num = "done", !.total = 0])
    /\ UNCHANGED <<server, list, deletion, newest, clean>>

\* Whatever answer comes is kept.  An earlier request's does no harm before the newest
\* one's, and stays if it comes later.
ReceiveList(r) ==
    /\ refresh[r].list = "answered"
    /\ list' = refresh[r].found
    /\ Put(r, [refresh[r] EXCEPT !.list = "done", !.found = {}])
    /\ clean' = (clean /\ newest # None)
    /\ newest' = IF newest = r THEN None ELSE newest
    /\ UNCHANGED <<server, num, deletion>>

\* A rejected promise of the two is caught by nobody: the other still counts, and
\* the spinner goes on.
FailNum(r) ==
    /\ refresh[r].num \in {"sent", "answered"}
    /\ refresh' = [refresh EXCEPT ![r] = Kept([@ EXCEPT !.num = "none", !.total = 0])]
    /\ failed' = (home.refreshing /\ (failed \/ refresh[r].mine))
    /\ UNCHANGED <<server, store, home, deletion, newest, clean>>

FailList(r) ==
    /\ refresh[r].list \in {"sent", "answered"}
    /\ refresh' = [refresh EXCEPT ![r] = Kept([@ EXCEPT !.list = "none", !.found = {}])]
    /\ failed' = (home.refreshing /\ (failed \/ refresh[r].mine))
    /\ clean' = (clean /\ newest # r)
    /\ newest' = IF newest = r THEN None ELSE newest
    /\ UNCHANGED <<server, store, home, deletion>>

-----------------------------------------------------------------------------
(* The modal and the header.                                               *)

OpenModal(m) ==
    /\ home.shown
    /\ home.modal = None
    /\ m \in list
    /\ home' = [home EXCEPT !.modal = m]
    /\ UNCHANGED <<server, store, refresh, deletion, history>>

Cancel ==
    /\ home.modal # None
    /\ home' = [home EXCEPT !.modal = None]
    /\ UNCHANGED <<server, store, refresh, deletion, history>>

\* "Yes, delete match", as often as it is pressed before the answer closes the modal.
\* What the answer will do is fixed now, the page to fetch included.
Confirm(d) ==
    /\ home.modal # None
    /\ deletion[d] = IdleDeletion
    /\ deletion' = [deletion EXCEPT ![d] = [match |-> home.modal, page |-> home.page,
                                           answered |-> FALSE, mine |-> TRUE]]
    /\ UNCHANGED <<server, store, home, refresh, history>>

\* Whatever modal is open by now is closed, and the page of then is fetched.
ReceiveDeletion(d, r) ==
    /\ deletion[d].answered
    /\ refresh[r] = IdleRefresh
    /\ home' = IF deletion[d].mine THEN [home EXCEPT !.modal = None] ELSE home
    /\ refresh' = [refresh EXCEPT ![r] = [IdleRefresh EXCEPT !.list = "sent",
                                                           !.page = deletion[d].page]]
    /\ deletion' = [deletion EXCEPT ![d] = IdleDeletion]
    /\ newest' = r
    /\ clean' = (deletion[d].page = home.page)
    /\ UNCHANGED <<server, store, failed>>

FailDeletion(d) ==
    /\ deletion[d].match # None
    /\ deletion' = [deletion EXCEPT ![d] = IdleDeletion]
    /\ clean' = (clean /\ (deletion[d].answered => Unserved))
    /\ UNCHANGED <<server, store, home, refresh, newest, failed>>

\* "Sign out" empties the list; on the home page that is all, elsewhere it leads there.
SignOut ==
    /\ home.modal = None
    /\ list' = {}
    /\ IF home.shown THEN clean' = (clean /\ newest # None)
                          /\ UNCHANGED <<home, refresh, newest, failed>>
       ELSE Fetch([Away EXCEPT !.shown = TRUE], 1)
    /\ UNCHANGED <<server, num, deletion>>

-----------------------------------------------------------------------------

Init ==
    /\ listed \in SUBSET Matches
    /\ deleted \in SUBSET (Matches \ listed)
    /\ date \in [Matches -> Days]
    /\ changes = 0
    /\ list = {}
    /\ num = 0
    /\ home = Away
    /\ refresh = [r \in Refreshes |-> IdleRefresh]
    /\ deletion = [d \in Deletions |-> IdleDeletion]
    /\ newest = None
    /\ clean = FALSE
    /\ failed = FALSE

Serve(r) == ServeNum(r) \/ ServeList(r)
Receive(r) == ReceiveNum(r) \/ ReceiveList(r)

Next ==
    \/ Elsewhere
    \/ \E r \in Refreshes : \/ Serve(r) \/ Receive(r) \/ FailNum(r) \/ FailList(r)
                            \/ \E d \in Deletions : ReceiveDeletion(d, r)
    \/ Enter
    \/ Leave
    \/ \E page \in 1..MaxPage : Turn(page)
    \/ Refresh
    \/ \E m \in Matches : OpenModal(m)
    \/ Cancel
    \/ \E d \in Deletions : Confirm(d) \/ ServeDeletion(d) \/ FailDeletion(d)
    \/ SignOut

Spec == Init /\ [][Next]_vars

-----------------------------------------------------------------------------
(* Properties.                                                             *)

\* The newest request for the list is over, and no deletion is waiting to be made good.
Still == newest = None /\ \A d \in Deletions : ~deletion[d].answered

\* What the visitor sees is the page the bar names, over refreshes, turned pages and
\* deletions whose requests overlap: once the newest of them is answered the store has a
\* page that the server might return.  It has another only for one of the causes named
\* at Fetch, among them the answer of an earlier page that comes in last
\* (stores/matches.ts:36): an earlier answer never outlives a newer one's, whatever is
\* done in between (Home.tsx:234, the offset the modal's handler closes over).
ListIsThePage == home.shown /\ clean /\ Still => list \in PagesOf(home.page)

\* The spinner turns, and keeps the refresh button disabled, only while a refresh asked
\* by this visit to the page goes on, or after a request of it has failed: the answers
\* come in either order, and those of an earlier page among them (fetch).
SpinnerHasCause ==
    home.refreshing /\ ~failed => \E r \in Refreshes : refresh[r].mine /\ refresh[r].num # "none"

=============================================================================

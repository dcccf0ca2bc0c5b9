----------------------------- MODULE EventStore -----------------------------
(***************************************************************************)
(* The event database (nostr-surreal-db/src/db.rs, sql_builder).           *)
(*                                                                         *)
(* A query is answered in two steps: SQL selects by id, author, kind and   *)
(* time, and match_filters looks at what was selected, tags included, but  *)
(* not at the time.  The relay's calls of this crate are commented out; it *)
(* is modelled as a library.  Operations nothing calls (update_event,      *)
(* delete_event, the other selects) are left out, and so is the expiration *)
(* of an event, which is written under another name than it is read.       *)
(***************************************************************************)
EXTENDS EventMatching

CONSTANTS
    Events,           \* parsed events that may be written
    Queries           \* what may be asked: sets of parsed filters

\* get_events_by_filters panics if there is no filter.  Times are u64.
ASSUME EventStoreAssumption ==
    /\ {} \notin Queries
    /\ Unbounded \notin Nat
    /\ \A e \in Events : e.created_at \in Nat
    /\ \A filters \in Queries : \A f \in filters :
          f.since \in Nat \cup {Unbounded} /\ f.until \in Nat \cup {Unbounded}

VARIABLES
    stored,           \* NOSTR_EVENTS_TABLE
    tagRows,          \* NOSTR_TAGS_TABLE: rows, which no query reads
    asked,            \* history: the filters of the last query, {} after a write
    answer            \* history: its answer

vars == <<stored, tagRows, asked, answer>>

TypeOK ==
    /\ stored \in SUBSET Events
    /\ asked \in Queries \cup {{}}
    /\ answer \in SUBSET stored

Init == stored = {} /\ tagRows = {} /\ asked = {} /\ answer = {}

\* Two statements in one query, but no transaction: the id may be there already.
WriteEvent(e) ==
    /\ stored' = IF \E s \in stored : s.id = e.id THEN stored ELSE stored \cup {e}
    /\ tagRows' = tagRows \cup {<<e.id, tag>> : tag \in e.tags}
    /\ asked' = {} /\ answer' = {}

\* build_one_filter: created_at > since AND created_at < until, or created_at > 0.
TimeQuery(f, e) ==
    IF f.since = Unbounded /\ f.until = Unbounded
    THEN e.created_at > 0
    ELSE /\ f.since # Unbounded => e.created_at > f.since
         /\ f.until # Unbounded => e.created_at < f.until

BuildOneFilter(f, e) ==
    MatchId(f, e) /\ MatchAuthor(f, e) /\ MatchKind(f, e) /\ TimeQuery(f, e)

\* Faulty: a later filter narrows what the earlier ones have selected.
SelectedByAll(filters) == {e \in stored : \A f \in filters : BuildOneFilter(f, e)}

\* get_events_by_filters
Selected(filters) == {e \in stored : \E f \in filters : BuildOneFilter(f, e)}

\* query_by_filters.  The second look knows nothing of the time: what SQL selected for
\* the time of one filter is answered when the rest of another filter matches it.
AnswerTo(filters) == {e \in Selected(filters) : MatchFilters(filters, e)}

QueryByFilters(filters) ==
    /\ asked' = filters /\ answer' = AnswerTo(filters)
    /\ UNCHANGED <<stored, tagRows>>

Next ==
    \/ \E e \in Events : WriteEvent(e)
    \/ \E filters \in Queries : QueryByFilters(filters)

Spec == Init /\ [][Next]_vars

-----------------------------------------------------------------------------
(* Properties.                                                             *)

\* Nothing that one of the filters asks for is missed, whatever the others select, but
\* for the instants since and until themselves, which match_time would include.
AskedIsAnswered ==
    \A f \in asked, e \in stored :
        /\ MatchFilter(f, e) /\ MatchTime(f, e)
        /\ e.created_at \notin {0, f.since, f.until}
        => e \in answer
=============================================================================

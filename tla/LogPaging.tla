------------------------------ MODULE LogPaging ----------------------------
(***************************************************************************)
(* Reading an instance's log backwards, page by page (useInstanceLogPaging *)
(* over useInstanceLogs).  The hook keeps the lines it has pasted together *)
(* in its own state, apart from the query cache they came from; the key of *)
(* the query holds the file, the keyword, the cursor, a reload token and   *)
(* whether the tail is followed.  The log grows all the while.             *)
(*                                                                         *)
(* A view is a file under a keyword; its lines are numbered from the       *)
(* oldest, and a cursor is the number of the oldest line read so far.      *)
(***************************************************************************)
EXTENDS Naturals, Sequences

CONSTANTS
    LogViews,     \* files and keywords
    MaxLogLines,  \* bound: lines a view grows to
    LogPageSize,  \* lines of a page
    MaxLogClicks  \* bound: uses of the controls

ASSUME LogAssumption ==
    /\ MaxLogLines \in Nat /\ LogPageSize \in Nat \ {0} /\ MaxLogClicks \in Nat

Cursors == 0..MaxLogLines          \* 0: no cursor, the newest page
LogKey  == [view : LogViews, cursor : Cursors, token : 0..MaxLogClicks,
            auto : BOOLEAN]

(* A response is the lines below `above`, from the newest to `from`; it is *)
(* the same object as another only if it answers the same key alike.       *)
LogResponse == [key : LogKey, above : 1..(MaxLogLines + 1),
                from : 1..(MaxLogLines + 1)]
NoResponse == [key |-> "none"]

VARIABLES
    lpLines,     \* lines each view has by now
    lpKey,       \* queryOptions
    lpCache,     \* the query cache: at most one response of a key
    lpFetching,  \* keys being fetched
    lpApplied,   \* applied_response
    lpShown,     \* rawLogs
    lpCursor,    \* nextCursor, 0 if undefined
    lpMore,      \* hasMore
    lpLoading,   \* isLoadingMore
    lpClicks     \* uses of the controls so far
lpvars == <<lpLines, lpKey, lpCache, lpFetching, lpApplied, lpShown, lpCursor,
            lpMore, lpLoading, lpClicks>>

----------------------------------------------------------------------------
LogPagingTypeOK ==
    /\ lpLines \in [LogViews -> 0..MaxLogLines]
    /\ lpKey \in LogKey
    /\ lpCache \subseteq LogResponse /\ lpFetching \subseteq LogKey
    /\ lpApplied \in LogResponse \cup {NoResponse}
    /\ lpShown \in Seq(LogViews \X (1..MaxLogLines))
    /\ lpCursor \in Cursors /\ lpMore \in BOOLEAN /\ lpLoading \in BOOLEAN
    /\ lpClicks \in 0..MaxLogClicks

LogPagingInit ==
    /\ lpLines \in [LogViews -> 0..MaxLogLines]
    /\ lpKey \in [view : LogViews, cursor : {0}, token : {0}, auto : {FALSE}]
    /\ lpCache = {} /\ lpFetching = {lpKey}
    /\ lpApplied = NoResponse /\ lpShown = <<>>
    /\ lpCursor = 0 /\ lpMore = FALSE /\ lpLoading = FALSE
    /\ lpClicks = 0

(* The lines of a response, newest first. *)
LinesOf(response) ==
    [i \in 1..(response.above - response.from) |->
        <<response.key.view, response.above - i>>]

NextCursor(response) == IF response.from > 1 THEN response.from ELSE 0

Cached(cache, key) == {r \in cache : r.key = key}

(* The gateway's answer: the newest page, or the page before the cursor. *)
LogPage(key) ==
    LET above == IF key.cursor = 0 THEN lpLines[key.view] + 1 ELSE key.cursor
    IN [key |-> key, above |-> above,
        from |-> IF above > LogPageSize THEN above - LogPageSize ELSE 1]

(* What the hook does with a response that it has not folded in yet.       *)
IsNew(response, applied) == response # applied

(* A token only grows: a key with an earlier one is never asked for again, *)
(* and what is cached or being fetched under it is of no consequence.      *)
StillAsked(asked, key) == asked.token = key.token

(* The effects after a render with this key, cache and these fetches; what *)
(* an event set before it is passed along.                                 *)
Render(key, cache, fetching, cursor, more, loading) ==
    /\ lpKey' = key
    /\ lpCache' = {response \in cache : StillAsked(response.key, key)}
    /\ lpFetching' = {asked \in fetching : StillAsked(asked, key)}
    /\ \/ \E response \in Cached(cache, key) :
            /\ IsNew(response, lpApplied)
            /\ lpApplied' = response
            /\ lpShown' = IF key.cursor = 0 THEN LinesOf(response)
                          ELSE lpShown \o LinesOf(response)
            /\ lpCursor' = NextCursor(response)
            /\ lpMore' = (response.from > 1)
            /\ lpLoading' = FALSE
       \/ /\ \A response \in Cached(cache, key) : ~IsNew(response, lpApplied)
          /\ lpCursor' = cursor /\ lpMore' = more
          /\ lpLoading' = IF lpKey \in lpFetching /\ key \notin fetching
                          THEN FALSE ELSE loading
          /\ UNCHANGED <<lpApplied, lpShown>>
    /\ UNCHANGED lpLines

(* setQueryOptions: a key without data is fetched, and so is a tail. *)
Ask(key, cursor, more, loading) ==
    LET due == key # lpKey /\ (key.auto \/ Cached(lpCache, key) = {})
    IN /\ lpClicks < MaxLogClicks /\ lpClicks' = lpClicks + 1
       /\ Render(key, lpCache, lpFetching \cup (IF due THEN {key} ELSE {}),
                 cursor, more, loading)

----------------------------------------------------------------------------
(* The controls.  Whatever starts over forgets the cursor. *)
CursorIsKept == lpCursor        \* mutant: the cursor of the lines shown
CursorAfterStartingOver == 0

ApplyKeyword(view) ==
    Ask([lpKey EXCEPT !.view = view, !.cursor = 0],
        CursorAfterStartingOver, FALSE, lpLoading)

SelectFile(view) ==
    Ask([view |-> view, cursor |-> 0, token |-> lpKey.token + 1,
         auto |-> FALSE], CursorAfterStartingOver, FALSE, lpLoading)

RefreshLog ==
    Ask([lpKey EXCEPT !.cursor = 0, !.token = @ + 1],
        CursorAfterStartingOver, FALSE, lpLoading)

ToggleLiveTail ==
    LET key == [lpKey EXCEPT !.cursor = 0, !.auto = ~@]
    IN IF key.auto
       THEN Ask(key, CursorAfterStartingOver, FALSE, lpLoading)
       ELSE Ask(key, lpCursor, lpMore, lpLoading)

LoadMore ==
    /\ lpCursor # 0 /\ ~lpLoading
    /\ Ask([lpKey EXCEPT !.cursor = lpCursor, !.auto = FALSE],
           lpCursor, lpMore, TRUE)

(* refetchInterval of the tail. *)
PollTail ==
    /\ lpKey.auto /\ lpKey \notin lpFetching
    /\ Render(lpKey, lpCache, lpFetching \cup {lpKey}, lpCursor, lpMore,
              lpLoading)
    /\ UNCHANGED lpClicks

(* A fetch ends: its response replaces the key's, whether or not it is the *)
(* one shown, or it has failed.                                            *)
FetchLogEnds(key) ==
    /\ key \in lpFetching
    /\ \/ Render(lpKey, (lpCache \ Cached(lpCache, key)) \cup {LogPage(key)},
                 lpFetching \ {key}, lpCursor, lpMore, lpLoading)
       \/ Render(lpKey, lpCache, lpFetching \ {key}, lpCursor, lpMore,
                 lpLoading)
    /\ UNCHANGED lpClicks

LogGrows(view) ==
    /\ lpLines[view] < MaxLogLines
    /\ lpLines' = [lpLines EXCEPT ![view] = @ + 1]
    /\ UNCHANGED <<lpKey, lpCache, lpFetching, lpApplied, lpShown, lpCursor,
                   lpMore, lpLoading, lpClicks>>

LogPagingNext ==
    \/ \E view \in LogViews :
         ApplyKeyword(view) \/ SelectFile(view) \/ LogGrows(view)
    \/ RefreshLog \/ ToggleLiveTail \/ LoadMore \/ PollTail
    \/ \E key \in lpFetching : FetchLogEnds(key)

LogPagingSpec == LogPagingInit /\ [][LogPagingNext]_lpvars

----------------------------------------------------------------------------
(* The lines shown are one stretch of one file under one keyword, newest   *)
(* first, with no line missing and none twice; and "Load older" goes on    *)
(* where they end.                                                         *)
OneStretch ==
    /\ \A i \in 1..(Len(lpShown) - 1) :
          /\ lpShown[i + 1][1] = lpShown[i][1]
          /\ lpShown[i + 1][2] + 1 = lpShown[i][2]
    /\ lpCursor # 0 =>
          /\ lpShown # <<>>
          /\ lpShown[Len(lpShown)] = <<lpKey.view, lpCursor>>
=============================================================================

----------------------------- MODULE Bookmarks -----------------------------
(***************************************************************************)
(* The bookmark of one user on one message (bookmarks.service.ts), with    *)
(* the development reset, which may come at any time.  Creating is refused *)
(* by the unique index, updating and removing by the missing row.          *)
(***************************************************************************)
EXTENDS Personal

CONSTANTS
    Click,          \* bound: requests under way at once
    Title,
    NoBookmark,
    MayReset        \* DEV_ROUTES_ENABLED

ASSUME BookmarkConstants == NoBookmark \notin Title /\ MayReset \in BOOLEAN

VARIABLES
    bookmark,       \* the entry of bookmarks: its title
    bookmarkRow,    \* the row of the table
    change,         \* the queries under way
    strayed         \* since the process started, queries overtook one another,
                    \* failed halfway or lost an answer, or an update changed an
                    \* entry that a creation or a reset under way replaces

bookmarkVars == <<bookmark, bookmarkRow, change, strayed>>

BookmarksTypeOK ==
    /\ bookmark \in Title \union {NoBookmark}
    /\ bookmarkRow \in Title \union {NoBookmark}
    /\ DOMAIN change = Click
    /\ \A r \in UnderWay(change) :
          /\ change[r].step \in {"sent", "stored"}
          /\ change[r].kind \in {"create", "update", "remove", "clear"}
          /\ change[r].title \in Title \union {NoBookmark}
          /\ change[r].older \subseteq UnderWay(change)
    /\ strayed \in BOOLEAN

BookmarksInit ==
    /\ bookmark = NoBookmark /\ bookmarkRow = NoBookmark
    /\ change = [r \in Click |-> Idle]
    /\ strayed = FALSE

-----------------------------------------------------------------------------
Send(r, kind, title) ==
    /\ change[r] = Idle
    /\ change' = [change EXCEPT ![r] = [step |-> "sent", kind |-> kind, title |-> title,
                                        older |-> UnderWay(change)]]
    /\ strayed' = (strayed \/ (kind = "update"
                                 /\ \E o \in UnderWay(change) : change[o].kind \in {"create", "clear"}))
    /\ UNCHANGED bookmarkRow

\* A bookmark that exists is answered as it is.
CreateBookmark(r, title) ==
    bookmark = NoBookmark /\ Send(r, "create", title) /\ UNCHANGED bookmark

\* The entry has its new title before the query.
UpdateBookmark(r, title) ==
    bookmark # NoBookmark /\ Send(r, "update", title) /\ bookmark' = title

\* Mutant of RemoveBookmark: the entry goes before the query.
RemoveBookmarkEarly(r) ==
    bookmark # NoBookmark /\ Send(r, "remove", NoBookmark) /\ bookmark' = NoBookmark

RemoveBookmark(r) ==
    bookmark # NoBookmark /\ Send(r, "remove", NoBookmark) /\ UNCHANGED bookmark

ClearAll(r) == MayReset /\ Send(r, "clear", NoBookmark) /\ UNCHANGED bookmark

\* The unique index, and the row that an update or a deletion must find.
Permitted(r) ==
    /\ change[r].kind = "create" => bookmarkRow = NoBookmark
    /\ change[r].kind \in {"update", "remove"} => bookmarkRow # NoBookmark

StoreBookmark(r) ==
    /\ change[r].step = "sent"
    /\ Permitted(r)
    /\ bookmarkRow' = change[r].title
    /\ change' = [change EXCEPT ![r].step = "stored"]
    /\ strayed' = (strayed \/ OvertakesQuery(change, r))
    /\ UNCHANGED bookmark

RefuseBookmark(r) ==
    /\ change[r].step = "sent"
    /\ ~Permitted(r)
    /\ change' = Ended(change, r)
    /\ strayed' = (strayed \/ OvertakesQuery(change, r))
    /\ UNCHANGED <<bookmark, bookmarkRow>>

ResumeBookmark(r) ==
    /\ change[r].step = "stored"
    /\ bookmark' = IF change[r].kind = "update" THEN bookmark ELSE change[r].title
    /\ change' = Ended(change, r)
    /\ strayed' = (strayed \/ OvertakesAnswer(change, r))
    /\ UNCHANGED bookmarkRow

FailBookmark(r) ==
    /\ DbMayFail
    /\ r \in UnderWay(change)
    /\ change' = Ended(change, r)
    /\ strayed' = (strayed \/ change[r].step = "stored" \/ change[r].kind = "update")
    /\ UNCHANGED <<bookmark, bookmarkRow>>

RestartBookmarks ==
    /\ MayRestart
    /\ bookmark' = bookmarkRow
    /\ change' = [r \in Click |-> Idle]
    /\ strayed' = FALSE
    /\ UNCHANGED bookmarkRow

BookmarksNext ==
    \/ \E r \in Click :
          \/ \E title \in Title : CreateBookmark(r, title) \/ UpdateBookmark(r, title)
          \/ RemoveBookmark(r) \/ ClearAll(r)
          \/ StoreBookmark(r) \/ RefuseBookmark(r) \/ ResumeBookmark(r)
          \/ FailBookmark(r)
    \/ RestartBookmarks

BookmarksSpec == BookmarksInit /\ [][BookmarksNext]_bookmarkVars

-----------------------------------------------------------------------------
\* When nothing is under way, what the user sees is what a restart would bring
\* back, although double clicks and a reset run into one another: memory and
\* table differ only after queries overtook one another, an update failed, an
\* answer was lost, or an update changed an entry that was being replaced.
BookmarkIsStored ==
    UnderWay(change) = {} /\ ~strayed => bookmark = bookmarkRow
=============================================================================

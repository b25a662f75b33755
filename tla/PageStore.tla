----------------------------- MODULE PageStore -----------------------------
(***************************************************************************)
(* What the buffer pool promises its callers: pages with a content that    *)
(* only a caller who has the page pinned changes.  Which pages are in      *)
(* memory, which on disk, and when they move does not show.                *)
(***************************************************************************)
CONSTANTS
    Client,  \* threads that use the pool
    PageId,  \* pages of the open files
    Data,    \* contents of a page
    Zero     \* content of a new page

VARIABLES
    content,  \* what a reader of the page gets
    pinned    \* pages each client has pinned

storeVars == <<content, pinned>>

Pin(c, p) ==
    /\ p \notin pinned[c]
    /\ pinned' = [pinned EXCEPT ![c] = @ \cup {p}]
    /\ UNCHANGED content

\* A new page: nobody has it, it is empty.
Create(c, p) ==
    /\ \A d \in Client : p \notin pinned[d]
    /\ pinned' = [pinned EXCEPT ![c] = @ \cup {p}]
    /\ content' = [content EXCEPT ![p] = Zero]

Change(c, p, data) ==
    /\ p \in pinned[c]
    /\ content' = [content EXCEPT ![p] = data]
    /\ UNCHANGED pinned

Unpin(c, p) ==
    /\ p \in pinned[c]
    /\ pinned' = [pinned EXCEPT ![c] = @ \ {p}]
    /\ UNCHANGED content

Init ==
    /\ content = [p \in PageId |-> Zero]
    /\ pinned = [c \in Client |-> {}]

Next ==
    \E c \in Client, p \in PageId :
        \/ Pin(c, p) \/ Create(c, p) \/ Unpin(c, p)
        \/ \E data \in Data : Change(c, p, data)

Spec == Init /\ [][Next]_storeVars

=============================================================================

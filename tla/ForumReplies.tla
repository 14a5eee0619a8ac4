---------------------------- MODULE ForumReplies ----------------------------
(***************************************************************************)
(* forum_threads.reply_count as kept by ForumPostRepositoryImpl            *)
(* (src/backend/repository/forum_post.go).  CreatePost and DeletePost are  *)
(* each several autocommit statements issued one after the other by a      *)
(* caller goroutine; callers run concurrently (one per HTTP request, over  *)
(* the *sql.DB pool).  Each statement is one atomic step; a caller's local *)
(* variables (the post id, the thread id read by DeletePost) are kept per  *)
(* caller.  Only thread_id of a post matters here: user, content and       *)
(* timestamps are left out, as is view_count (IncrementViewCount is one    *)
(* atomic UPDATE no property reads).  CreateThread and DeleteThread of     *)
(* ForumThreadRepositoryImpl (forum_thread.go) add and remove the rows     *)
(* reply_count lives in.  The schema is not in the repository: posts are   *)
(* assumed to reference their thread by a foreign key, whose ON DELETE is  *)
(* either CASCADE or the default NO ACTION (CascadeDelete), and a new      *)
(* thread's reply_count column to default to 0.  A statement either fails *)
(* with no effect, or succeeds; with ReplyMayBeLost an INSERT or DELETE    *)
(* can also take effect and still return an error (the connection drops   *)
(* before the reply arrives), and the method then skips its UPDATE.        *)
(***************************************************************************)
EXTENDS Integers, FiniteSets

CONSTANTS
    Threads,        \* ids of the forum_threads rows
    Posts,          \* ids uuid.New() may return
    Callers,        \* concurrent callers of the repository
    NoThread,       \* thread_id of a post id with no row
    UpdateMayFail,  \* whether the trailing reply_count UPDATE can fail
    ReplyMayBeLost, \* whether an INSERT/DELETE can commit and return an error
    CascadeDelete   \* whether deleting a thread deletes its posts

ASSUME /\ NoThread \notin Threads
       /\ UpdateMayFail \in BOOLEAN
       /\ ReplyMayBeLost \in BOOLEAN
       /\ CascadeDelete \in BOOLEAN

VARIABLES
    live,        \* the forum_threads rows
    threadUsed,  \* thread ids uuid.New() has returned
    thread,      \* forum_posts: thread[p] is p's thread_id, NoThread if no row
    used,        \* post ids uuid.New() has returned
    replyCount,  \* forum_threads.reply_count
    pc,          \* where each caller is
    argPost,     \* the post id the caller works on
    argThread,   \* CreatePost's post.ThreadID, DeletePost's scanned threadID
    lostInc,     \* history: increments of t skipped or lost on an error path
    lostDec      \* history: decrements of t skipped or lost on an error path

fvars == <<live, threadUsed, thread, used, replyCount, pc, argPost, argThread, lostInc, lostDec>>

PcValues == {"idle", "create_inc", "delete_row", "delete_dec"}

TypeOK ==
    /\ live \subseteq threadUsed
    /\ threadUsed \subseteq Threads
    /\ thread \in [Posts -> Threads \cup {NoThread}]
    /\ used \subseteq Posts
    /\ replyCount \in [Threads -> Int]
    /\ pc \in [Callers -> PcValues]
    /\ argPost \in [Callers -> Posts]
    /\ argThread \in [Callers -> Threads]
    /\ lostInc \in [Threads -> Nat]
    /\ lostDec \in [Threads -> Nat]

Init ==
    /\ live = {}
    /\ threadUsed = {}
    /\ thread = [p \in Posts |-> NoThread]
    /\ used = {}
    /\ replyCount = [t \in Threads |-> 0]
    /\ pc = [w \in Callers |-> "idle"]
    /\ argPost = [w \in Callers |-> CHOOSE p \in Posts : TRUE]
    /\ argThread = [w \in Callers |-> CHOOSE t \in Threads : TRUE]
    /\ lostInc = [t \in Threads |-> 0]
    /\ lostDec = [t \in Threads |-> 0]

PostsOf(t) == {p \in Posts : thread[p] = t}

-----------------------------------------------------------------------------
(* The INSERT has taken effect but its reply was lost: Scan returns an     *)
(* error, so CreatePost skips the increment and returns the error.         *)
InsertReplyLost(w, t) ==
    /\ ReplyMayBeLost
    /\ pc' = [pc EXCEPT ![w] = "idle"]
    /\ lostInc' = [lostInc EXCEPT ![t] = @ + 1]

(* Seeded fault: the increment runs whether or not the INSERT succeeded    *)
(* (the err == nil test dropped).                                          *)
CreatePostInsertNoCheck(w, t) ==
    /\ pc[w] = "idle"
    /\ t \in live
    /\ \/ \E p \in Posts \ used :
             /\ thread' = [thread EXCEPT ![p] = t]
             /\ used' = used \cup {p}
             /\ argPost' = [argPost EXCEPT ![w] = p]
       \/ UNCHANGED <<thread, used, argPost>>
    /\ argThread' = [argThread EXCEPT ![w] = t]
    /\ pc' = [pc EXCEPT ![w] = "create_inc"]
    /\ UNCHANGED <<live, threadUsed, replyCount, lostInc, lostDec>>

(* CreatePost: the INSERT with a fresh uuid takes effect, and Scan either  *)
(* returns nil (the increment follows) or loses the reply.  (When the      *)
(* INSERT fails, as it does for a thread row that does not exist, the      *)
(* method returns the error and nothing has changed.)                      *)
CreatePostInsert(w, t) ==
    /\ pc[w] = "idle"
    /\ t \in live
    /\ \E p \in Posts \ used :
          /\ thread' = [thread EXCEPT ![p] = t]
          /\ used' = used \cup {p}
          /\ argPost' = [argPost EXCEPT ![w] = p]
          /\ \/ pc' = [pc EXCEPT ![w] = "create_inc"] /\ UNCHANGED lostInc
             \/ InsertReplyLost(w, t)
    /\ argThread' = [argThread EXCEPT ![w] = t]
    /\ UNCHANGED <<live, threadUsed, replyCount, lostDec>>

(* CreatePost: UPDATE reply_count = reply_count + 1; its error is ignored, *)
(* so a failure just loses the increment.  A deleted thread has no row to *)
(* update.                                                                 *)
CreatePostIncrement(w) ==
    /\ pc[w] = "create_inc"
    /\ \/ /\ replyCount' = [replyCount EXCEPT ![argThread[w]] =
                                IF argThread[w] \in live THEN @ + 1 ELSE @]
          /\ UNCHANGED lostInc
       \/ /\ UpdateMayFail
          /\ lostInc' = [lostInc EXCEPT ![argThread[w]] = @ + 1]
          /\ UNCHANGED replyCount
    /\ pc' = [pc EXCEPT ![w] = "idle"]
    /\ UNCHANGED <<live, threadUsed, thread, used, argPost, argThread, lostDec>>

(* Seeded fault: the SELECT error is not checked, so a deleted post is     *)
(* processed with the zero thread id.                                      *)
DeletePostSelectNoCheck(w, p) ==
    /\ pc[w] = "idle"
    /\ argPost' = [argPost EXCEPT ![w] = p]
    /\ argThread' = [argThread EXCEPT ![w] = thread[p]]
    /\ pc' = [pc EXCEPT ![w] = "delete_row"]
    /\ UNCHANGED <<live, threadUsed, thread, used, replyCount, lostInc, lostDec>>

(* DeletePost: SELECT thread_id finds the row.  (ErrNoRows or a query      *)
(* error returns with nothing changed.)                                    *)
DeletePostSelect(w, p) ==
    /\ pc[w] = "idle"
    /\ thread[p] # NoThread
    /\ argPost' = [argPost EXCEPT ![w] = p]
    /\ argThread' = [argThread EXCEPT ![w] = thread[p]]
    /\ pc' = [pc EXCEPT ![w] = "delete_row"]
    /\ UNCHANGED <<live, threadUsed, thread, used, replyCount, lostInc, lostDec>>

(* Seeded fault: the decrement runs even when the DELETE failed.           *)
DeletePostDeleteNoCheck(w) ==
    /\ pc[w] = "delete_row"
    /\ \/ thread' = [thread EXCEPT ![argPost[w]] = NoThread]
       \/ UNCHANGED thread
    /\ pc' = [pc EXCEPT ![w] = "delete_dec"]
    /\ UNCHANGED <<live, threadUsed, used, replyCount, argPost, argThread, lostInc, lostDec>>

(* DeletePost: DELETE FROM forum_posts.  Deleting no row is not an error.  *)
(* On an Exec error the method returns it without touching reply_count:   *)
(* the DELETE either had no effect, or took effect and lost its reply, in  *)
(* which case the decrement of the thread is skipped.                      *)
DeletePostDelete(w) ==
    /\ pc[w] = "delete_row"
    /\ \/ /\ thread' = [thread EXCEPT ![argPost[w]] = NoThread]
          /\ pc' = [pc EXCEPT ![w] = "delete_dec"]
          /\ UNCHANGED lostDec
       \/ /\ pc' = [pc EXCEPT ![w] = "idle"]
          /\ UNCHANGED <<thread, lostDec>>
       \/ /\ ReplyMayBeLost
          /\ thread' = [thread EXCEPT ![argPost[w]] = NoThread]
          /\ pc' = [pc EXCEPT ![w] = "idle"]
          /\ lostDec' = [lostDec EXCEPT ![argThread[w]] =
                             IF thread[argPost[w]] = NoThread THEN @ ELSE @ + 1]
    /\ UNCHANGED <<live, threadUsed, used, replyCount, argPost, argThread, lostInc>>

(* DeletePost: UPDATE reply_count = reply_count - 1 on the thread read     *)
(* before the DELETE; its error is ignored.                                *)
DeletePostDecrement(w) ==
    /\ pc[w] = "delete_dec"
    /\ \/ /\ replyCount' = [replyCount EXCEPT ![argThread[w]] =
                                IF argThread[w] \in live THEN @ - 1 ELSE @]
          /\ UNCHANGED lostDec
       \/ /\ UpdateMayFail
          /\ argThread[w] \in live
          /\ lostDec' = [lostDec EXCEPT ![argThread[w]] = @ + 1]
          /\ UNCHANGED replyCount
    /\ pc' = [pc EXCEPT ![w] = "idle"]
    /\ UNCHANGED <<live, threadUsed, thread, used, argPost, argThread, lostInc>>

(* CreateThread: INSERT a thread with a fresh uuid; reply_count takes its  *)
(* default, 0.  (A failed INSERT returns the error with nothing changed.)  *)
CreateThread(t) ==
    /\ t \in Threads \ threadUsed
    /\ threadUsed' = threadUsed \cup {t}
    /\ live' = live \cup {t}
    /\ replyCount' = [replyCount EXCEPT ![t] = 0]
    /\ UNCHANGED <<thread, used, pc, argPost, argThread, lostInc, lostDec>>

(* DeleteThread: DELETE FROM forum_threads.  With ON DELETE CASCADE the    *)
(* thread's posts go in the same statement; without it the DELETE fails   *)
(* while the thread has posts.  Deleting no row is not an error.           *)
DeleteThread(t) ==
    /\ t \in live
    /\ CascadeDelete \/ PostsOf(t) = {}
    /\ live' = live \ {t}
    /\ thread' = [p \in Posts |-> IF thread[p] = t THEN NoThread ELSE thread[p]]
    /\ UNCHANGED <<threadUsed, used, replyCount, pc, argPost, argThread, lostInc, lostDec>>

Next ==
    \/ \E t \in Threads : CreateThread(t) \/ DeleteThread(t)
    \/ \E w \in Callers :
        \/ \E t \in Threads : CreatePostInsert(w, t)
        \/ CreatePostIncrement(w)
        \/ \E p \in used : DeletePostSelect(w, p)
        \/ DeletePostDelete(w)
        \/ DeletePostDecrement(w)

Spec == Init /\ [][Next]_fvars

-----------------------------------------------------------------------------
(* reply_count over-counts only through DeletePost: a thread's count is at *)
(* most its posts, plus the DeletePost calls that removed one of them and  *)
(* have not yet decremented, plus the decrements skipped on an error path  *)
(* (an ignored UPDATE error, or a DELETE that took effect and lost its     *)
(* reply).  CreatePost never makes the count run ahead of the rows, under  *)
(* any interleaving of callers and any statement failure.                  *)
ReplyCountNeverOver ==
    \A t \in live :
        replyCount[t] <=
            Cardinality(PostsOf(t))
            + Cardinality({w \in Callers : pc[w] = "delete_dec" /\ argThread[w] = t})
            + lostDec[t]

(* reply_count is the number of the thread's posts whenever no             *)
(* CreatePost or DeletePost is in flight (the comments at forum_post.go    *)
(* 69 and 98 say the counter follows the posts).                           *)
ReplyCountConsistent ==
    (\A w \in Callers : pc[w] = "idle") =>
        \A t \in live : replyCount[t] = Cardinality(PostsOf(t))

(* With one caller at a time, reply_count drifts from the thread's posts   *)
(* only by the error paths of CreatePost and DeletePost: when no call is   *)
(* in flight it is the posts, minus the increments an ignored UPDATE error *)
(* or a lost INSERT reply skipped, plus the decrements an ignored UPDATE   *)
(* error or a lost DELETE reply skipped.  A DELETE that fails, or deletes  *)
(* nothing, must not cost the counter a decrement.                         *)
ReplyCountOffOnlyByErrors ==
    (\A w \in Callers : pc[w] = "idle") =>
        \A t \in live :
            replyCount[t] = Cardinality(PostsOf(t)) - lostInc[t] + lostDec[t]
=============================================================================

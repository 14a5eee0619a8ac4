--------------------------- MODULE MCForumReplies ---------------------------
(* ForumReplies for TLC: two threads, three post ids, and one or two       *)
(* concurrent callers depending on the configuration.                      *)
EXTENDS ForumReplies

CONSTANTS t1, t2, p1, p2, p3, w1, w2

MCThreads == {t1, t2}
MCPosts == {p1, p2, p3}
OneCaller == {w1}
TwoCallers == {w1, w2}
=============================================================================

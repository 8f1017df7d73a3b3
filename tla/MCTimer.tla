------------------------------- MODULE MCTimer ------------------------------
(* Instances of Timer for TLC.                                             *)
EXTENDS Timer

\* Short delays, as the comment of js_timer_rbtree_compare assumes.
Short == {0, 3}
\* The longest delay JS_ToInt32 returns, and none at all.
Longest == {0, Half - 1}
=============================================================================

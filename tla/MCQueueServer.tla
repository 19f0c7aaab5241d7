--------------------------- MODULE MCQueueServer ---------------------------
(* TLC instances of QueueServer. *)
EXTENDS QueueServer

\* Every behaviour can fill the queue and run it; a profile adds one topic.
Basic == {"environment_open", "queue_item_add", "queue_start"}
AllProfiles ==
  { Basic \cup {"queue_autostart", "environment_destroy", "queue_item_execute"},
    Basic \cup {"queue_autostart", "queue_stop", "queue_stop_cancel", "environment_close"},
    Basic \cup {"queue_item_add_batch", "queue_item_move", "queue_item_move_batch",
                 "queue_item_remove", "queue_item_update", "queue_clear"},
    Basic \cup {"queue_mode_set", "history_clear", "re_abort", "queue_clear", "environment_close"},
    Basic \cup {"re_pause", "re_resume", "re_halt", "re_stop", "environment_destroy"},
    Basic \cup {"console", "queue_item_execute", "environment_close", "environment_destroy"},
    Basic \cup {"shutdown", "manager_stop", "environment_destroy"} }

FewPlaces == {Pos(-1), Pos(0), Before(1), After(1)}

MoveProfile == {Basic \cup {"queue_item_move"}}
=============================================================================

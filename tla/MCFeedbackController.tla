------------------------ MODULE MCFeedbackController ------------------------
(* Model values for the runs of FeedbackController. *)
EXTENDS FeedbackController
=============================================================================

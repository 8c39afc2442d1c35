----------------------------- MODULE MCPublishing -----------------------------
(***************************************************************************)
(* TLC instance of Publishing: ann has published one post and owns what    *)
(* images there are at the beginning, bob is another author.  The drafts   *)
(* write two images and two hashtags in both orders, repeat one and leave  *)
(* one blank.                                                              *)
(***************************************************************************)
EXTENDS Publishing

CONSTANTS ann, bob, i1, i2, t1, t2

Draft(images, tags) == [valid |-> TRUE, images |-> images, tags |-> tags]

MCDrafts ==
    {Draft(<<i1, i2>>, <<>>), Draft(<<i2, i1, i2>>, <<t1>>),
     Draft(<<>>, <<t1, None, t2>>), Draft(<<i1>>, <<t2, t1, t2>>),
     [valid |-> FALSE, images |-> <<>>, tags |-> <<>>]}

(* The early post is ann's and has two hashtags; images are ann's.         *)
MCInit ==
    /\ PublishingInit
    /\ \A e \in Early : post[e].author = ann /\ post[e].tags = {t1, t2}
    /\ \A m \in Assets : asset[m] # None => asset[m].owner = ann

MCSpec == MCInit /\ [][PublishingNext]_publishingVars
              /\ \A r \in Requests : WF_publishingVars(Progress(r))

=============================================================================

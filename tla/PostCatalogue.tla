----------------------------- MODULE PostCatalogue -----------------------------
(***************************************************************************)
(* What publishing, editing and deleting posts promise together, each in   *)
(* one step: a post appears whole or not at all, an image illustrates one  *)
(* post for ever, a hashtag counts the posts that carry it and have not    *)
(* been withdrawn, and edits of a post form one chain of versions.  The    *)
(* media component changes asset beside them.                              *)
(***************************************************************************)
EXTENDS Integers, FiniteSets

CONSTANTS Posts, Users, Assets, Tags, None

VARIABLES
    asset,          \* asset[m]: the row of media_assets, or None
    catalogue,      \* catalogue[p]: what a reader of p is shown, or None
    withdrawn,      \* the posts their authors have deleted
    holder,         \* holder[m]: the post that image m illustrates, or None
    count           \* count[t]: hashtags.post_count

shelves == <<catalogue, withdrawn, holder, count>>

(* A text is named by the request that wrote it, a new post's by its own.  *)
Entry == [author : Users, tags : SUBSET Tags, version : Nat \ {0}, text : Posts]

Counted(entries) ==
    [t \in Tags |-> Cardinality({p \in Posts : entries[p] # None /\ t \in entries[p].tags})]

CatalogueInit == withdrawn = {} /\ count = Counted(catalogue)

Becomes(p, entry) == catalogue' = [catalogue EXCEPT ![p] = entry]

(* The images a post takes are its author's own, confirmed, and illustrate *)
(* nothing yet.                                                            *)
Publish(p) ==
    LET entry == catalogue'[p]
        taken == {m \in Assets : holder'[m] # holder[m]}
    IN  /\ catalogue[p] = None /\ p \notin withdrawn
        /\ entry \in Entry /\ entry.version = 1 /\ entry.text = p
        /\ Becomes(p, entry)
        /\ \A m \in taken :
              /\ holder[m] = None /\ holder'[m] = p
              /\ asset[m] = [owner |-> entry.author, status |-> "USABLE"]
        /\ UNCHANGED withdrawn

Edit(p) ==
    /\ catalogue[p] # None
    /\ \E text \in Posts :
          Becomes(p, [catalogue[p] EXCEPT !.version = @ + 1, !.text = text])
    /\ UNCHANGED <<withdrawn, holder>>

Withdraw(p) ==
    /\ catalogue[p] # None
    /\ Becomes(p, None)
    /\ withdrawn' = withdrawn \cup {p}
    /\ UNCHANGED holder

CatalogueNext ==
    /\ \E p \in Posts : Publish(p) \/ Edit(p) \/ Withdraw(p)
    /\ count' = Counted(catalogue')

(* An image keeps its owner, and once usable it remains so.                *)
AssetsGrow ==
    \A m \in Assets :
        asset[m] # None => asset'[m] \in {asset[m], [asset[m] EXCEPT !.status = "USABLE"]}

CatalogueSpec ==
    CatalogueInit /\ [][CatalogueNext]_shelves /\ [][AssetsGrow]_asset

=============================================================================

--------------------------- MODULE MCPostDetails ---------------------------
(* TLC instance of PostDetails: a regular post, a comment on it, a post    *)
(* that shares the comment, one that shares the regular post, and a        *)
(* comment on that.                                                        *)
EXTENDS PostDetails

CONSTANTS regular, comment, sharesComment, sharesRegular, reply, s1, s2, ann, bob

MCPostIds == {regular, comment, sharesComment, sharesRegular, reply}
MCSpaceIds == {s1, s2}
MCAccounts == {ann, bob}
MCComments == {comment, reply}
MCExt == [p \in MCPostIds |-> CASE p = regular -> None
                                [] p \in {comment, sharesRegular} -> regular
                                [] p = sharesComment -> comment
                                [] p = reply -> sharesRegular]
MCCreator == [p \in MCPostIds |-> IF p \in {regular, sharesComment} THEN ann ELSE bob]

MCGenesis ==
  { [postSpace    |-> [p \in MCPostIds |-> CASE p \in MCComments -> None
                                             [] p = regular -> s1
                                             [] OTHER -> s2],
     publicPosts  |-> MCPostIds,
     publicSpaces |-> MCSpaceIds,
     spaceOwner   |-> [x \in MCSpaceIds |-> IF x = s1 THEN ann ELSE bob],
     profile      |-> [a \in MCAccounts |-> IF a = ann THEN s1 ELSE s]] : s \in {s2, None} }

MCRequest(ids, space, owner, vis) ==
  [ids |-> ids, withSpace |-> space, withOwner |-> owner, visibility |-> vis]

MCRequests ==
  { MCRequest(<<comment, sharesComment>>, TRUE, TRUE, "all"),
    MCRequest(<<sharesComment, sharesRegular>>, TRUE, FALSE, "onlyVisible"),
    MCRequest(<<reply, sharesRegular, regular>>, TRUE, FALSE, "all"),
    MCRequest(<<comment, sharesRegular, regular, comment>>, FALSE, TRUE, "onlyVisible") }
=============================================================================

------------------------- MODULE MCMigrationHistory -------------------------
(* One project of two models, as it might change: a unique column and a second *)
(* model that belongs to the first, a rename beside stricter and wider columns, *)
(* two models that point at each other, an enum, a pivot and the traits.       *)
EXTENDS MigrationHistory

Attr(name, type) ==
  [name |-> name, type |-> type, null |-> TRUE, uniq |-> FALSE, def |-> "", vals |-> {},
   fk |-> "", base |-> "", typeOf |-> ""]
Model(name, table, attrs) ==
  [model |-> name, table |-> table, pk |-> "id", attrs |-> attrs, belongsTo |-> <<>>, traits |-> {},
   indexes |-> <<>>, likes |-> "", fkName |-> "", pivots |-> <<>>]
Rel(model, fk) == [model |-> model, fk |-> fk, onDelete |-> "cascade"]

User(attrs) == Model("User", "users", attrs)
Post(attrs) == [Model("Post", "posts", attrs) EXCEPT !.belongsTo = <<Rel("User", "user_id")>>, !.fkName = "post_id"]
Views       == Attr("views", "integer")
NameCol     == Attr("name", "string")
Email       == [Attr("email", "string") EXCEPT !.uniq = TRUE]

First    == <<User(<<NameCol>>)>>
Second   == <<Post(<<Attr("title", "string"), Views>>), User(<<NameCol, Email>>)>>
Changed  == <<Post(<<Attr("headline", "string"), [Views EXCEPT !.null = FALSE]>>),
              User(<<Attr("name", "text"), Email>>)>>
Role     == [Attr("role", "enum") EXCEPT !.vals = {"admin", "guest"}]
Cyclic   == <<Post(<<Attr("title", "string")>>),
              [User(<<NameCol, Role>>) EXCEPT !.belongsTo = <<Rel("Post", "pinned_id")>>]>>
Owned    == <<[Attr("owner_id", "") EXCEPT !.base = "Owner"], [Attr("owner_type", "string") EXCEPT !.typeOf = "Owner"]>>
LikedPost == [Post(<<Attr("title", "string")>> \o Owned) EXCEPT
                !.traits = {"likeable", "useUuid", "useTimestamps", "useSoftDeletes"}, !.likes = "posts_likes",
                !.indexes = <<Index(<<"posts", "title_index">>, <<"title">>, FALSE)>>]
Liked    == <<LikedPost,
              [User(<<NameCol, Role>>) EXCEPT !.fkName = "member_id", !.traits = {"categorizable", "taggable"},
                 !.pivots = <<[model |-> "Post", table |-> "post_user", relatedKey |-> "post_id",
                               cols |-> <<>>, timestamps |-> TRUE]>>]>>
AllVersions == {First, Second, Changed, Cyclic, Liked}
=============================================================================

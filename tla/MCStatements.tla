---- MODULE MCStatements ----
EXTENDS BuilderPromises

MCDialects == {"sqlite", "postgres"}
MCSoftModes == BOOLEAN
MCRelations ==
  [users |-> [posts  |-> [type |-> "hasMany", target |-> "posts", pivot |-> "none"],
              roles  |-> [type |-> "belongsToMany", target |-> "roles", pivot |-> "role_user"],
              badges |-> [type |-> "hasManyThrough", target |-> "badges", pivot |-> "posts"]],
   posts |-> [author |-> [type |-> "belongsTo", target |-> "users", pivot |-> "none"]]]
====

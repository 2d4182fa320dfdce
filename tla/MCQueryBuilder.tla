--------------------------- MODULE MCQueryBuilder ---------------------------
(* Five objects: 1 and 3 are the client's sitegroup's, 2 is shared, 4 another
   sitegroup's and 5 deleted; 1 has contents in two languages and two parameters,
   one of them deleted, 3 has no topic and lacks the default language. Some of
   the names lead nowhere. *)
EXTENDS QueryBuilder, TLC

SomeObjects ==
  {[id |-> 1, value |-> 1, topic |-> 11, sitegroup |-> 1, deleted |-> FALSE],
   [id |-> 2, value |-> 1, topic |-> 12, sitegroup |-> 0, deleted |-> FALSE],
   [id |-> 3, value |-> 2, topic |-> 0, sitegroup |-> 1, deleted |-> FALSE],
   [id |-> 4, value |-> 2, topic |-> 11, sitegroup |-> 2, deleted |-> FALSE],
   [id |-> 5, value |-> 1, topic |-> 12, sitegroup |-> 1, deleted |-> TRUE]}
SomeContents ==
  {[sid |-> 1, lang |-> 0, value |-> 1], [sid |-> 1, lang |-> 1, value |-> 2],
   [sid |-> 2, lang |-> 0, value |-> 2], [sid |-> 3, lang |-> 1, value |-> 1],
   [sid |-> 5, lang |-> 0, value |-> 1], [sid |-> 3, lang |-> 2, value |-> 2]}
SomeTopics == {[id |-> 11, up |-> 0, value |-> 1], [id |-> 12, up |-> 11, value |-> 2]}
SomeExtensions ==
  {[parent |-> 1, value |-> 1, deleted |-> FALSE], [parent |-> 1, value |-> 2, deleted |-> TRUE],
   [parent |-> 3, value |-> 1, deleted |-> FALSE], [parent |-> 3, value |-> 2, deleted |-> FALSE],
   [parent |-> 11, value |-> 1, deleted |-> FALSE]}

SomeSettings ==
  {[multilang |-> FALSE, lang |-> 0, default |-> 0, root |-> FALSE, sitegroup |-> 1],
   [multilang |-> TRUE, lang |-> 1, default |-> 0, root |-> FALSE, sitegroup |-> 1]}

SomeCompared ==
  {<<<<"value">>, {1}>>, <<<<"parameter", "value">>, {}>>, <<<<"title">>, {2}>>, <<<<"topic", "value">>, {1}>>,
   <<<<"parameter", "value">>, {1}>>, <<<<"topic", "name">>, {1}>>}
SomeRelated == {<<<<"value">>, <<"topic", "value">>>>,
                <<<<"value">>, <<"topic", "name">>>>}
SomeBelow == {<<"topic">>, <<"value">>}
SomeSorted == {<<<<"value">>, "ASC">>, <<<<"topic", "value">>, None>>, <<<<"topic", "name">>, "ASC">>}
SomeColumns == {<<"value">>, <<"title">>, <<"topic", "value">>, <<"topic", "name">>}
Bounds == [conditions |-> 3, groups |-> 2, settings |-> 1, columns |-> 2]

=============================================================================

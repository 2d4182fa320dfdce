-------------------------------- MODULE MCStorage --------------------------------
(* Schema.tla and Storage.tla on small sets of schema files. *)
EXTENDS Storage
CONSTANTS i, j
Alike == Permutations(Session)

Prop(name, attrs) == [name |-> name, attrs |-> attrs]
Id == Prop("id", <<<<"type", "unsigned integer">>, <<"primaryfield", "id">>>>)
LinkTo(class, target) == <<"link", [class |-> class, target |-> target]>>
Uint == <<"type", "unsigned integer">>

Person == [name |-> "midgard_person", table |-> "person", parent |-> None, props |-> <<Id>>]
Member == [name |-> "midgard_member", table |-> "member", parent |-> None,
           props |-> <<Id, Prop("uid", <<Uint, LinkTo("midgard_person", "id")>>)>>]
(* A tree whose titles are in a table of their own, and what is in it. *)
Topic == [name |-> "midgard_topic", table |-> "topic", parent |-> None,
          props |-> <<Id, Prop("up", <<LinkTo("midgard_topic", "id"), Uint, <<"upfield", "up">>>>),
                      Prop("code", <<<<"type", "guid">>>>),
                      Prop("title", <<<<"type", "text">>, <<"table", "topic_i">>, <<"multilang", "yes">>>>)>>]
Article == [name |-> "midgard_article", table |-> "article", parent |-> "midgard_topic",
            props |-> <<Prop("topic", <<<<"type", "guid">>, LinkTo("midgard_topic", "code"),
                                        <<"parentfield", "topic">>>>)>>]
(* A class of the same table, with a primary property, a topic without index,
   and texts in two tables, the name of one of which is part of the other's. *)
Story == [name |-> "story", table |-> "article", parent |-> "midgard_topic",
          props |-> <<Id, Prop("topic", <<<<"type", "string">>, <<"dbtype", "varchar(80)">>>>),
                      Prop("lead", <<<<"table", "story_long">>>>), Prop("body", <<<<"table", "story">>>>)>>]

File(ts, includes) == [types |-> ts, includes |-> includes]
Basic == File(<<Person, Member>>, <<>>)
Xml == {"d/x.xml", "d/y.xml", "d/e/z.xml", "d/old.xml"}
Files(dir, folders, file) ==
  [global |-> "global", dir |-> dir, folders |-> folders, xml |-> Xml,
   file |-> ("global" :> Basic) @@ file]

(* Includes in a circle, of a directory and of a file in it. *)
Circle ==
  Files({"a"}, ("d" :> {"d/x.xml", "d/y.xml", "d/e"}) @@ ("d/e" :> {"d/e/z.xml"}),
        ("a" :> File(<<>>, <<"lib", "d", "d/x.xml">>)) @@ ("lib" :> File(<<Article>>, <<"a", "gone">>))
        @@ ("d/x.xml" :> File(<<Story>>, <<>>)) @@ ("d/e/z.xml" :> File(<<Topic>>, <<>>))
        @@ ("d/y.xml" :> File(<<>>, <<>>)))

SomeSources == {
  Files({"a", "b"}, <<>>, ("a" :> File(<<Article>>, <<>>)) @@ ("b" :> File(<<Topic>>, <<>>))),
  Circle,
  Files({"a", "b"}, <<>>, ("a" :> File(<<Article>>, <<"lib">>)) @@ ("b" :> File(<<>>, <<"lib">>))
                        @@ ("lib" :> File(<<Topic>>, <<>>))),
  Files({"a", "b"}, <<>>, ("a" :> File(<<Article>>, <<>>)) @@ ("b" :> Malformed)),
  Files({"a"}, ("d" :> {"d/old.xml"}) @@ ("d/old.xml" :> {}), ("a" :> File(<<Article>>, <<"d">>))) }
CircleOnly == {Circle}

NoTables == [t \in {"repligard", "sitegroup", "person", "member", "topic", "topic_i", "article",
                   "story", "story_long"} |-> NoTable]
(* An older release kept topic's codes in a short indexed text. *)
OldTopic == [cols |-> ("id" :> "int(11)") @@ ("guid" :> "varchar(80)") @@ ("sitegroup" :> "int(11)")
                      @@ ("up" :> "int(11)") @@ ("code" :> "varchar(100)"),
             idx |-> {<<"old", "up">>, <<"idx", "code">>, <<"old", "code">>}]
(* Another kept the topics of articles so. *)
OldArticle == [cols |-> ("guid" :> "varchar(80)") @@ ("sitegroup" :> "int(11)") @@ ("topic" :> "varchar(100)"),
               idx |-> {<<"idx", "topic">>}]
Olds == {NoTables, [NoTables EXCEPT !["topic"] = OldTopic], [NoTables EXCEPT !["article"] = OldArticle]}

MetadataTypes == "metadata_creator" :> "varchar(80)"
PartOf(x, y) == x = "story" /\ y = "story_long"
===================================================================================

---------------------------- MODULE MCCachedTree ----------------------------
EXTENDS CachedTree, FiniteSets, TLC

MCNames == {"ann", "bob", "cy"}
\* ann and bob differ in the first byte of the key, ann and cy do not.  The
\* fourth byte, the upper one of the length, is 0.
MCKey == [n \in MCNames \cup {"."} |->
            CASE n = "ann" -> <<1, 1, 3, 0>>
              [] n = "bob" -> <<2, 2, 3, 0>>
              [] n = "cy"  -> <<1, 2, 2, 0>>
              [] n = "."   -> <<3, 3, 1, 0>>]
\* A name of two characters is not descended into.
MCDescended == {"ann", "bob"}
MCPaths == {<<n>> : n \in MCNames} \cup
           {<<"ann", "bob">>, <<"ann", "bob", "cy">>}
\* The layout of meta_data_entry_t.
MCEnd == [key |-> 4, name |-> 8, type |-> 9, padding |-> 16, record |-> 24, entry |-> 32]

\* For removals: one directory with many entries, each of five bytes, of which
\* the name has two, so that a removal can leave every field half moved that the
\* layout of 32 bytes lets it, with a handful of entries behind it.
FlatKey == [n \in Names \cup {Dot} |-> <<n>>]
FlatPaths == LET S == CHOOSE S \in SUBSET Names : Cardinality(S) = 2 IN {<<n>> : n \in S}
FlatEnd == [key |-> 1, name |-> 3, type |-> 4, padding |-> 4, record |-> 5, entry |-> 5]
FlatSymmetry == Permutations({n \in Names : <<n>> \notin FlatPaths})
=============================================================================

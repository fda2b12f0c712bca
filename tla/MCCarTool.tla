----------------------------- MODULE MCCarTool -----------------------------
(* Three catalogs: one of the versions that verify asks for, with branded   *)
(* facets, an image and a colour for them and a rendition of no facet; one  *)
(* of other versions whose facet has pairs out of order, with an image and  *)
(* a container; and one whose facet has a hot spot.  In the first the       *)
(* identifier is not the first attribute of a key, and a rendition has the  *)
(* identifier of another facet in the first place.                          *)
EXTENDS CarTool, TLC

Pair(identifier, value) == [identifier |-> identifier, value |-> value]
Facet(name, pairs, hot_spot) ==
  [key |-> name, value |-> [hot_spot |-> hot_spot, pairs |-> pairs]]
Rendition(key, kind) == [key |-> key, value |-> [kind |-> kind, content |-> "old"]]
Catalog(versions, format, facets, renditions, others) ==
  [bom |-> TRUE, relocated |-> TRUE,
   variables |-> others @@ [CARHEADER  |-> [versions |-> versions, storage_version |-> versions[2]],
                            KEYFORMAT  |-> format,
                            FACETKEYS  |-> facets,
                            RENDITIONS |-> renditions]]

Shell ==
  Catalog(<< 972, 17, 2 >>, << 12, 17 >>,
    {Facet("AppIcon", << Pair(12, 1), Pair(17, 1) >>, 0),
     Facet("SplashScreenBackground", << Pair(17, 3) >>, 0)},
    {Rendition(<< 2, 1 >>, "image"), Rendition(<< 1, 3 >>, "colour"),
     Rendition(<< 1, 4 >>, "image")}, [APPEARANCEKEYS |-> "a"])

Foreign ==
  Catalog(<< 500, 12, 4 >>, << 17, 6 >>,
    {Facet("SplashScreenLogo", << Pair(17, 2), Pair(1, 5) >>, 0)},
    {Rendition(<< 2, 0 >>, "image"), Rendition(<< 2, 1 >>, "container")}, [X |-> "x"])

Unusual ==
  Catalog(<< 972, 17, 2 >>, << 17 >>, {Facet("SplashScreenBackground", << Pair(17, 2) >>, 7)},
    {Rendition(<< 2 >>, "image")}, << >>)

SomeCatalogs == {Shell, Foreign, Unusual}

(* No path is treated in a way of its own. *)
PathsAlike == Permutations(Paths)
=============================================================================

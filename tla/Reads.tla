-------------------------------- MODULE Reads --------------------------------
(***************************************************************************)
(* What readers are given: the list of works with its counts, a work's     *)
(* pictures and their sizes, a blog post's editions.  The four share no    *)
(* state.  The list is this module's own, the others are named.            *)
(***************************************************************************)
EXTENDS Catalogue

CONSTANTS
    Avatars, Alternates, Galleries, FromFile, MaxVersions,
    Uploaded,   \* pictures, of a work or of a post
    Sizes, Viewers, Workers, MaxAsks,
    Slugs, NoSlug, Names, NoByline, MaxVersion, MaxEditions

VARIABLES
    carried, known, current, cover, gallery, recorded,
    picture, cache, space, slots, rendering, reader, asks,
    post, uses, editions, media, waiting, saving, addresses, byline, shown

Picture == INSTANCE Pictures WITH versions <- recorded

Size == INSTANCE ImageSizes WITH Pictures <- Uploaded, Readers <- Viewers

Visible == INSTANCE Editions WITH Pictures <- Uploaded, kept <- editions

ReadsSettings ==
    CatalogueSettings /\ Picture!Settings /\ Size!Settings /\ Visible!Settings

VersionsHaveTheirPictures == Picture!VersionsHaveTheirPictures

SlotsAreReturned == Size!SlotsAreReturned

PublicPostIsWhole == Visible!PublicPostIsWhole

ReadersReceiveThePictures == Visible!ReadersReceiveThePictures
===============================================================================

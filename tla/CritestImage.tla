----------------------------- MODULE CritestImage -----------------------------
(***************************************************************************)
(* The specs of src/pkg/validate/image.go, image_consistency.go,           *)
(* image_id_consistency.go and image_volume.go.  All but those of image    *)
(* volumes are Serial: they take away images others may be using.          *)
(***************************************************************************)
EXTENDS CritestSteps
LOCAL INSTANCE SequencesExt

TestImage == "test image with tag"

(* The image is removed by its id when its status shows it. *)
removeImage(i) == Do("RemoveImage", "", i, {})

testRemoveImage(i) == removeImage(i) \o NoImage(i)

testPullPublicImage(i, o) ==
  removeImage(i) \o PullPublicImage(i) \o HasImage(i) \o Honors(o)
    \o testRemoveImage(i)

(* The images of a list, one after the other. *)
pullImageList(images) == FlattenSeq([k \in DOMAIN images |-> PullPublicImage(images[k])])

HaveImages(images) == FlattenSeq([k \in DOMAIN images |-> HasImage(images[k])])

NoImages(images) == FlattenSeq([k \in DOMAIN images |-> NoImage(images[k])])

removeImageList(images) == FlattenSeq([k \in DOMAIN images |-> removeImage(images[k])])

ImageManager == Serial(Context("image manager", <<>>, <<>>))

PullingImages ==
  LET In(body, claims) == It(ImageManager, body, claims)
  IN [ imageWithTag    |-> In(testPullPublicImage(TestImage, {"repo tags"}),
                              {"repo tags"}),
       pullTimeout     |-> In(Honors({"pull timeout"}), {"pull timeout"}),
       imageWithoutTag |-> In(testPullPublicImage("without tag", {"repo tags"}),
                              {"repo tags"}),
       imageWithDigest |-> In(testPullPublicImage("with digest", {"repo digests"}),
                              {"repo digests"}),
       imageReferences |->
         In(removeImage("all references") \o PullPublicImage("all references")
              \o HasImage("all references") \o Honors({"references"})
              \o testRemoveImage("all references"), {"references"}) ]

(* Each image of the table is pulled, its removal deferred, its user read. *)
ImageUsers ==
  LET User(i) == PullPublicImage(i) \o Defer(removeImage(i))
                   \o HasImage(i) \o Honors({"image user"})
  IN [ imageUser |->
         It(ImageManager,
            User("uid") \o User("username") \o User("uid:group") \o User("username:group"),
            {"image user"}) ]

(* Lists: the images are gone first, and their removal is deferred once    *)
(* they are all pulled.                                                    *)
ListingImages ==
  LET Three == <<"image 1", "image 2", "image 3">>
      Multi == <<"multi:1", "multi:2", "multi:3">>
      List(images, o) ==
        It(ImageManager,
           removeImageList(images) \o pullImageList(images)
             \o Defer(removeImageList(images)) \o HaveImages(images)
             \o Honors(o), o)
  IN [ listThreeImages |-> List(Three, {"image list"}),
       listThreeTags   |-> List(Multi, {"repo tags"}) ]

(* To remove an image by one of its names removes the image.               *)
RemovingTags ==
  LET ByOne(images) ==
        It(ImageManager,
           removeImageList(images) \o pullImageList(images)
             \o HaveImages(images) \o removeImage(images[1])
             \o NoImages(images) \o Honors({"untags all"}),
           {"untags all"})
  IN [ removeByOneTag      |-> ByOne(<<"multi:1", "multi:2", "multi:3">>),
       removeByOneRegistry |-> ByOne(<<"one.registry", "other.registry">>) ]

-------------------------------------------------------------------------------
(* image_consistency.go.  "Spawn" starts the goroutines that remove the    *)
(* image and look at its status, each by itself; "Wait" ends when all did. *)
ImageConsistency ==
  LET In(body, claims) == It(Serial(Context("image consistency", <<>>, <<>>)),
                             body, claims)
      Pulled == removeImage(TestImage) \o PullPublicImage(TestImage)
  IN [ goneAfterRemoval |->
         In(Pulled \o removeImage(TestImage) \o NoImage(TestImage)
              \o Honors({"lists at once"}) \o NoImage(TestImage), {"lists at once"}),
       thereAfterPull |->
         In(Pulled \o Defer(removeImage(TestImage)) \o HasImage(TestImage)
              \o Honors({"lists at once"}) \o HasImage(TestImage),
            {"lists at once"}),
       simultaneousRemoval |->
         In(Pulled \o HasImage(TestImage) \o Do("Spawn", "", TestImage, {})
              \o Do("Wait", "", "", {}) \o NoImage(TestImage), {}) ]

(* image_id_consistency.go: everything is deferred as soon as it exists.   *)
ImageIdentifiers ==
  LET In(body, claims) == It(Serial(Context("image id consistency", <<>>, <<>>)),
                             body, claims)
      Pull(i) == PullPublicImage(i) \o Defer(removeImage(i))
      Use(i)  ==
        CreatePodSandboxForContainer("podID") \o Defer(CleanupPodSandbox("podID"))
          \o CreateWith("Create", "c", "podID", i, {"container image id"})
          \o Defer(removeContainer("c")) \o startContainer("c")
          \o Expect("c", "LISTED") \o SkipUnless("image id of containers")
          \o Shows("c", {"container image id"})
  IN [ sameIdEverywhere |->
         In(Pull(TestImage) \o HasImage(TestImage) \o Use(TestImage),
            {"container image id"}),
       sameIdRegistries |->
         In(Pull("one.registry") \o Pull("other.registry")
              \o Honors({"image id"}) \o HasImage("one.registry")
              \o HasImage("other.registry") \o Use("other.registry"),
            {"image id", "container image id"}) ]

-------------------------------------------------------------------------------
(* image_volume.go.  A runtime without image volumes may refuse them, in   *)
(* words that the specs know, or pass over them; both skip the spec.  The  *)
(* image stays.                                                            *)
CreateVolumeCtr(what, o) ==
  PullPublicImage(TestImage) \o CreatePodSandboxForContainer("podID")
    \o Defer(CleanupPodSandbox("podID"))
    \o CreateWith(what, "c", "podID", TestImage, {"image volume"} \cup o)

(* skipIfImageVolumeUnsupported(err, false), then the deferred removal.    *)
skipIfImageVolumeUnsupported(o) ==
  CreateVolumeCtr("CreateOrSkip", o) \o Defer(removeContainer("c"))

(* skipIfImageVolumeUnsupported(err, true): an error is what is wanted, if *)
(* not one that reads as "unsupported", which skips the spec; without one  *)
(* the container is removed and the spec skipped as well.                  *)
rejectedImageVolume(o) == CreateVolumeCtr("CreateRejected", o)

InImageVolume(body, claims) == It(Context("image volume", <<>>, <<>>), body, claims)

ImageVolumeDigest ==
  [ volumeDigest |->
      InImageVolume(skipIfImageVolumeUnsupported({"volume digest"}) \o Shows("c", {})
                      \o Do("ShowsOrSkip", "c", "", {"image volume", "volume digest"}),
                    {"image volume"}) ]

ImageVolumeAccess ==
  [ volumeReadOnly |->
      InImageVolume(skipIfImageVolumeUnsupported({"read-only volume"})
                      \o startContainer("c") \o ExecOrSkip("c", {"image volume"})
                      \o ExecRefused("c", {"read-only volume"}) \o Exec("c", {}),
                    {"image volume"}),
    volumeWritable |->
      InImageVolume(rejectedImageVolume({"writable image volume"}),
                    {"writable image volume"}) ]

ImageVolumeSubPath ==
  [ volumeSubPath |->
      InImageVolume(skipIfImageVolumeUnsupported({"subPath"}) \o startContainer("c")
                      \o ExecOrSkip("c", {"image volume"})
                      \o RefusedOrSkip("c", {"subPath"}) \o Exec("c", {"subPath"}),
                    {"image volume", "subPath"}),
    volumeNoSubPath |->
      InImageVolume(rejectedImageVolume({"missing subPath"}), {"missing subPath"}) ]
===============================================================================

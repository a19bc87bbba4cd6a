----------------------------- MODULE MCSettings -----------------------------
(* Two pages that save the card of the two groups that are saved together. *)
EXTENDS Settings, TLC

Setting(format) == [width |-> 768, webp |-> 80, avif |-> 50, format |-> format]
MCDefault ==
  [g \in SettingGroup |->
     CASE g = "security" -> [idle |-> 2, absolute |-> 3, persist |-> 1,
            limits |-> {[threshold |-> 5, window |-> 1, cooldown |-> 1]}]
       [] g = "storage" -> [root |-> "bootstrap", stop |-> 1, warning |-> 2,
                            days |-> 30]
       [] g = "retry" -> [backoff |-> <<1, 2>>]
       [] g = "queue" -> [priorities |-> <<<<"import_work", "manual_import">>>>]
       [] g = "processing" -> [request_window |-> 60, download_window |-> 60]
       [] g = "derivative" -> Setting("webp")
       [] g = "ugoira" -> [zip |-> 1, pixels |-> 1, cache |-> 1]
       [] g = "pixiv" -> [private |-> FALSE]
       [] g = "content" -> [nsfw |-> FALSE, mask |-> FALSE]]
MCCandidate ==
  [g \in SettingGroup |->
     CASE g = "retry" -> {[backoff |-> <<1, 3>>], [backoff |-> <<2, 2>>]}
       [] g = "derivative" -> {Setting("webp"), Setting("avif")}
       [] OTHER -> {MCDefault[g]}]
MCBatch == {{"retry", "derivative"}}
=============================================================================

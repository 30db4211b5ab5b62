CONSTANTS
  Name <- MCName
  Prompt <- MCPrompt
  AutoFlags <- MCAutoFlags
  AutoPosts <- MCAutoPosts
  AliasPosts <- MCAliasPosts
SPECIFICATION Spec
INVARIANTS
  PostedConfigRoundTrips
  LongerPromptNeverSimpler
  ListedNamesCoverLoaded

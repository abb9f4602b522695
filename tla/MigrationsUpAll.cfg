SPECIFICATION Spec
INVARIANT UpAllBuildsEverySchema
